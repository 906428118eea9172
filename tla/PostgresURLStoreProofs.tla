---------------------- MODULE PostgresURLStoreProofs ----------------------
(***************************************************************************)
(* Proofs about PostgresURLStore, for any number of goroutines, URLs and   *)
(* users, any pool and batches of any length, with any number of lost      *)
(* connections, cancelled contexts and repeated short URLs.                *)
(***************************************************************************)
EXTENDS PostgresURLStore, TLAPS, FiniteSetTheorems

-----------------------------------------------------------------------------
(***************************************************************************)
(* The invariant: what an open transaction has written, against the        *)
(* committed rows and against what the other transactions have written.    *)
(***************************************************************************)
UniqueOriginals(map) ==
    \A s, t \in Bound(map) : map[s].originalURL = map[t].originalURL => s = t

\* A goroutine outside its loop is at the first pair, has no rows in flight and
\* nothing to answer yet.
LocalsAreFresh(p) ==
    /\ pc[p] \notin {"insert", "update", "commit"} => i[p] = 1 /\ writes[p] = EmptyMap
    /\ pc[p] # "release" => answer[p] = "ok" /\ reply[p] = {}
    /\ pc[p] = "commit" => call[p] \in AddCalls \cup DeleteUserURLsCalls

\* The rows of an adding transaction are new, its user's, one for each pair that
\* was inserted, and would leave every original URL one short URL.
Inserts(p) ==
    /\ \A s \in Bound(writes[p]) : /\ table[s] = Absent /\ ~writes[p][s].isDeleted
                                   /\ writes[p][s].userID = call[p].userID
    /\ UniqueOriginals(Updated(table, writes[p]))
    /\ pc[p] \in {"insert", "commit"} =>
        \A k \in DOMAIN call[p].pairs :
            /\ pc[p] = "commit" => k < i[p]
            /\ k < i[p] => writes[p][call[p].pairs[k].ShortURL] =
                                NewRecord(call[p].pairs[k], call[p].userID)

\* The rows of a deleting transaction are its user's, deleted; what was the
\* user's when it began is among them as far as it has come.
Updates(p) ==
    /\ \A s \in Bound(writes[p]) : /\ table[s] # Absent /\ table[s].userID = call[p].userID
                                   /\ writes[p][s] = Tombstone(table[s])
    /\ pc[p] \in {"update", "commit"} =>
        \A k \in DOMAIN call[p].shortURLs :
            LET s == call[p].shortURLs[k] IN
            /\ pc[p] = "commit" => k < i[p]
            /\ k < i[p] /\ before[p][s] # Absent /\ before[p][s].userID = call[p].userID
                => writes[p][s] # Absent

\* What was in the table when a deletion began still is, but for its deletion.
BeforeSurvives(p) ==
    call[p].op = "DeleteUserURLs" =>
        \A s \in Bound(before[p]) : table[s] \in {before[p][s], Tombstone(before[p][s])}

\* Two adding transactions share no short URL and no original URL.
NoClash ==
    \A p, q \in Procs : p # q /\ Adds(call[p]) /\ Adds(call[q]) =>
        \A s \in Bound(writes[p]), t \in Bound(writes[q]) :
            s # t /\ writes[p][s].originalURL # writes[q][t].originalURL

Typed == TypeOK /\ IsFiniteSet(Holders)

Inv ==
    /\ Typed
    /\ UniqueOriginals(table)
    /\ NoClash
    /\ \A p \in Procs :
        /\ LocalsAreFresh(p)
        /\ Adds(call[p]) => Inserts(p)
        /\ ~Adds(call[p]) => Updates(p)
        /\ BeforeSurvives(p)
    /\ AddsAnswerTruly
    /\ DeleteTakesEffect

-----------------------------------------------------------------------------
(***************************************************************************)
(* Records, calls and maps.                                                *)
(***************************************************************************)
LEMMA Records ==
    /\ \A rec \in URLRecords :
        /\ Tombstone(rec) \in URLRecords /\ rec # Absent /\ Tombstone(rec) # Absent
        /\ Tombstone(Tombstone(rec)) = Tombstone(rec)
        /\ Tombstone(rec).isDeleted /\ Tombstone(rec).userID = rec.userID
        /\ Tombstone(rec).originalURL = rec.originalURL
    /\ \A pair \in URLPairs, u \in UserIDs :
        /\ NewRecord(pair, u) \in URLRecords /\ ~NewRecord(pair, u).isDeleted
        /\ NewRecord(pair, u) # Absent
        /\ NewRecord(pair, u).originalURL = pair.OriginalURL
        /\ NewRecord(pair, u).userID = u
<1>1. Absent \notin URLRecords
  BY AbsentIsNoRecord
<1>2. \A rec \in URLRecords :
        /\ Tombstone(rec) \in URLRecords /\ Tombstone(Tombstone(rec)) = Tombstone(rec)
        /\ Tombstone(rec).isDeleted /\ Tombstone(rec).userID = rec.userID
        /\ Tombstone(rec).originalURL = rec.originalURL
  BY DEF URLRecords, Tombstone
<1>3. \A rec \in URLRecords : rec # Absent /\ Tombstone(rec) # Absent
  BY <1>1, <1>2
<1>4. \A pair \in URLPairs, u \in UserIDs :
        /\ NewRecord(pair, u) \in URLRecords /\ ~NewRecord(pair, u).isDeleted
        /\ NewRecord(pair, u).originalURL = pair.OriginalURL
        /\ NewRecord(pair, u).userID = u
  BY DEF URLRecords, URLPairs, NewRecord
<1>5. \A pair \in URLPairs, u \in UserIDs : NewRecord(pair, u) # Absent
  BY <1>1, <1>4
<1> QED
  BY <1>2, <1>3, <1>4, <1>5

LEMMA CallFacts ==
    /\ NoCall \in Calls /\ ~Adds(NoCall) /\ NoCall.op = "none"
    /\ \A c \in AddCalls :
        /\ c \in Calls /\ c # NoCall /\ Adds(c) /\ c.userID \in UserIDs
        /\ c.op = "AddURL" => c \in AddURLCalls
        /\ \E n \in Nat \ {0} : DOMAIN c.pairs = 1..n
        /\ \A k \in DOMAIN c.pairs : c.pairs[k] \in URLPairs
    /\ \A c \in AddURLCalls : c \in AddCalls /\ c.op = "AddURL" /\ DOMAIN c.pairs = {1}
    /\ \A c \in DeleteUserURLsCalls :
        /\ c \in Calls /\ c # NoCall /\ ~Adds(c) /\ c.op = "DeleteUserURLs"
        /\ c.userID \in UserIDs
        /\ \E n \in Nat : DOMAIN c.shortURLs = 1..n
        /\ \A k \in DOMAIN c.shortURLs : c.shortURLs[k] \in ShortURLs
    /\ \A c \in ReadCalls :
        /\ c \in Calls /\ c # NoCall /\ ~Adds(c)
        /\ c.op \in {"GetOriginalURL", "GetUserURLs", "IsAvailable"}
    /\ \A c \in Calls :
        /\ Adds(c) => c \in AddCalls
        /\ c.op = "DeleteUserURLs" => c \in DeleteUserURLsCalls
        /\ c # NoCall => c \in AddCalls \cup DeleteUserURLsCalls \cup ReadCalls
<1> USE BoundsAreNats DEF Calls, NoCall, Adds, AddCalls
<1>1. \A c \in AddURLCalls : /\ c.op = "AddURL" /\ c.userID \in UserIDs
                             /\ DOMAIN c.pairs = 1..1 /\ DOMAIN c.pairs = {1}
                             /\ c.pairs[1] \in URLPairs
  BY DEF AddURLCalls
<1>2. ASSUME NEW c \in AddURLsCalls
      PROVE  /\ c.op = "AddURLs" /\ c.userID \in UserIDs
             /\ \E n \in Nat \ {0} : DOMAIN c.pairs = 1..n
             /\ \A k \in DOMAIN c.pairs : c.pairs[k] \in URLPairs
  <2>1. PICK n \in 0..MaxBatch : c.pairs \in [1..n -> URLPairs]
    BY DEF AddURLsCalls, BoundedSeq, SeqOf
  <2>2. c.pairs # << >>
    BY DEF AddURLsCalls
  <2>3. n # 0
    BY <2>1, <2>2
  <2> QED
    BY <2>1, <2>3 DEF AddURLsCalls
<1>3. ASSUME NEW c \in DeleteUserURLsCalls
      PROVE  /\ c \in Calls /\ c # NoCall /\ ~Adds(c) /\ c.op = "DeleteUserURLs"
             /\ c.userID \in UserIDs
             /\ \E n \in Nat : DOMAIN c.shortURLs = 1..n
             /\ \A k \in DOMAIN c.shortURLs : c.shortURLs[k] \in ShortURLs
  BY DEF DeleteUserURLsCalls, BoundedSeq, SeqOf
<1>4. \A c \in ReadCalls :
        /\ c \in Calls /\ c # NoCall /\ ~Adds(c)
        /\ c.op \in {"GetOriginalURL", "GetUserURLs", "IsAvailable"}
  BY DEF ReadCalls, GetOriginalURLCalls, GetUserURLsCalls, IsAvailableCalls
<1>5. ASSUME NEW c \in AddCalls
      PROVE  /\ c \in Calls /\ c # NoCall /\ Adds(c) /\ c.userID \in UserIDs
             /\ c.op = "AddURL" => c \in AddURLCalls
             /\ \E n \in Nat \ {0} : DOMAIN c.pairs = 1..n
             /\ \A k \in DOMAIN c.pairs : c.pairs[k] \in URLPairs
  <2>1. CASE c \in AddURLCalls
    <3>1. DOMAIN c.pairs = 1..1 /\ 1 \in Nat \ {0}
      BY <1>1, <2>1
    <3> QED
      BY <1>1, <2>1, <3>1
  <2>2. CASE c \in AddURLsCalls
    BY <1>2, <2>2
  <2> QED
    BY <2>1, <2>2
<1>6. ASSUME NEW c \in Calls
      PROVE  /\ Adds(c) => c \in AddCalls
             /\ c.op = "DeleteUserURLs" => c \in DeleteUserURLsCalls
             /\ c # NoCall => c \in AddCalls \cup DeleteUserURLsCalls \cup ReadCalls
  BY <1>1, <1>2, <1>3, <1>4
<1>7. NoCall \in Calls /\ ~Adds(NoCall) /\ NoCall.op = "none"
  OBVIOUS
<1> QED
  BY <1>1, <1>3, <1>4, <1>5, <1>6, <1>7

LEMMA UpdatedType ==
    ASSUME NEW map \in URLMaps, NEW rows \in URLMaps
    PROVE  /\ Updated(map, rows) \in URLMaps
           /\ \A s \in ShortURLs :
                Updated(map, rows)[s] = IF rows[s] = Absent THEN map[s] ELSE rows[s]
BY DEF Updated, URLMaps

-----------------------------------------------------------------------------
(***************************************************************************)
(* Types.                                                                  *)
(***************************************************************************)
\* The steps of one goroutine.
StepOf(p) == BeginAdd(p) \/ BeginDeleteUserURLs(p) \/ BeginRead(p) \/ Steps(p) \/ Breaks(p)

\* How the pool changes: a goroutine joins the holders while there is room, or
\* it leaves them.
LEMMA HoldersStep ==
    ASSUME Typed, NEW p \in Procs, pc' = [pc EXCEPT ![p] = pc'[p]],
           \/ pc'[p] \notin Connected
           \/ pc[p] \in Connected
           \/ Cardinality(Holders) < MaxConns
    PROVE  IsFiniteSet(Holders') /\ Cardinality(Holders') <= MaxConns
<1>1. \A q \in Procs : q # p => pc'[q] = pc[q]
  BY DEF Typed, TypeOK
<1>2. IsFiniteSet(Holders) /\ Cardinality(Holders) \in Nat /\ MaxConns \in Nat
      /\ Cardinality(Holders) <= MaxConns
  BY FS_CardinalityType, PoolIsNotEmpty DEF Typed, TypeOK
<1>3. CASE pc'[p] \notin Connected \/ pc[p] \in Connected
  <2>1. Holders' \subseteq Holders
    BY <1>1, <1>3 DEF Holders
  <2>2. IsFiniteSet(Holders') /\ Cardinality(Holders') <= Cardinality(Holders)
    BY <1>2, <2>1, FS_Subset
  <2>3. Cardinality(Holders') \in Nat
    BY <2>2, FS_CardinalityType
  <2> QED
    BY <1>2, <2>2, <2>3
<1>4. CASE Cardinality(Holders) < MaxConns /\ pc'[p] \in Connected /\ pc[p] \notin Connected
  <2>1. Holders' = Holders \cup {p} /\ p \notin Holders
    BY <1>1, <1>4 DEF Holders
  <2>2. IsFiniteSet(Holders') /\ Cardinality(Holders') = Cardinality(Holders) + 1
    BY <1>2, <2>1, FS_AddElement
  <2> QED
    BY <1>2, <1>4, <2>2
<1> QED
  BY <1>3, <1>4

\* A step of p changes no other goroutine's transaction, locals or answer.
LEMMA OthersAreUntouched ==
    ASSUME TypeOK, NEW p \in Procs, StepOf(p)
    PROVE  /\ pc' = [pc EXCEPT ![p] = pc'[p]]
           /\ \A q \in Procs \ {p} :
                /\ pc'[q] = pc[q] /\ call'[q] = call[q] /\ i'[q] = i[q]
                /\ writes'[q] = writes[q] /\ answer'[q] = answer[q]
                /\ reply'[q] = reply[q] /\ before'[q] = before[q]
<1> USE DEF TypeOK, Goto, Return
<1>1. CASE BeginAdd(p) \/ BeginDeleteUserURLs(p) \/ BeginRead(p)
  BY <1>1 DEF BeginAdd, BeginDeleteUserURLs, BeginRead, Begin
<1>2. CASE Acquire(p) \/ AcquireFails(p)
  BY <1>2 DEF Acquire, AcquireFails
<1>3. CASE AddSteps(p)
  BY <1>3 DEF AddSteps, InsertRow, InsertEnd, AddURLRefused, AddURLsRefused, LookupHit, LookupMiss
<1>4. CASE DeleteSteps(p)
  BY <1>4 DEF DeleteSteps, UpdateRow, UpdateNoRow, UpdateEnd
<1>5. CASE Commit(p) \/ CommitFails(p)
  BY <1>5 DEF Commit, CommitFails
<1>6. CASE ReadSteps(p)
  BY <1>6 DEF ReadSteps, GetOriginalURL, GetUserURLs, IsAvailable
<1>7. CASE DeadlockDetected(p) \/ StatementFails(p) \/ ReadFails(p)
  BY <1>7 DEF DeadlockDetected, StatementFails, ReadFails
<1>8. CASE Release(p)
  BY <1>8 DEF Release
<1> QED
  BY <1>1, <1>2, <1>3, <1>4, <1>5, <1>6, <1>7, <1>8 DEF StepOf, Steps, Breaks

\* The table changes only when a transaction commits.
LEMMA TableStep ==
    ASSUME NEW p \in Procs, StepOf(p)
    PROVE  \/ table' = table
           \/ /\ pc[p] = "commit" /\ table' = Updated(table, writes[p])
              /\ Commit(p) \/ CommitFails(p)
BY DEF StepOf, Steps, Breaks, BeginAdd, BeginDeleteUserURLs, BeginRead, Begin, Acquire,
   AcquireFails, AddSteps, InsertRow, InsertEnd, AddURLRefused, AddURLsRefused, LookupHit,
   LookupMiss, DeleteSteps, UpdateRow, UpdateNoRow, UpdateEnd, Commit, CommitFails, ReadSteps,
   GetOriginalURL, GetUserURLs, IsAvailable, DeadlockDetected, StatementFails, ReadFails, Release

-----------------------------------------------------------------------------
\* What TypeOK says of one goroutine.
LocalsTyped(p) ==
    /\ writes[p] \in URLMaps
    /\ pc[p] \in {"idle", "acquire", "panic"} \cup Connected
    /\ call[p] \in Calls
    /\ i[p] \in Nat \ {0}
    /\ answer[p] \in {"ok", "exists", "notFound", "isDeleted", "error"}
    /\ reply[p] \in SUBSET URLPairs
    /\ before[p] \in URLMaps
    /\ pc[p] = "idle" <=> call[p] = NoCall
    /\ pc[p] = "insert" => call[p] \in AddCalls
    /\ pc[p] = "lookup" => call[p] \in AddURLCalls
    /\ pc[p] = "update" => call[p] \in DeleteUserURLsCalls
    /\ pc[p] = "read" => call[p] \in ReadCalls
    /\ answer[p] = "exists" => Cardinality(reply[p]) = 1

\* The variables are functions of the goroutines.
AreFunctions ==
    /\ writes = [p \in Procs |-> writes[p]] /\ pc = [p \in Procs |-> pc[p]]
    /\ call = [p \in Procs |-> call[p]] /\ i = [p \in Procs |-> i[p]]
    /\ answer = [p \in Procs |-> answer[p]] /\ reply = [p \in Procs |-> reply[p]]
    /\ before = [p \in Procs |-> before[p]]

LEMMA TypeIsLocal ==
    TypeOK <=> /\ table \in URLMaps /\ AreFunctions /\ \A p \in Procs : LocalsTyped(p)
               /\ Cardinality(Holders) <= MaxConns
<1>1. TypeOK => AreFunctions
  BY DEF TypeOK, AreFunctions
<1>2. TypeOK => \A p \in Procs : LocalsTyped(p)
  BY DEF TypeOK, LocalsTyped
<1>3. ASSUME AreFunctions, \A p \in Procs : LocalsTyped(p)
      PROVE  /\ writes \in [Procs -> URLMaps]
             /\ pc \in [Procs -> {"idle", "acquire", "panic"} \cup Connected]
             /\ call \in [Procs -> Calls]
             /\ i \in [Procs -> Nat \ {0}]
             /\ answer \in [Procs -> {"ok", "exists", "notFound", "isDeleted", "error"}]
             /\ reply \in [Procs -> SUBSET URLPairs]
             /\ before \in [Procs -> URLMaps]
  BY <1>3 DEF AreFunctions, LocalsTyped
<1> QED
  BY <1>1, <1>2, <1>3 DEF TypeOK, LocalsTyped

LEMMA FunctionsStep ==
    ASSUME TypeOK, NEW p \in Procs, StepOf(p)
    PROVE  AreFunctions'
<1>1. AreFunctions
  BY TypeIsLocal
<1> USE <1>1 DEF AreFunctions, Goto, Return
<1>2. CASE BeginAdd(p) \/ BeginDeleteUserURLs(p) \/ BeginRead(p)
  BY <1>2 DEF BeginAdd, BeginDeleteUserURLs, BeginRead, Begin
<1>3. CASE Acquire(p) \/ AcquireFails(p)
  BY <1>3 DEF Acquire, AcquireFails
<1>4. CASE AddSteps(p)
  BY <1>4 DEF AddSteps, InsertRow, InsertEnd, AddURLRefused, AddURLsRefused, LookupHit, LookupMiss
<1>5. CASE DeleteSteps(p)
  BY <1>5 DEF DeleteSteps, UpdateRow, UpdateNoRow, UpdateEnd
<1>6. CASE Commit(p) \/ CommitFails(p)
  BY <1>6 DEF Commit, CommitFails
<1>7. CASE ReadSteps(p)
  BY <1>7 DEF ReadSteps, GetOriginalURL, GetUserURLs, IsAvailable
<1>8. CASE DeadlockDetected(p) \/ StatementFails(p) \/ ReadFails(p)
  BY <1>8 DEF DeadlockDetected, StatementFails, ReadFails
<1>9. CASE Release(p)
  BY <1>9 DEF Release
<1> QED
  BY <1>2, <1>3, <1>4, <1>5, <1>6, <1>7, <1>8, <1>9 DEF StepOf, Steps, Breaks

LEMMA LocalTypeStep ==
    ASSUME Typed, NEW p \in Procs, StepOf(p), LocalsAreFresh(p)
    PROVE  table' \in URLMaps /\ LocalsTyped(p)'
<1> USE TypeIsLocal DEF Typed
<1>1. /\ table \in URLMaps /\ AreFunctions /\ LocalsTyped(p)
      /\ \A q \in Procs : LocalsTyped(q)
  OBVIOUS
<1>2. EmptyMap \in URLMaps
  BY DEF EmptyMap, URLMaps
<1> HIDE TypeIsLocal DEF Typed
<1> USE <1>1, <1>2
<1>t. ASSUME Return(p, answer'[p]), pc[p] # "idle", table' \in URLMaps,
             answer'[p] \in {"ok", "notFound", "isDeleted", "error"},
             reply'[p] \in SUBSET URLPairs
      PROVE  table' \in URLMaps /\ LocalsTyped(p)'
  BY <1>t DEF Return, Goto, AreFunctions, LocalsTyped, Connected
<1>u. \A result : Return(p, result) => answer'[p] = result /\ Return(p, answer'[p])
  BY DEF Return, AreFunctions
<1>v. reply[p] \in SUBSET URLPairs /\ i[p] \in Nat \ {0} /\ i[p] + 1 \in Nat \ {0}
  BY DEF LocalsTyped
<1> USE <1>v DEF AreFunctions, LocalsTyped, Connected
<1>3. CASE BeginAdd(p) \/ BeginDeleteUserURLs(p) \/ BeginRead(p)
  <2>1. PICK c \in AddCalls \cup DeleteUserURLsCalls \cup ReadCalls : Begin(p, c)
    BY <1>3 DEF BeginAdd, BeginDeleteUserURLs, BeginRead
  <2>2. c \in Calls /\ c # NoCall
    BY CallFacts
  <2> QED
    BY <2>1, <2>2 DEF Begin
<1>4. CASE Acquire(p)
  <2>1. call[p] \in AddCalls \cup DeleteUserURLsCalls \cup ReadCalls
    BY <1>4, CallFacts DEF Acquire
  <2>2. \/ call[p] \in AddCalls /\ FirstLabel(call[p]) = "insert"
        \/ call[p] \in DeleteUserURLsCalls /\ FirstLabel(call[p]) = "update"
        \/ call[p] \in ReadCalls /\ FirstLabel(call[p]) = "read"
    BY <2>1, CallFacts DEF FirstLabel
  <2> QED
    BY <1>4, <2>2 DEF Acquire, Goto
<1>5. CASE AcquireFails(p)
  BY <1>5 DEF AcquireFails, Goto
<1>6. ASSUME Inserting(p)
      PROVE  /\ call[p] \in AddCalls /\ call[p].userID \in UserIDs /\ PairOf(p) \in URLPairs
             /\ PairOf(p).ShortURL \in ShortURLs /\ PairOf(p).OriginalURL \in OriginalURLs
             /\ NewRecord(PairOf(p), call[p].userID) \in URLRecords
             /\ call[p].op = "AddURL" => call[p] \in AddURLCalls
  <2>1. call[p] \in AddCalls /\ call[p].userID \in UserIDs /\ PairOf(p) \in URLPairs
        /\ (call[p].op = "AddURL" => call[p] \in AddURLCalls)
    BY <1>6, CallFacts DEF Inserting, PairOf
  <2> QED
    BY <2>1, Records DEF URLPairs
<1>7. CASE InsertRow(p)
  <2>1. Inserting(p)
    BY <1>7 DEF InsertRow
  <2>2. writes'[p] \in URLMaps /\ i'[p] \in Nat \ {0}
    BY <1>6, <1>7, <2>1 DEF InsertRow, URLMaps
  <2>3. /\ pc'[p] = "insert" /\ call'[p] = call[p] /\ answer'[p] = answer[p] /\ table' = table
        /\ reply'[p] = reply[p] /\ before'[p] = before[p]
    BY <1>7 DEF InsertRow, Goto
  <2> QED
    BY <1>6, <2>1, <2>2, <2>3 DEF Inserting
<1>8. CASE InsertEnd(p) \/ UpdateEnd(p)
  BY <1>8 DEF InsertEnd, UpdateEnd, Goto
<1>9. CASE AddURLRefused(p)
  <2>1. Inserting(p) /\ call[p].op = "AddURL"
    BY <1>9 DEF AddURLRefused
  <2>2. writes'[p] \in URLMaps /\ i'[p] \in Nat \ {0}
    BY <1>9 DEF AddURLRefused
  <2>3. /\ pc'[p] = "lookup" /\ call'[p] = call[p] /\ answer'[p] = answer[p] /\ table' = table
        /\ reply'[p] = reply[p] /\ before'[p] = before[p]
    BY <1>9 DEF AddURLRefused, Goto
  <2> QED
    BY <1>6, <2>1, <2>2, <2>3 DEF Inserting
<1>10. CASE AddURLsRefused(p)
  <2>1. Inserting(p)
    BY <1>10 DEF AddURLsRefused
  <2> QED
    BY <1>10, <2>1, <1>t, <1>u DEF AddURLsRefused, Inserting
<1>11. CASE LookupHit(p)
  <2>1. call[p] \in AddURLCalls /\ i[p] \in Nat \ {0}
    BY <1>11 DEF LookupHit
  <2>2. PICK s \in ShortURLsOf(table, PairOf(p).OriginalURL) :
            reply' = [reply EXCEPT ![p] = {[PairOf(p) EXCEPT !.ShortURL = s]}]
    BY <1>11 DEF LookupHit
  <2>3. s \in ShortURLs /\ table[s].originalURL = PairOf(p).OriginalURL
        /\ table[s] \in URLRecords
    BY DEF ShortURLsOf, Bound, URLMaps
  <2>6. PairOf(p) \in URLPairs
    <3>1. i[p] = 1
      BY <1>11 DEF LookupHit, LocalsAreFresh
    <3> QED
      BY <2>1, <3>1, CallFacts DEF PairOf
  <2>4. [PairOf(p) EXCEPT !.ShortURL = s] \in URLPairs
    BY <2>1, <2>3, <2>6 DEF URLPairs
  <2>5. Cardinality(reply'[p]) = 1
    BY <2>2, FS_Singleton
  <2> QED
    BY <1>11, <2>2, <2>4, <2>5 DEF LookupHit, Return, Goto
<1>12. CASE LookupMiss(p)
  <2>1. pc[p] # "idle" /\ Return(p, "error") /\ table' = table /\ reply' = reply
    BY <1>12 DEF LookupMiss
  <2> QED
    BY <2>1, <1>t, <1>u
<1>13. CASE UpdateRow(p)
  <2>1. call[p] \in DeleteUserURLsCalls /\ KeyOf(p) \in ShortURLs
    BY <1>13, CallFacts DEF UpdateRow, Updating, KeyOf
  <2>2. Tombstone(table[KeyOf(p)]) \in URLRecords
    BY <1>13, <2>1, Records DEF UpdateRow, Matches, URLMaps
  <2>3. writes'[p] \in URLMaps /\ i'[p] \in Nat \ {0}
    BY <1>13, <2>1, <2>2 DEF UpdateRow, URLMaps
  <2>4. /\ pc'[p] = "update" /\ call'[p] = call[p] /\ answer'[p] = answer[p] /\ table' = table
        /\ reply'[p] = reply[p] /\ before'[p] = before[p]
    BY <1>13 DEF UpdateRow, Goto
  <2> QED
    BY <1>13, <2>1, <2>3, <2>4 DEF UpdateRow, Updating
<1>14. CASE UpdateNoRow(p)
  BY <1>14 DEF UpdateNoRow, Updating, Goto
<1>15. CASE Commit(p) \/ CommitFails(p)
  <2>1. Updated(table, writes[p]) \in URLMaps
    BY UpdatedType
  <2> QED
    BY <1>15, <2>1, <1>t, <1>u DEF Commit, CommitFails
<1>16. CASE StatementFails(p)
  BY <1>16, <1>t, <1>u DEF StatementFails
<1>17. CASE DeadlockDetected(p)
  <2>1. pc[p] \in {"insert", "update"}
    BY <1>17 DEF DeadlockDetected, InACircle, WaitsFor, Inserting, Updating
  <2> QED
    BY <1>17, <2>1, <1>t, <1>u DEF DeadlockDetected
<1>18. ASSUME NEW S, S \subseteq Bound(table)
       PROVE  PairsIn(table, S) \in SUBSET URLPairs
  BY <1>18 DEF PairsIn, Bound, URLMaps, URLPairs, URLRecords
<1>19. CASE GetOriginalURL(p)
  <2>1. reply'[p] \in SUBSET URLPairs
    BY <1>18, <1>19 DEF GetOriginalURL
  <2>2. PICK result \in {"ok", "notFound", "isDeleted"} : Return(p, result)
    BY <1>19 DEF GetOriginalURL
  <2> QED
    BY <1>19, <2>1, <2>2, <1>t, <1>u DEF GetOriginalURL
<1>20. CASE GetUserURLs(p)
  <2>1. reply'[p] \in SUBSET URLPairs
    BY <1>18, <1>20 DEF GetUserURLs
  <2> QED
    BY <1>20, <2>1, <1>t, <1>u DEF GetUserURLs
<1>21. CASE IsAvailable(p)
  BY <1>21, <1>t, <1>u DEF IsAvailable
<1>22. CASE ReadFails(p)
  <2>1. call[p].op \in {"GetOriginalURL", "GetUserURLs", "IsAvailable"}
    BY <1>22, CallFacts DEF ReadFails
  <2>2. PICK result \in {"ok", "error"} : Return(p, result)
    BY <1>22, <2>1 DEF ReadFails, ResultsOfFailure
  <2> QED
    BY <1>22, <2>2, <1>t, <1>u DEF ReadFails
<1>23. CASE Release(p)
  <2>1. NoCall \in Calls
    BY CallFacts
  <2> QED
    BY <1>23, <2>1 DEF Release
<1> QED
  BY <1>3, <1>4, <1>5, <1>7, <1>8, <1>9, <1>10, <1>11, <1>12, <1>13, <1>14, <1>15, <1>16,
     <1>17, <1>19, <1>20, <1>21, <1>22, <1>23
     DEF StepOf, Steps, Breaks, AddSteps, DeleteSteps, ReadSteps

-----------------------------------------------------------------------------
(***************************************************************************)
(* What a step of one goroutine does to its own locals.                    *)
(***************************************************************************)
\* p has no transaction, or no more, and returns nothing of one.
Outside(p) ==
    /\ writes'[p] = EmptyMap /\ i'[p] = 1
    /\ pc'[p] \notin {"insert", "update", "commit"}

\* The steps that leave the rows of p in flight alone or drop them.
LEMMA OwnStep ==
    ASSUME Typed, NEW p \in Procs, StepOf(p), LocalsAreFresh(p)
    PROVE  \/ /\ BeginAdd(p) \/ BeginDeleteUserURLs(p) \/ BeginRead(p)
              /\ Outside(p) /\ pc'[p] = "acquire" /\ answer'[p] = "ok" /\ reply'[p] = {}
              /\ before'[p] = IF call'[p].op = "DeleteUserURLs" THEN table ELSE before[p]
           \/ /\ Release(p) /\ Outside(p) /\ call'[p] = NoCall /\ pc'[p] = "idle"
              /\ answer'[p] = "ok" /\ reply'[p] = {} /\ before'[p] = EmptyMap
           \/ /\ call'[p] = call[p] /\ before'[p] = before[p]
              /\ \/ Acquire(p) \/ InsertRow(p) \/ InsertEnd(p)
                 \/ UpdateRow(p) \/ UpdateNoRow(p) \/ UpdateEnd(p)
                 \/ /\ AcquireFails(p) \/ AddURLRefused(p)
                    /\ Outside(p) /\ pc'[p] # "release"
                    /\ answer'[p] = answer[p] /\ reply'[p] = reply[p]
                 \/ Outside(p) /\ pc'[p] = "release" /\ answer'[p] \in {"error", "notFound", "isDeleted"}
                 \/ Outside(p) /\ pc'[p] = "release" /\ LookupHit(p) /\ answer'[p] = "exists"
                 \/ Outside(p) /\ pc'[p] = "release" /\ Commit(p) /\ answer'[p] = "ok"
                 \/ Outside(p) /\ pc'[p] = "release" /\ call[p] \in ReadCalls
<1> USE DEF Outside
<1>1. /\ \A q \in Procs : LocalsTyped(q)
      /\ AreFunctions /\ LocalsTyped(p)
  BY TypeIsLocal DEF Typed
<1>2. CASE BeginAdd(p) \/ BeginDeleteUserURLs(p) \/ BeginRead(p)
  <2>1. PICK c \in AddCalls \cup DeleteUserURLsCalls \cup ReadCalls : Begin(p, c)
    BY <1>2 DEF BeginAdd, BeginDeleteUserURLs, BeginRead
  <2>2. pc[p] = "idle" /\ pc'[p] = "acquire" /\ call'[p] = c
        /\ before'[p] = (IF c.op = "DeleteUserURLs" THEN table ELSE before[p])
        /\ writes' = writes /\ i' = i /\ answer' = answer /\ reply' = reply
    BY <1>1, <2>1 DEF Begin, AreFunctions
  <2>3. writes[p] = EmptyMap /\ i[p] = 1 /\ answer[p] = "ok" /\ reply[p] = {}
    BY <2>2 DEF LocalsAreFresh
  <2> QED
    BY <1>2, <2>2, <2>3
<1>3. CASE Release(p)
  <2>1. /\ pc[p] \in {"release", "panic"} /\ pc'[p] = "idle" /\ call'[p] = NoCall
        /\ answer'[p] = "ok" /\ reply'[p] = {} /\ before'[p] = EmptyMap
        /\ UNCHANGED <<writes, i>>
    BY <1>1, <1>3 DEF Release, AreFunctions
  <2>2. writes[p] = EmptyMap /\ i[p] = 1
    BY <2>1 DEF LocalsAreFresh
  <2> QED
    BY <1>3, <2>1, <2>2
<1>4. \A label : Goto(p, label) => /\ pc'[p] = label /\ call'[p] = call[p]
                                   /\ before'[p] = before[p]
  BY <1>1 DEF Goto, AreFunctions
<1>5. \A result : Return(p, result) =>
        /\ Outside(p) /\ pc'[p] = "release" /\ answer'[p] = result
        /\ call'[p] = call[p] /\ before'[p] = before[p]
  BY <1>1 DEF Return, Goto, AreFunctions
<1>6. CASE Acquire(p) \/ InsertRow(p) \/ InsertEnd(p) \/ UpdateRow(p) \/ UpdateNoRow(p) \/ UpdateEnd(p)
  BY <1>4, <1>6 DEF Acquire, InsertRow, InsertEnd, UpdateRow, UpdateNoRow, UpdateEnd
<1>7. CASE AcquireFails(p)
  <2>1. writes[p] = EmptyMap /\ i[p] = 1
    BY <1>7 DEF AcquireFails, LocalsAreFresh
  <2> QED
    BY <1>4, <1>7, <2>1 DEF AcquireFails
<1>8. CASE AddURLRefused(p)
  <2>1. call[p] \in AddCalls /\ i[p] \in DOMAIN call[p].pairs /\ call[p].op = "AddURL"
    BY <1>1, <1>8 DEF AddURLRefused, Inserting, LocalsTyped
  <2>2. call[p] \in AddURLCalls
    BY <2>1, CallFacts
  <2>3. i[p] = 1
    BY <2>1, <2>2, CallFacts
  <2>4. writes'[p] = EmptyMap /\ i'[p] = 1 /\ answer'[p] = answer[p] /\ reply'[p] = reply[p]
    BY <1>1, <1>8, <2>3 DEF AddURLRefused, AreFunctions
  <2>5. Goto(p, "lookup")
    BY <1>8 DEF AddURLRefused
  <2> QED
    BY <1>4, <1>8, <2>4, <2>5
<1>9. CASE AddURLsRefused(p) \/ LookupMiss(p) \/ StatementFails(p) \/ CommitFails(p) \/ DeadlockDetected(p)
  <2>1. Return(p, "error")
    BY <1>9 DEF AddURLsRefused, LookupMiss, StatementFails, CommitFails, DeadlockDetected
  <2> QED
    BY <1>5, <2>1
<1>10. CASE LookupHit(p)
  BY <1>5, <1>10 DEF LookupHit
<1>11. CASE Commit(p)
  BY <1>5, <1>11 DEF Commit
<1>12. CASE ReadSteps(p) \/ ReadFails(p)
  <2>1. pc[p] = "read" /\ \E result : Return(p, result)
    BY <1>12 DEF ReadSteps, GetOriginalURL, GetUserURLs, IsAvailable, ReadFails
  <2> QED
    BY <1>1, <1>5, <2>1 DEF LocalsTyped
<1> QED
  BY <1>2, <1>3, <1>6, <1>7, <1>8, <1>9, <1>10, <1>11, <1>12
     DEF StepOf, Steps, Breaks, AddSteps, DeleteSteps

LEMMA FreshStep ==
    ASSUME Typed, NEW p \in Procs, StepOf(p), LocalsAreFresh(p)
    PROVE  LocalsAreFresh(p)'
<1>1. AreFunctions /\ LocalsTyped(p)
  BY TypeIsLocal DEF Typed
<1>2. CASE Outside(p) /\ (pc'[p] = "release" \/ (answer'[p] = "ok" /\ reply'[p] = {}))
  BY <1>2 DEF Outside, LocalsAreFresh
<1>3. CASE /\ AcquireFails(p) \/ AddURLRefused(p)
           /\ Outside(p) /\ answer'[p] = answer[p] /\ reply'[p] = reply[p]
  <2>1. pc[p] # "release"
    BY <1>3 DEF AcquireFails, AddURLRefused, Inserting
  <2>2. answer[p] = "ok" /\ reply[p] = {}
    BY <2>1 DEF LocalsAreFresh
  <2> QED
    BY <1>2, <1>3, <2>2
<1>4. \A label : Goto(p, label) => pc'[p] = label /\ call'[p] = call[p]
  BY <1>1 DEF Goto, AreFunctions
<1>5. CASE Acquire(p)
  <2>1. pc[p] = "acquire" /\ Goto(p, FirstLabel(call[p])) /\ UNCHANGED <<writes, i, answer, reply>>
    BY <1>5 DEF Acquire
  <2>2. call[p] \in AddCalls \cup DeleteUserURLsCalls \cup ReadCalls
    BY <1>1, <2>1, CallFacts DEF LocalsTyped
  <2>3. FirstLabel(call[p]) \in {"insert", "update", "read"}
    BY <2>2, CallFacts DEF FirstLabel
  <2>4. i[p] = 1 /\ writes[p] = EmptyMap /\ answer[p] = "ok" /\ reply[p] = {}
    BY <2>1 DEF LocalsAreFresh
  <2>5. pc'[p] \in {"insert", "update", "read"}
    BY <1>4, <2>1, <2>3
  <2> QED
    BY <2>1, <2>4, <2>5 DEF LocalsAreFresh
<1>6. CASE InsertRow(p) \/ InsertEnd(p) \/ UpdateRow(p) \/ UpdateNoRow(p) \/ UpdateEnd(p)
  <2>1. /\ pc[p] \in {"insert", "update"} /\ pc'[p] \in {"insert", "update", "commit"}
        /\ call'[p] = call[p] /\ answer' = answer /\ reply' = reply
    BY <1>4, <1>6
       DEF InsertRow, InsertEnd, UpdateRow, UpdateNoRow, UpdateEnd, Inserting, Updating
  <2>2. call[p] \in AddCalls \cup DeleteUserURLsCalls /\ answer[p] = "ok" /\ reply[p] = {}
    BY <1>1, <2>1 DEF LocalsTyped, LocalsAreFresh
  <2> QED
    BY <2>1, <2>2 DEF LocalsAreFresh
<1>7. \/ Outside(p) /\ (pc'[p] = "release" \/ (answer'[p] = "ok" /\ reply'[p] = {}))
      \/ /\ AcquireFails(p) \/ AddURLRefused(p)
         /\ Outside(p) /\ answer'[p] = answer[p] /\ reply'[p] = reply[p]
      \/ Acquire(p)
      \/ InsertRow(p) \/ InsertEnd(p) \/ UpdateRow(p) \/ UpdateNoRow(p) \/ UpdateEnd(p)
  BY OwnStep, Zenon
<1> QED
  BY <1>2, <1>3, <1>5, <1>6, <1>7

\* What is committed: the new rows of an addition, or deletions of the user's rows.
LEMMA CommitShape ==
    ASSUME Inv, NEW p \in Procs, StepOf(p), NEW s \in ShortURLs
    PROVE  \/ table'[s] = table[s]
           \/ /\ pc[p] = "commit" /\ Adds(call[p])
              /\ table[s] = Absent /\ s \in Bound(writes[p])
              /\ table'[s] = writes[p][s] /\ writes[p][s] \in URLRecords
           \/ /\ pc[p] = "commit" /\ ~Adds(call[p])
              /\ table[s] \in URLRecords /\ table[s].userID = call[p].userID
              /\ table'[s] = Tombstone(table[s])
<1>1. LocalsTyped(p) /\ table \in URLMaps
  BY TypeIsLocal DEF Inv, Typed
<1>2. SUFFICES ASSUME pc[p] = "commit", table' = Updated(table, writes[p]), table'[s] # table[s]
               PROVE  \/ /\ Adds(call[p]) /\ table[s] = Absent /\ s \in Bound(writes[p])
                         /\ table'[s] = writes[p][s] /\ writes[p][s] \in URLRecords
                      \/ /\ ~Adds(call[p])
                         /\ table[s] \in URLRecords /\ table[s].userID = call[p].userID
                         /\ table'[s] = Tombstone(table[s])
  BY TableStep
<1>3. s \in Bound(writes[p]) /\ table'[s] = writes[p][s] /\ writes[p][s] \in URLRecords
  BY <1>1, <1>2, UpdatedType DEF Bound, LocalsTyped, URLMaps
<1>4. CASE Adds(call[p])
  BY <1>3, <1>4 DEF Inv, Inserts
<1>5. CASE ~Adds(call[p])
  BY <1>1, <1>3, <1>5 DEF Inv, Updates, URLMaps
<1> QED
  BY <1>4, <1>5

\* No row is unbound, rebound or revived.
LEMMA RowsSurvive ==
    ASSUME Inv, NEW p \in Procs, StepOf(p)
    PROVE  \A s \in Bound(table) :
            /\ table[s] \in URLRecords /\ table'[s] \in {table[s], Tombstone(table[s])}
            /\ table'[s] \in URLRecords /\ table'[s] # Absent
            /\ table'[s].originalURL = table[s].originalURL /\ table'[s].userID = table[s].userID
<1> SUFFICES ASSUME NEW s \in Bound(table)
             PROVE  /\ table[s] \in URLRecords /\ table'[s] \in {table[s], Tombstone(table[s])}
                    /\ table'[s] \in URLRecords /\ table'[s] # Absent
                    /\ table'[s].originalURL = table[s].originalURL
                    /\ table'[s].userID = table[s].userID
  OBVIOUS
<1>1. s \in ShortURLs /\ table[s] # Absent /\ table[s] \in URLRecords
  BY DEF Bound, Inv, Typed, TypeOK, URLMaps
<1>2. table'[s] \in {table[s], Tombstone(table[s])}
  BY <1>1, CommitShape
<1> QED
  BY <1>1, <1>2, Records

LEMMA UniqueStep ==
    ASSUME Inv, NEW p \in Procs, StepOf(p)
    PROVE  UniqueOriginals(table')
<1>1. CASE table' = table
  BY <1>1 DEF Inv
<1>2. CASE pc[p] = "commit" /\ table' = Updated(table, writes[p]) /\ Adds(call[p])
  BY <1>2 DEF Inv, Inserts
<1>3. CASE pc[p] = "commit" /\ ~Adds(call[p])
  <2>1. ASSUME NEW s \in Bound(table')
        PROVE  s \in Bound(table) /\ table'[s].originalURL = table[s].originalURL
    <3>1. s \in ShortURLs /\ table'[s] # Absent
      BY DEF Bound
    <3>2. s \in Bound(table)
      BY <1>3, <3>1, CommitShape, Records DEF Bound
    <3> QED
      BY <3>2, RowsSurvive
  <2> QED
    BY <2>1 DEF UniqueOriginals, Inv
<1> QED
  BY <1>1, <1>2, <1>3, TableStep

-----------------------------------------------------------------------------
(***************************************************************************)
(* The rows a transaction has in flight, after a step of its own.          *)
(***************************************************************************)
LEMMA NothingInFlight ==
    /\ \A s : s \in ShortURLs => EmptyMap[s] = Absent
    /\ Bound(EmptyMap) = {}
    /\ \A map \in URLMaps : Updated(map, EmptyMap) = map
BY DEF EmptyMap, Bound, Updated, URLMaps

LEMMA OutsideIsQuiet ==
    ASSUME NEW p \in Procs, Outside(p), table' \in URLMaps, UniqueOriginals(table')
    PROVE  Inserts(p)' /\ Updates(p)'
<1>1. writes'[p] = EmptyMap /\ Bound(writes'[p]) = {} /\ Updated(table', writes'[p]) = table'
      /\ pc'[p] \notin {"insert", "update", "commit"}
  BY NothingInFlight DEF Outside
<1> QED
  BY <1>1 DEF Inserts, Updates

\* What the INSERT of a row that violates nothing makes of the rows.
LEMMA RowIsInserted ==
    ASSUME NEW rows \in URLMaps, NEW map \in URLMaps, NEW pair \in URLPairs, NEW u \in UserIDs,
           UniqueOriginals(Updated(map, rows)),
           Updated(map, rows)[pair.ShortURL] = Absent,
           ShortURLsOf(Updated(map, rows), pair.OriginalURL) = {}
    PROVE  LET rows1 == [rows EXCEPT ![pair.ShortURL] = NewRecord(pair, u)] IN
           /\ rows1 \in URLMaps /\ rows1[pair.ShortURL] = NewRecord(pair, u)
           /\ map[pair.ShortURL] = Absent /\ rows[pair.ShortURL] = Absent
           /\ \A s \in ShortURLs : s # pair.ShortURL => rows1[s] = rows[s]
           /\ UniqueOriginals(Updated(map, rows1))
<1> DEFINE w == pair.ShortURL
           rec == NewRecord(pair, u)
           old == Updated(map, rows)
           rows1 == [rows EXCEPT ![pair.ShortURL] = NewRecord(pair, u)]
           new == Updated(map, rows1)
<1>1. w \in ShortURLs /\ rec \in URLRecords /\ rec # Absent /\ rec.originalURL = pair.OriginalURL
  BY Records DEF URLPairs
<1>2. /\ rows1 \in URLMaps /\ rows1[w] = rec
      /\ \A s \in ShortURLs : s # w => rows1[s] = rows[s]
  BY <1>1 DEF URLMaps
<1>3. map[w] = Absent /\ rows[w] = Absent
  BY <1>1, UpdatedType
<1>4. /\ new[w] = rec
      /\ \A s \in ShortURLs : s # w => new[s] = old[s]
  <2>1. /\ \A s \in ShortURLs : new[s] = IF rows1[s] = Absent THEN map[s] ELSE rows1[s]
        /\ \A s \in ShortURLs : old[s] = IF rows[s] = Absent THEN map[s] ELSE rows[s]
    BY <1>2, UpdatedType
  <2> HIDE DEF w, rec, new, old
  <2> QED
    BY <1>1, <1>2, <2>1
<1>5. \A s \in ShortURLs : old[s] # Absent => old[s].originalURL # rec.originalURL
  BY <1>1 DEF ShortURLsOf, Bound
<1>6. \A s, t \in ShortURLs : old[s] # Absent /\ old[t] # Absent
        /\ old[s].originalURL = old[t].originalURL => s = t
  BY DEF UniqueOriginals, Bound
<1>7. ASSUME NEW s \in ShortURLs, NEW t \in ShortURLs, new[s] # Absent, new[t] # Absent,
             new[s].originalURL = new[t].originalURL
      PROVE  s = t
  <2> HIDE DEF old, new, rec, w
  <2>1. CASE s # w /\ t # w
    BY <1>4, <1>6, <1>7, <2>1
  <2>2. CASE s = w /\ t # w
    BY <1>4, <1>5, <1>7, <2>2
  <2>3. CASE s # w /\ t = w
    BY <1>4, <1>5, <1>7, <2>3
  <2> QED
    BY <2>1, <2>2, <2>3
<1>8. UniqueOriginals(new)
  <2> HIDE DEF new
  <2> QED
    BY <1>7 DEF UniqueOriginals, Bound
<1> QED
  BY <1>2, <1>3, <1>8

LEMMA OwnInserts ==
    ASSUME Inv, NEW p \in Procs, StepOf(p), Adds(call'[p]), table' \in URLMaps
    PROVE  Inserts(p)'
<1>1. Typed /\ AreFunctions /\ LocalsTyped(p) /\ LocalsAreFresh(p) /\ table \in URLMaps
  BY TypeIsLocal DEF Inv, Typed
<1>2. UniqueOriginals(table')
  BY UniqueStep
<1>3. CASE Outside(p)
  BY <1>2, <1>3, OutsideIsQuiet
<1>4. \A label : Goto(p, label) => pc'[p] = label /\ call'[p] = call[p]
  BY <1>1 DEF Goto, AreFunctions
<1>5. CASE Acquire(p)
  <2>1. pc[p] = "acquire" /\ Goto(p, FirstLabel(call[p])) /\ UNCHANGED <<table, writes, i>>
    BY <1>5 DEF Acquire
  <2>2. i'[p] = 1 /\ writes'[p] = EmptyMap /\ table' = table /\ call'[p] = call[p]
    BY <1>1, <1>4, <2>1 DEF LocalsAreFresh
  <2>3. call[p] \in AddCalls /\ pc'[p] = "insert"
    <3>1. call[p] \in AddCalls
      BY <1>1, <2>2, CallFacts DEF LocalsTyped
    <3>2. FirstLabel(call[p]) = "insert"
      BY <3>1, CallFacts DEF FirstLabel
    <3> QED
      BY <1>4, <2>1, <3>1, <3>2
  <2>4. Bound(writes'[p]) = {} /\ Updated(table', writes'[p]) = table'
    BY <2>2, NothingInFlight
  <2>5. \A k \in DOMAIN call[p].pairs : ~(k < 1)
    BY <2>3, CallFacts
  <2> QED
    BY <1>2, <2>2, <2>3, <2>4, <2>5 DEF Inserts
<1>6. CASE InsertRow(p)
  <2> DEFINE pair == PairOf(p)
             u == call[p].userID
  <2>1. pc[p] = "insert" /\ call[p] \in AddCalls /\ i[p] \in DOMAIN call[p].pairs
        /\ u \in UserIDs /\ pair \in URLPairs /\ Adds(call[p])
    BY <1>1, <1>6, CallFacts DEF InsertRow, Inserting, PairOf, LocalsTyped
  <2>2. /\ writes' = [writes EXCEPT ![p][pair.ShortURL] = NewRecord(pair, u)]
        /\ i' = [i EXCEPT ![p] = @ + 1] /\ Goto(p, "insert") /\ table' = table
        /\ Updated(table, writes[p])[pair.ShortURL] = Absent
        /\ ShortURLsOf(Updated(table, writes[p]), pair.OriginalURL) = {}
    BY <1>6 DEF InsertRow, Violates
  <2>3. /\ writes'[p] = [writes[p] EXCEPT ![pair.ShortURL] = NewRecord(pair, u)]
        /\ i'[p] = i[p] + 1 /\ pc'[p] = "insert" /\ call'[p] = call[p]
    BY <1>1, <1>4, <2>2 DEF AreFunctions
  <2>4. writes[p] \in URLMaps
    BY <1>1 DEF LocalsTyped
  <2>5. Inserts(p)
    BY <2>1 DEF Inv
  <2>6. UniqueOriginals(Updated(table, writes[p]))
    BY <2>5 DEF Inserts
  <2>7. /\ writes'[p] \in URLMaps /\ writes'[p][pair.ShortURL] = NewRecord(pair, u)
        /\ table[pair.ShortURL] = Absent /\ writes[p][pair.ShortURL] = Absent
        /\ \A s \in ShortURLs : s # pair.ShortURL => writes'[p][s] = writes[p][s]
        /\ UniqueOriginals(Updated(table, writes'[p]))
    <3> HIDE DEF pair, u
    <3> QED
      BY <1>1, <2>1, <2>2, <2>3, <2>4, <2>6, RowIsInserted
  <2>8. \A s \in Bound(writes'[p]) : /\ table[s] = Absent /\ ~writes'[p][s].isDeleted
                                     /\ writes'[p][s].userID = u
    <3>1. ~NewRecord(pair, u).isDeleted /\ NewRecord(pair, u).userID = u
      BY <2>1, Records
    <3>2. \A s \in Bound(writes[p]) : /\ table[s] = Absent /\ ~writes[p][s].isDeleted
                                      /\ writes[p][s].userID = u
      BY <2>5 DEF Inserts
    <3> HIDE DEF pair, u
    <3> QED
      BY <2>7, <3>1, <3>2 DEF Bound
  <2>9. ASSUME NEW k \in DOMAIN call[p].pairs, k < i[p] + 1
        PROVE  writes'[p][call[p].pairs[k].ShortURL] = NewRecord(call[p].pairs[k], u)
    <3>1. CASE k = i[p]
      BY <2>7, <3>1 DEF PairOf
    <3>2. CASE k # i[p]
      <4>1. k < i[p]
        BY <1>1, <2>1, <2>9, <3>2, CallFacts DEF LocalsTyped
      <4>2. writes[p][call[p].pairs[k].ShortURL] = NewRecord(call[p].pairs[k], u)
        BY <2>1, <2>5, <4>1 DEF Inserts
      <4>3. call[p].pairs[k] \in URLPairs /\ call[p].pairs[k].ShortURL \in ShortURLs
        BY <2>1, CallFacts DEF URLPairs
      <4>4. NewRecord(call[p].pairs[k], u) # Absent
        BY <2>1, <4>3, Records
      <4> QED
        BY <2>7, <4>2, <4>3, <4>4
    <3> QED
      BY <3>1, <3>2
  <2> QED
    BY <2>2, <2>3, <2>7, <2>8, <2>9 DEF Inserts
<1>7. CASE InsertEnd(p)
  <2>1. /\ pc[p] = "insert" /\ call[p] \in AddCalls /\ i[p] \notin DOMAIN call[p].pairs
        /\ pc'[p] = "commit" /\ call'[p] = call[p]
        /\ i' = i /\ writes' = writes /\ table' = table
    BY <1>1, <1>4, <1>7 DEF InsertEnd, LocalsTyped
  <2>2. PICK n \in Nat : DOMAIN call[p].pairs = 1..n
    BY <2>1, CallFacts
  <2>3. \A k \in DOMAIN call[p].pairs : k < i[p]
    BY <1>1, <2>1, <2>2 DEF LocalsTyped
  <2>4. Inserts(p)
    BY <2>1, CallFacts DEF Inv
  <2> QED
    BY <2>1, <2>3, <2>4 DEF Inserts
<1>8. CASE UpdateRow(p) \/ UpdateNoRow(p) \/ UpdateEnd(p)
  <2>1. pc[p] = "update" /\ call'[p] = call[p]
    BY <1>4, <1>8 DEF UpdateRow, UpdateNoRow, UpdateEnd, Updating
  <2> QED
    BY <1>1, <2>1, CallFacts DEF LocalsTyped
<1>9. \/ Outside(p) \/ Acquire(p) \/ InsertRow(p) \/ InsertEnd(p)
      \/ UpdateRow(p) \/ UpdateNoRow(p) \/ UpdateEnd(p)
  BY <1>1, OwnStep, Zenon
<1> QED
  BY <1>3, <1>5, <1>6, <1>7, <1>8, <1>9

LEMMA OwnUpdates ==
    ASSUME Inv, NEW p \in Procs, StepOf(p), ~Adds(call'[p]), table' \in URLMaps
    PROVE  Updates(p)'
<1>1. Typed /\ AreFunctions /\ LocalsTyped(p) /\ LocalsAreFresh(p) /\ table \in URLMaps
  BY TypeIsLocal DEF Inv, Typed
<1>2. UniqueOriginals(table')
  BY UniqueStep
<1>3. CASE Outside(p)
  BY <1>2, <1>3, OutsideIsQuiet
<1>4. \A label : Goto(p, label) => pc'[p] = label /\ call'[p] = call[p] /\ before'[p] = before[p]
  BY <1>1 DEF Goto, AreFunctions
<1>5. CASE Acquire(p)
  <2>1. pc[p] = "acquire" /\ Goto(p, FirstLabel(call[p])) /\ UNCHANGED <<table, writes, i>>
    BY <1>5 DEF Acquire
  <2>2. i'[p] = 1 /\ writes'[p] = EmptyMap /\ call'[p] = call[p] /\ pc'[p] = FirstLabel(call[p])
    BY <1>1, <1>4, <2>1 DEF LocalsAreFresh
  <2>3. \/ call[p] \in DeleteUserURLsCalls
        \/ call[p] \in ReadCalls
    BY <1>1, <2>1, <2>2, CallFacts DEF LocalsTyped
  <2>4. Bound(writes'[p]) = {}
    BY <2>2, NothingInFlight
  <2>5. CASE call[p] \in DeleteUserURLsCalls
    <3>1. \A k \in DOMAIN call[p].shortURLs : ~(k < 1)
      BY <2>5, CallFacts
    <3>2. pc'[p] = "update"
      BY <2>2, <2>5, CallFacts DEF FirstLabel
    <3> QED
      BY <2>2, <2>4, <3>1, <3>2 DEF Updates
  <2>6. CASE call[p] \in ReadCalls
    <3>1. pc'[p] = "read"
      BY <2>2, <2>6, CallFacts DEF FirstLabel
    <3> QED
      BY <2>2, <2>4, <3>1 DEF Updates
  <2> QED
    BY <2>3, <2>5, <2>6
<1>6. ASSUME pc[p] = "update", table' = table, call'[p] = call[p], before'[p] = before[p]
      PROVE  /\ call[p] \in DeleteUserURLsCalls /\ Updates(p) /\ BeforeSurvives(p)
             /\ \A k \in DOMAIN call[p].shortURLs : call[p].shortURLs[k] \in ShortURLs /\ k \in Nat
             /\ i[p] \in Nat \ {0}
  <2>1. call[p] \in DeleteUserURLsCalls /\ i[p] \in Nat \ {0}
    BY <1>1, <1>6 DEF LocalsTyped
  <2>2. ~Adds(call[p])
    BY <2>1, CallFacts
  <2> QED
    BY <2>1, <2>2, CallFacts DEF Inv
<1>7. CASE UpdateRow(p)
  <2> DEFINE key == KeyOf(p)
  <2>1. /\ pc[p] = "update" /\ i[p] \in DOMAIN call[p].shortURLs /\ table' = table
        /\ writes' = [writes EXCEPT ![p][key] = Tombstone(table[key])]
        /\ i' = [i EXCEPT ![p] = @ + 1] /\ Goto(p, "update")
        /\ table[key] # Absent /\ table[key].userID = call[p].userID
    BY <1>7 DEF UpdateRow, Updating, Matches
  <2>2. /\ writes'[p] = [writes[p] EXCEPT ![key] = Tombstone(table[key])]
        /\ i'[p] = i[p] + 1 /\ pc'[p] = "update" /\ call'[p] = call[p] /\ before'[p] = before[p]
    BY <1>1, <1>4, <2>1 DEF AreFunctions
  <2>3. /\ call[p] \in DeleteUserURLsCalls /\ Updates(p) /\ key \in ShortURLs
        /\ \A k \in DOMAIN call[p].shortURLs : call[p].shortURLs[k] \in ShortURLs /\ k \in Nat
        /\ i[p] \in Nat \ {0}
    BY <1>6, <2>1, <2>2 DEF KeyOf
  <2>4. writes[p] \in URLMaps /\ table[key] \in URLRecords
    BY <1>1, <2>1, <2>3 DEF LocalsTyped, URLMaps
  <2>5. writes'[p][key] = Tombstone(table[key]) /\ writes'[p][key] # Absent
    BY <2>2, <2>3, <2>4, Records DEF URLMaps
  <2>6. \A s \in ShortURLs : s # key => writes'[p][s] = writes[p][s]
    BY <2>2, <2>4 DEF URLMaps
  <2>7. \A s \in Bound(writes'[p]) : /\ table[s] # Absent /\ table[s].userID = call[p].userID
                                     /\ writes'[p][s] = Tombstone(table[s])
    <3>1. \A s \in Bound(writes[p]) : /\ table[s] # Absent /\ table[s].userID = call[p].userID
                                      /\ writes[p][s] = Tombstone(table[s])
      BY <2>3 DEF Updates
    <3> HIDE DEF key
    <3> QED
      BY <2>1, <2>3, <2>5, <2>6, <3>1 DEF Bound
  <2>8. ASSUME NEW k \in DOMAIN call[p].shortURLs, k < i[p] + 1,
               before[p][call[p].shortURLs[k]] # Absent,
               before[p][call[p].shortURLs[k]].userID = call[p].userID
        PROVE  writes'[p][call[p].shortURLs[k]] # Absent
    <3>1. CASE k = i[p]
      BY <2>5, <3>1 DEF KeyOf
    <3>2. CASE k # i[p]
      <4>1. k < i[p]
        BY <2>3, <2>8, <3>2
      <4>2. writes[p][call[p].shortURLs[k]] # Absent
        BY <2>1, <2>3, <2>8, <4>1 DEF Updates
      <4> QED
        BY <2>3, <2>5, <2>6, <4>2
    <3> QED
      BY <3>1, <3>2
  <2> HIDE DEF key
  <2> QED
    BY <2>1, <2>2, <2>7, <2>8 DEF Updates
<1>8. CASE UpdateNoRow(p)
  <2>1. /\ pc[p] = "update" /\ i[p] \in DOMAIN call[p].shortURLs /\ table' = table
        /\ writes' = writes /\ i' = [i EXCEPT ![p] = @ + 1] /\ Goto(p, "update")
        /\ ~Matches(p)
    BY <1>8 DEF UpdateNoRow, Updating
  <2>2. i'[p] = i[p] + 1 /\ pc'[p] = "update" /\ call'[p] = call[p] /\ before'[p] = before[p]
    BY <1>1, <1>4, <2>1 DEF AreFunctions
  <2>3. /\ call[p] \in DeleteUserURLsCalls /\ Updates(p) /\ BeforeSurvives(p)
        /\ \A k \in DOMAIN call[p].shortURLs : call[p].shortURLs[k] \in ShortURLs /\ k \in Nat
        /\ i[p] \in Nat \ {0}
    BY <1>6, <2>1, <2>2
  <2>4. ~(before[p][KeyOf(p)] # Absent /\ before[p][KeyOf(p)].userID = call[p].userID)
    <3>1. SUFFICES ASSUME before[p][KeyOf(p)] # Absent,
                          before[p][KeyOf(p)].userID = call[p].userID
                   PROVE  Matches(p)
      BY <2>1
    <3>2. KeyOf(p) \in ShortURLs /\ KeyOf(p) \in Bound(before[p])
      BY <2>1, <2>3, <3>1 DEF KeyOf, Bound
    <3>3. before[p][KeyOf(p)] \in URLRecords
      BY <1>1, <3>1, <3>2 DEF LocalsTyped, URLMaps
    <3>4. table[KeyOf(p)] \in {before[p][KeyOf(p)], Tombstone(before[p][KeyOf(p)])}
      BY <2>3, <3>2, CallFacts DEF BeforeSurvives
    <3> QED
      BY <3>1, <3>3, <3>4, Records DEF Matches
  <2>5. ASSUME NEW k \in DOMAIN call[p].shortURLs, k < i[p] + 1,
               before[p][call[p].shortURLs[k]] # Absent,
               before[p][call[p].shortURLs[k]].userID = call[p].userID
        PROVE  writes[p][call[p].shortURLs[k]] # Absent
    <3>1. k # i[p]
      BY <2>4, <2>5 DEF KeyOf
    <3>2. k < i[p]
      BY <2>3, <2>5, <3>1
    <3> QED
      BY <2>1, <2>3, <2>5, <3>2 DEF Updates
  <2> QED
    BY <2>1, <2>2, <2>3, <2>5 DEF Updates
<1>9. CASE UpdateEnd(p)
  <2>1. /\ pc[p] = "update" /\ i[p] \notin DOMAIN call[p].shortURLs
        /\ pc'[p] = "commit" /\ call'[p] = call[p] /\ before'[p] = before[p]
        /\ i' = i /\ writes' = writes /\ table' = table
    BY <1>1, <1>4, <1>9 DEF UpdateEnd, LocalsTyped
  <2>2. call[p] \in DeleteUserURLsCalls /\ Updates(p) /\ i[p] \in Nat \ {0}
    BY <1>6, <2>1
  <2>3. PICK n \in Nat : DOMAIN call[p].shortURLs = 1..n
    BY <2>2, CallFacts
  <2>4. \A k \in DOMAIN call[p].shortURLs : k < i[p]
    BY <2>1, <2>2, <2>3
  <2> QED
    BY <2>1, <2>2, <2>4 DEF Updates
<1>10. CASE InsertRow(p) \/ InsertEnd(p)
  <2>1. pc[p] = "insert" /\ call'[p] = call[p]
    BY <1>4, <1>10 DEF InsertRow, InsertEnd, Inserting
  <2> QED
    BY <1>1, <2>1, CallFacts DEF LocalsTyped
<1>11. \/ Outside(p) \/ Acquire(p) \/ InsertRow(p) \/ InsertEnd(p)
       \/ UpdateRow(p) \/ UpdateNoRow(p) \/ UpdateEnd(p)
  BY <1>1, OwnStep, Zenon
<1> QED
  BY <1>3, <1>5, <1>7, <1>8, <1>9, <1>10, <1>11

LEMMA BeforeStep ==
    ASSUME Inv, NEW p \in Procs, StepOf(p), NEW q \in Procs
    PROVE  BeforeSurvives(q)'
<1>1. Typed /\ TypeOK /\ LocalsTyped(q) /\ LocalsAreFresh(p)
  BY TypeIsLocal DEF Inv, Typed
<1>2. CASE call'[q] = call[q] /\ before'[q] = before[q]
  <2>1. SUFFICES ASSUME call[q].op = "DeleteUserURLs", NEW s \in Bound(before[q])
                 PROVE  table'[s] \in {before[q][s], Tombstone(before[q][s])}
    BY <1>2 DEF BeforeSurvives
  <2>2. table[s] \in {before[q][s], Tombstone(before[q][s])}
    BY <2>1 DEF Inv, BeforeSurvives
  <2>3. s \in ShortURLs /\ before[q][s] \in URLRecords
    BY <1>1, <2>1 DEF LocalsTyped, Bound, URLMaps
  <2>4. s \in Bound(table)
    BY <2>2, <2>3, Records DEF Bound
  <2>5. table'[s] \in {table[s], Tombstone(table[s])}
    BY <2>4, RowsSurvive
  <2> QED
    BY <2>2, <2>3, <2>5, Records
<1>3. CASE q = p /\ (BeginAdd(p) \/ BeginDeleteUserURLs(p) \/ BeginRead(p))
  <2>1. table' = table
    BY <1>3 DEF BeginAdd, BeginDeleteUserURLs, BeginRead, Begin
  <2>2. pc[p] = "idle"
    BY <1>3 DEF BeginAdd, BeginDeleteUserURLs, BeginRead, Begin
  <2>3. CASE before'[p] = (IF call'[p].op = "DeleteUserURLs" THEN table ELSE before[p])
    BY <1>3, <2>1, <2>3 DEF BeforeSurvives
  <2>4. CASE call'[p] = call[p]
    <3>1. call'[p] # NoCall
      <4>1. PICK c \in AddCalls \cup DeleteUserURLsCalls \cup ReadCalls : Begin(p, c)
        BY <1>3 DEF BeginAdd, BeginDeleteUserURLs, BeginRead
      <4> QED
        BY <1>1, <4>1, CallFacts DEF Begin, TypeOK
    <3> QED
      BY <1>1, <1>3, <2>2, <2>4, <3>1 DEF LocalsTyped
  <2>5. CASE call'[p] = NoCall
    BY <1>3, <2>5, CallFacts DEF BeforeSurvives
  <2> QED
    BY <1>1, <2>3, <2>4, <2>5, OwnStep, Zenon
<1>4. CASE q = p /\ call'[p] = NoCall
  BY <1>4, CallFacts DEF BeforeSurvives
<1>5. \/ call'[q] = call[q] /\ before'[q] = before[q]
      \/ q = p /\ (BeginAdd(p) \/ BeginDeleteUserURLs(p) \/ BeginRead(p))
      \/ q = p /\ call'[p] = NoCall
  <2>1. CASE q = p
    BY <1>1, <2>1, OwnStep, Zenon
  <2>2. CASE q # p
    BY <1>1, <2>2, OthersAreUntouched
  <2> QED
    BY <2>1, <2>2
<1> QED
  BY <1>2, <1>3, <1>4, <1>5

-----------------------------------------------------------------------------
(***************************************************************************)
(* The rows the other transactions have in flight.                         *)
(***************************************************************************)
LEMMA OthersInserts ==
    ASSUME Inv, NEW p \in Procs, StepOf(p), NEW q \in Procs \ {p}, Adds(call[q])
    PROVE  Inserts(q)'
<1>1. Inserts(q) /\ LocalsTyped(q) /\ LocalsTyped(p) /\ TypeOK
  BY TypeIsLocal DEF Inv, Typed
<1>2. pc'[q] = pc[q] /\ call'[q] = call[q] /\ i'[q] = i[q] /\ writes'[q] = writes[q]
  BY <1>1, OthersAreUntouched
<1>3. table \in URLMaps /\ table' \in URLMaps /\ writes[q] \in URLMaps
  <2>1. Typed /\ LocalsAreFresh(p)
    BY DEF Inv
  <2> QED
    BY <1>1, <2>1, LocalTypeStep DEF LocalsTyped, TypeOK
<1>4. ASSUME NEW s \in ShortURLs, table'[s] # table[s], table[s] = Absent
      PROVE  /\ Adds(call[p]) /\ s \in Bound(writes[p]) /\ table'[s] = writes[p][s]
             /\ pc[p] = "commit"
  BY <1>4, CommitShape, Records
<1>5. ASSUME NEW s \in Bound(writes[p]), NEW t \in Bound(writes[q]), Adds(call[p])
      PROVE  s # t /\ writes[p][s].originalURL # writes[q][t].originalURL
  BY <1>5 DEF Inv, NoClash
<1>6. \A s \in Bound(writes[q]) : table'[s] = Absent
  BY <1>1, <1>4, <1>5 DEF Inserts, Bound
<1> DEFINE old == Updated(table, writes[q])
           new == Updated(table', writes[q])
           own == Updated(table, writes[p])
<1>7. UniqueOriginals(old)
  BY <1>1 DEF Inserts
<1>8. \A s \in ShortURLs : /\ old[s] = IF writes[q][s] = Absent THEN table[s] ELSE writes[q][s]
                           /\ new[s] = IF writes[q][s] = Absent THEN table'[s] ELSE writes[q][s]
  BY <1>3, UpdatedType
<1>9. \A s \in ShortURLs : own[s] = IF writes[p][s] = Absent THEN table[s] ELSE writes[p][s]
  BY <1>1, <1>3, UpdatedType DEF LocalsTyped
<1> HIDE DEF old, new, own
<1>10. ASSUME NEW s \in Bound(new)
       PROVE  \/ s \in Bound(old) /\ new[s].originalURL = old[s].originalURL
              \/ /\ s \notin Bound(old) /\ s \in Bound(own) /\ Adds(call[p])
                 /\ s \in Bound(writes[p]) /\ new[s] = own[s] /\ new[s] = writes[p][s]
  <2>1. s \in ShortURLs /\ new[s] # Absent
    BY DEF Bound
  <2>2. CASE writes[q][s] # Absent
    BY <1>8, <2>1, <2>2 DEF Bound
  <2>3. CASE writes[q][s] = Absent /\ table[s] # Absent
    <3>1. table'[s].originalURL = table[s].originalURL
      BY <2>1, <2>3, RowsSurvive DEF Bound
    <3> QED
      BY <1>8, <2>1, <2>3, <3>1 DEF Bound
  <2>4. CASE writes[q][s] = Absent /\ table[s] = Absent
    <3>1. table'[s] # Absent /\ new[s] = table'[s] /\ old[s] = Absent
      BY <1>8, <2>1, <2>4
    <3> QED
      BY <1>4, <1>9, <2>1, <2>4, <3>1 DEF Bound
  <2> QED
    BY <2>2, <2>3, <2>4
<1>11. ASSUME NEW s \in Bound(writes[p]), Adds(call[p]), s \notin Bound(old), NEW t \in Bound(old)
       PROVE  writes[p][s].originalURL # old[t].originalURL
  <2>1. s \in ShortURLs /\ t \in ShortURLs /\ old[t] # Absent /\ writes[p][s] # Absent
    BY DEF Bound
  <2>2. CASE writes[q][t] # Absent
    BY <1>5, <1>8, <1>11, <2>1, <2>2 DEF Bound
  <2>3. CASE writes[q][t] = Absent
    <3>1. old[t] = table[t] /\ table[t] # Absent
      BY <1>8, <2>1, <2>3
    <3>2. Inserts(p) /\ UniqueOriginals(own)
      BY <1>11 DEF Inv, Inserts, own
    <3>3. own[s] = writes[p][s] /\ s # t
      BY <1>9, <1>11, <2>1
    <3>4. writes[p][t] = Absent
      BY <2>1, <3>1, <3>2 DEF Inserts, Bound
    <3>5. own[t] = table[t]
      BY <1>9, <2>1, <3>4
    <3> QED
      BY <2>1, <3>1, <3>2, <3>3, <3>5 DEF UniqueOriginals, Bound
  <2> QED
    BY <2>2, <2>3
<1>12. ASSUME NEW s \in Bound(new), NEW t \in Bound(new), new[s].originalURL = new[t].originalURL
       PROVE  s = t
  <2>1. CASE s \in Bound(old) /\ t \in Bound(old)
    BY <1>7, <1>10, <1>12, <2>1 DEF UniqueOriginals
  <2>2. CASE s \in Bound(old) /\ t \notin Bound(old)
    BY <1>10, <1>11, <1>12, <2>2
  <2>3. CASE s \notin Bound(old) /\ t \in Bound(old)
    BY <1>10, <1>11, <1>12, <2>3
  <2>4. CASE s \notin Bound(old) /\ t \notin Bound(old)
    <3>1. UniqueOriginals(own)
      BY <1>10, <2>4 DEF Inv, Inserts, own
    <3> QED
      BY <1>10, <1>12, <2>4, <3>1 DEF UniqueOriginals
  <2> QED
    BY <2>1, <2>2, <2>3, <2>4
<1>13. UniqueOriginals(Updated(table', writes[q]))
  BY <1>12 DEF UniqueOriginals, new
<1> QED
  BY <1>1, <1>2, <1>6, <1>13 DEF Inserts

LEMMA OthersUpdates ==
    ASSUME Inv, NEW p \in Procs, StepOf(p), NEW q \in Procs \ {p}, ~Adds(call[q])
    PROVE  Updates(q)'
<1>1. Updates(q) /\ LocalsTyped(q) /\ TypeOK
  BY TypeIsLocal DEF Inv, Typed
<1>2. /\ pc'[q] = pc[q] /\ call'[q] = call[q] /\ i'[q] = i[q] /\ writes'[q] = writes[q]
      /\ before'[q] = before[q]
  BY <1>1, OthersAreUntouched
<1>3. \A s \in Bound(writes[q]) : /\ table'[s] # Absent /\ table'[s].userID = call[q].userID
                                  /\ writes[q][s] = Tombstone(table'[s])
  <2> SUFFICES ASSUME NEW s \in Bound(writes[q])
               PROVE  /\ table'[s] # Absent /\ table'[s].userID = call[q].userID
                      /\ writes[q][s] = Tombstone(table'[s])
    OBVIOUS
  <2>1. /\ table[s] # Absent /\ table[s].userID = call[q].userID
        /\ writes[q][s] = Tombstone(table[s])
    BY <1>1 DEF Updates
  <2>2. s \in Bound(table)
    BY <2>1 DEF Bound
  <2> QED
    BY <2>1, <2>2, RowsSurvive, Records
<1> QED
  BY <1>1, <1>2, <1>3 DEF Updates

LEMMA NoClashStep ==
    ASSUME Inv, NEW p \in Procs, StepOf(p)
    PROVE  NoClash'
<1>1. Typed /\ TypeOK /\ AreFunctions /\ LocalsTyped(p) /\ LocalsAreFresh(p)
  BY TypeIsLocal DEF Inv, Typed
<1>2. \A q \in Procs \ {p} : call'[q] = call[q] /\ writes'[q] = writes[q]
  BY <1>1, OthersAreUntouched
<1>3. ASSUME NEW q \in Procs \ {p}, Adds(call'[p]), Adds(call[q]),
             NEW s \in Bound(writes'[p]), NEW t \in Bound(writes[q])
      PROVE  s # t /\ writes'[p][s].originalURL # writes[q][t].originalURL
  <2>1. ASSUME s \in Bound(writes[p]), writes'[p][s] = writes[p][s], Adds(call[p])
        PROVE  s # t /\ writes'[p][s].originalURL # writes[q][t].originalURL
    BY <1>3, <2>1 DEF Inv, NoClash
  <2>2. CASE Outside(p)
    BY <1>3, <2>2, NothingInFlight DEF Outside
  <2>3. CASE Acquire(p) \/ InsertEnd(p)
    <3>1. writes' = writes /\ call' = call
      BY <2>3 DEF Acquire, InsertEnd, Goto
    <3> QED
      BY <1>3, <2>1, <3>1
  <2>4. CASE UpdateRow(p) \/ UpdateNoRow(p) \/ UpdateEnd(p)
    <3>1. pc[p] = "update" /\ call' = call
      BY <2>4 DEF UpdateRow, UpdateNoRow, UpdateEnd, Updating, Goto
    <3> QED
      BY <1>1, <1>3, <3>1, CallFacts DEF LocalsTyped
  <2>5. CASE InsertRow(p)
    <3> DEFINE pair == PairOf(p)
               u == call[p].userID
    <3>1. /\ pc[p] = "insert" /\ call[p] \in AddCalls /\ Adds(call[p])
          /\ u \in UserIDs /\ pair \in URLPairs
      BY <1>1, <2>5, CallFacts DEF InsertRow, Inserting, PairOf, LocalsTyped
    <3>2. /\ InsertWaitsFor(p) = {}
          /\ writes'[p] = [writes[p] EXCEPT ![pair.ShortURL] = NewRecord(pair, u)]
      BY <1>1, <2>5 DEF InsertRow, AreFunctions
    <3>3. /\ writes'[p][pair.ShortURL].originalURL = pair.OriginalURL
          /\ \A r \in ShortURLs : r # pair.ShortURL => writes'[p][r] = writes[p][r]
      BY <1>1, <3>1, <3>2, Records DEF LocalsTyped, URLMaps, URLPairs
    <3>4. CASE s = pair.ShortURL
      <4>1. table[t] = Absent
        BY <1>3 DEF Inv, Inserts
      <4>2. ~(t = pair.ShortURL \/ writes[q][t].originalURL = pair.OriginalURL)
        BY <3>2, <4>1 DEF InsertWaitsFor
      <4> QED
        BY <3>3, <3>4, <4>2
    <3>5. CASE s # pair.ShortURL
      <4>1. s \in Bound(writes[p]) /\ writes'[p][s] = writes[p][s]
        BY <3>3, <3>5 DEF Bound
      <4> QED
        BY <2>1, <3>1, <4>1
    <3> QED
      BY <3>4, <3>5
  <2>6. \/ Outside(p) \/ Acquire(p) \/ InsertRow(p) \/ InsertEnd(p)
        \/ UpdateRow(p) \/ UpdateNoRow(p) \/ UpdateEnd(p)
    BY <1>1, OwnStep, Zenon
  <2> QED
    BY <2>2, <2>3, <2>4, <2>5, <2>6
<1>4. ASSUME NEW a \in Procs, NEW b \in Procs, a # b, Adds(call'[a]), Adds(call'[b]),
             NEW s \in Bound(writes'[a]), NEW t \in Bound(writes'[b])
      PROVE  s # t /\ writes'[a][s].originalURL # writes'[b][t].originalURL
  <2>1. CASE a = p
    BY <1>2, <1>3, <1>4, <2>1
  <2>2. CASE b = p
    <3>1. t # s /\ writes'[b][t].originalURL # writes[a][s].originalURL
      BY <1>2, <1>3, <1>4, <2>2
    <3> QED
      BY <1>2, <1>4, <2>2, <3>1
  <2>3. CASE a # p /\ b # p
    BY <1>2, <1>4, <2>3 DEF Inv, NoClash
  <2> QED
    BY <2>1, <2>2, <2>3
<1> QED
  BY <1>4 DEF NoClash

-----------------------------------------------------------------------------
(***************************************************************************)
(* The answers.                                                            *)
(***************************************************************************)
\* AddsAnswerTruly and DeleteTakesEffect, of one goroutine.
AddAnswers(p) ==
    /\ Answered(p, "AddURL", "ok") \/ Answered(p, "AddURLs", "ok") =>
        \A pair \in ToSet(call[p].pairs) : Stored(pair, call[p].userID)
    /\ Answered(p, "AddURL", "exists") =>
        \A pair \in reply[p] :
            /\ pair.ShortURL \in ShortURLsOf(table, pair.OriginalURL)
            /\ pair.OriginalURL = call[p].pairs[1].OriginalURL

DeleteAnswers(p) ==
    Answered(p, "DeleteUserURLs", "ok") =>
        \A s \in ToSet(call[p].shortURLs) \cap Bound(before[p]) :
            before[p][s].userID = call[p].userID => table[s].isDeleted

LEMMA StoredSurvives ==
    ASSUME Inv, NEW p \in Procs, StepOf(p), NEW pair \in URLPairs, NEW u \in UserIDs,
           Stored(pair, u)
    PROVE  table'[pair.ShortURL] \in {NewRecord(pair, u), Tombstone(NewRecord(pair, u))}
<1>1. pair.ShortURL \in ShortURLs /\ NewRecord(pair, u) \in URLRecords
  BY Records DEF URLPairs
<1>2. pair.ShortURL \in Bound(table)
  BY <1>1, Records DEF Stored, Bound
<1>3. table'[pair.ShortURL] \in {table[pair.ShortURL], Tombstone(table[pair.ShortURL])}
  BY <1>2, RowsSurvive
<1> QED
  BY <1>1, <1>3, Records DEF Stored

\* What was true of an answer stays true while others go on.
LEMMA AnswersStay ==
    ASSUME Inv, NEW p \in Procs, StepOf(p), NEW q \in Procs, q # p
    PROVE  AddAnswers(q)' /\ DeleteAnswers(q)'
<1>1. LocalsTyped(q) /\ TypeOK /\ AddAnswers(q) /\ DeleteAnswers(q) /\ BeforeSurvives(q)
  BY TypeIsLocal DEF Inv, Typed, AddsAnswerTruly, DeleteTakesEffect, AddAnswers, DeleteAnswers
<1>2. /\ pc'[q] = pc[q] /\ call'[q] = call[q] /\ answer'[q] = answer[q]
      /\ reply'[q] = reply[q] /\ before'[q] = before[q]
  BY <1>1, OthersAreUntouched
<1>3. ASSUME Answered(q, "AddURL", "ok") \/ Answered(q, "AddURLs", "ok"),
             NEW pair \in ToSet(call[q].pairs)
      PROVE  table'[pair.ShortURL] \in {NewRecord(pair, call[q].userID),
                                         Tombstone(NewRecord(pair, call[q].userID))}
  <2>1. call[q] \in AddCalls /\ call[q].userID \in UserIDs
    BY <1>1, <1>3, CallFacts DEF Answered, LocalsTyped, Adds
  <2>2. pair \in URLPairs
    BY <2>1, CallFacts DEF ToSet
  <2>3. Stored(pair, call[q].userID)
    BY <1>1, <1>3 DEF AddAnswers
  <2> QED
    BY <2>1, <2>2, <2>3, StoredSurvives
<1>4. ASSUME Answered(q, "AddURL", "exists"), NEW pair \in reply[q]
      PROVE  /\ pair.ShortURL \in ShortURLsOf(table', pair.OriginalURL)
             /\ pair.OriginalURL = call[q].pairs[1].OriginalURL
  <2>1. /\ pair.ShortURL \in ShortURLsOf(table, pair.OriginalURL)
        /\ pair.OriginalURL = call[q].pairs[1].OriginalURL
    BY <1>1, <1>4 DEF AddAnswers
  <2>2. pair.ShortURL \in Bound(table) /\ pair.ShortURL \in ShortURLs
        /\ table[pair.ShortURL].originalURL = pair.OriginalURL
    BY <2>1 DEF ShortURLsOf, Bound
  <2>3. table'[pair.ShortURL] # Absent /\ table'[pair.ShortURL].originalURL = pair.OriginalURL
    BY <2>2, RowsSurvive
  <2> QED
    BY <2>1, <2>2, <2>3 DEF ShortURLsOf, Bound
<1>5. ASSUME Answered(q, "DeleteUserURLs", "ok"),
             NEW s \in ToSet(call[q].shortURLs) \cap Bound(before[q]),
             before[q][s].userID = call[q].userID
      PROVE  table'[s].isDeleted
  <2>1. table[s].isDeleted
    BY <1>1, <1>5 DEF DeleteAnswers
  <2>2. s \in ShortURLs /\ before[q][s] \in URLRecords
    BY <1>1 DEF LocalsTyped, Bound, URLMaps
  <2>3. table[s] \in {before[q][s], Tombstone(before[q][s])}
    BY <1>1, <1>5 DEF BeforeSurvives, Answered
  <2>4. s \in Bound(table) /\ table[s] \in URLRecords
    BY <2>2, <2>3, Records DEF Bound
  <2>5. table'[s] \in {table[s], Tombstone(table[s])}
    BY <2>4, RowsSurvive
  <2> QED
    BY <2>1, <2>4, <2>5, Records
<1> QED
  BY <1>2, <1>3, <1>4, <1>5 DEF AddAnswers, DeleteAnswers, Answered, Stored

\* The transaction of an addition is all of its pairs.
LEMMA BatchIsCommitted ==
    ASSUME Inv, NEW p \in Procs, pc[p] = "commit", Adds(call[p]),
           table' = Updated(table, writes[p])
    PROVE  \A pair \in ToSet(call[p].pairs) :
            table'[pair.ShortURL] = NewRecord(pair, call[p].userID)
<1>1. LocalsTyped(p) /\ table \in URLMaps /\ Inserts(p)
  BY TypeIsLocal DEF Inv, Typed
<1>2. call[p] \in AddCalls /\ call[p].userID \in UserIDs
  BY <1>1, CallFacts DEF LocalsTyped
<1> SUFFICES ASSUME NEW pair \in ToSet(call[p].pairs)
             PROVE  table'[pair.ShortURL] = NewRecord(pair, call[p].userID)
  OBVIOUS
<1>3. PICK k \in DOMAIN call[p].pairs : pair = call[p].pairs[k]
  BY DEF ToSet
<1>4. pair \in URLPairs /\ pair.ShortURL \in ShortURLs
  BY <1>2, <1>3, CallFacts DEF URLPairs
<1>5. writes[p][pair.ShortURL] = NewRecord(pair, call[p].userID)
  BY <1>1, <1>3 DEF Inserts
<1> QED
  BY <1>1, <1>2, <1>4, <1>5, Records, UpdatedType DEF LocalsTyped

\* What p answers is true when it answers.
LEMMA OwnAnswers ==
    ASSUME Inv, NEW p \in Procs, StepOf(p)
    PROVE  AddAnswers(p)' /\ DeleteAnswers(p)'
<1>1. Typed /\ AreFunctions /\ LocalsTyped(p) /\ LocalsAreFresh(p) /\ BeforeSurvives(p)
      /\ table \in URLMaps
  BY TypeIsLocal DEF Inv, Typed
<1>2. CASE pc'[p] # "release" \/ answer'[p] \notin {"ok", "exists"}
           \/ call'[p] \in ReadCalls
  BY <1>2, CallFacts DEF AddAnswers, DeleteAnswers, Answered
<1>3. CASE LookupHit(p) /\ call'[p] = call[p] /\ answer'[p] = "exists"
  <2>1. pc[p] = "lookup" /\ call[p] \in AddURLCalls /\ i[p] = 1 /\ table' = table
    BY <1>1, <1>3 DEF LookupHit, LocalsTyped, LocalsAreFresh
  <2>2. PairOf(p) = call[p].pairs[1] /\ PairOf(p) \in URLPairs
    BY <2>1, CallFacts DEF PairOf
  <2>3. PICK s \in ShortURLsOf(table, PairOf(p).OriginalURL) :
            reply' = [reply EXCEPT ![p] = {[PairOf(p) EXCEPT !.ShortURL = s]}]
    BY <1>3 DEF LookupHit
  <2>4. reply'[p] = {[PairOf(p) EXCEPT !.ShortURL = s]}
    BY <1>1, <2>3 DEF AreFunctions
  <2>5. /\ [PairOf(p) EXCEPT !.ShortURL = s].ShortURL = s
        /\ [PairOf(p) EXCEPT !.ShortURL = s].OriginalURL = PairOf(p).OriginalURL
    BY <2>2 DEF URLPairs
  <2> QED
    BY <1>3, <2>1, <2>2, <2>3, <2>4, <2>5 DEF AddAnswers, DeleteAnswers, Answered
<1>4. CASE /\ Commit(p) /\ call'[p] = call[p] /\ before'[p] = before[p]
           /\ answer'[p] = "ok"
  <2>1. pc[p] = "commit" /\ table' = Updated(table, writes[p])
        /\ call[p] \in AddCalls \cup DeleteUserURLsCalls
    BY <1>1, <1>4 DEF Commit, LocalsAreFresh
  <2>2. \A s \in ShortURLs : writes[p][s] # Absent => table'[s] = writes[p][s]
    BY <1>1, <2>1, UpdatedType DEF LocalsTyped
  <2>3. CASE call[p] \in AddCalls
    <3>1. Inserts(p) /\ Adds(call[p]) /\ call[p].userID \in UserIDs
      BY <2>3, CallFacts DEF Inv
    <3>2. \A pair \in ToSet(call[p].pairs) :
            table'[pair.ShortURL] = NewRecord(pair, call[p].userID)
      BY <2>1, <3>1, BatchIsCommitted
    <3>3. call[p].op # "DeleteUserURLs"
      BY <3>1 DEF Adds
    <3> QED
      BY <1>4, <3>2, <3>3 DEF AddAnswers, DeleteAnswers, Answered, Stored
  <2>4. CASE call[p] \in DeleteUserURLsCalls
    <3>1. Updates(p) /\ call[p].op = "DeleteUserURLs" /\ ~Adds(call[p])
      BY <2>4, CallFacts DEF Inv
    <3>2. ASSUME NEW s \in ToSet(call[p].shortURLs) \cap Bound(before[p]),
                 before[p][s].userID = call[p].userID
          PROVE  table'[s].isDeleted
      <4>1. PICK k \in DOMAIN call[p].shortURLs : s = call[p].shortURLs[k]
        BY DEF ToSet
      <4>2. writes[p][s] # Absent
        BY <2>1, <3>1, <3>2, <4>1 DEF Updates, Bound
      <4>3. s \in Bound(writes[p]) /\ s \in ShortURLs
        BY <4>2 DEF Bound
      <4>4. writes[p][s] = Tombstone(table[s]) /\ table[s] \in URLRecords
        BY <1>1, <3>1, <4>3 DEF Updates, URLMaps
      <4> QED
        BY <2>2, <4>2, <4>3, <4>4, Records
    <3> QED
      BY <1>4, <3>1, <3>2 DEF AddAnswers, DeleteAnswers, Answered
  <2> QED
    BY <2>1, <2>3, <2>4
<1>5. \/ pc'[p] # "release" \/ answer'[p] \notin {"ok", "exists"} \/ call'[p] \in ReadCalls
      \/ LookupHit(p) /\ call'[p] = call[p] /\ answer'[p] = "exists"
      \/ /\ Commit(p) /\ call'[p] = call[p] /\ before'[p] = before[p]
         /\ answer'[p] = "ok"
  <2>1. (Acquire(p) \/ InsertRow(p) \/ InsertEnd(p) \/ UpdateRow(p) \/ UpdateNoRow(p)
            \/ UpdateEnd(p)) => pc'[p] # "release"
    <3>1. \A label : Goto(p, label) => pc'[p] = label
      BY <1>1 DEF Goto, AreFunctions
    <3>2. ASSUME Acquire(p) PROVE pc'[p] # "release"
      <4>1. call[p] \in AddCalls \cup DeleteUserURLsCalls \cup ReadCalls
        BY <1>1, <3>2, CallFacts DEF Acquire, LocalsTyped
      <4>2. FirstLabel(call[p]) # "release"
        BY <4>1, CallFacts DEF FirstLabel
      <4> QED
        BY <3>1, <3>2, <4>2 DEF Acquire
    <3> QED
      BY <3>1, <3>2 DEF InsertRow, InsertEnd, UpdateRow, UpdateNoRow, UpdateEnd
  <2>2. pc'[p] \in {"acquire", "idle"} => pc'[p] # "release"
    OBVIOUS
  <2>3. answer'[p] \in {"error", "notFound", "isDeleted"} => answer'[p] \notin {"ok", "exists"}
    OBVIOUS
  <2>4. pc'[p] = "acquire" \/ pc'[p] = "idle" => pc'[p] # "release"
    OBVIOUS
  <2> QED
    BY <1>1, <2>1, <2>3, <2>4, OwnStep, Zenon
<1> QED
  BY <1>2, <1>3, <1>4, <1>5

-----------------------------------------------------------------------------
(***************************************************************************)
(* The invariant holds, and what follows from it.                          *)
(***************************************************************************)
LEMMA InitialInv == Init => Inv
<1> SUFFICES ASSUME Init
             PROVE  Inv
  OBVIOUS
<1>1. EmptyMap \in URLMaps /\ table = EmptyMap
  BY DEF Init, EmptyMap, URLMaps
<1>2. Holders = {} /\ IsFiniteSet(Holders) /\ Cardinality(Holders) <= MaxConns
  <2>1. Holders = {}
    BY DEF Init, Holders, Connected
  <2> QED
    BY <2>1, FS_EmptySet, PoolIsNotEmpty
<1>3. \A p \in Procs : pc[p] = "idle" /\ call[p] = NoCall /\ writes[p] = EmptyMap /\ i[p] = 1
                       /\ answer[p] = "ok" /\ reply[p] = {} /\ before[p] = EmptyMap
  BY DEF Init
<1>4. AreFunctions
  BY DEF Init, AreFunctions
<1>5. \A p \in Procs : LocalsTyped(p)
  BY <1>1, <1>3, CallFacts DEF LocalsTyped
<1>6. Typed
  BY <1>1, <1>2, <1>4, <1>5, TypeIsLocal DEF Typed
<1>7. UniqueOriginals(table)
  BY <1>1, NothingInFlight DEF UniqueOriginals
<1>8. NoClash /\ AddsAnswerTruly /\ DeleteTakesEffect
  BY <1>3, CallFacts DEF NoClash, AddsAnswerTruly, DeleteTakesEffect, Answered
<1>9. \A p \in Procs : LocalsAreFresh(p) /\ ~Adds(call[p]) /\ Updates(p) /\ BeforeSurvives(p)
  BY <1>3, CallFacts, NothingInFlight DEF LocalsAreFresh, Updates, BeforeSurvives
<1> QED
  BY <1>6, <1>7, <1>8, <1>9 DEF Inv

LEMMA TypedStep ==
    ASSUME Inv, NEW p \in Procs, StepOf(p)
    PROVE  Typed' /\ table' \in URLMaps
<1>1. Typed /\ TypeOK /\ AreFunctions /\ LocalsAreFresh(p) /\ \A q \in Procs : LocalsTyped(q)
  BY TypeIsLocal DEF Inv, Typed
<1>2. table' \in URLMaps /\ LocalsTyped(p)' /\ AreFunctions'
  BY <1>1, LocalTypeStep, FunctionsStep
<1>3. \A q \in Procs \ {p} : LocalsTyped(q)'
  BY <1>1, OthersAreUntouched DEF LocalsTyped
<1>4. \/ pc'[p] \notin Connected
      \/ pc[p] \in Connected
      \/ Cardinality(Holders) < MaxConns
  <2>1. CASE Acquire(p)
    BY <2>1 DEF Acquire
  <2>2. CASE BeginAdd(p) \/ BeginDeleteUserURLs(p) \/ BeginRead(p) \/ AcquireFails(p) \/ Release(p)
    <3>1. pc'[p] \in {"idle", "acquire", "panic"}
      BY <1>1, <2>2 DEF BeginAdd, BeginDeleteUserURLs, BeginRead, Begin, AcquireFails, Goto,
         Release, AreFunctions
    <3> QED
      BY <3>1 DEF Connected
  <2>3. CASE AddSteps(p) \/ DeleteSteps(p) \/ ReadSteps(p)
    BY <2>3 DEF AddSteps, InsertRow, InsertEnd, AddURLRefused, AddURLsRefused, LookupHit,
       LookupMiss, Inserting, DeleteSteps, UpdateRow, UpdateNoRow, UpdateEnd, Updating,
       ReadSteps, GetOriginalURL, GetUserURLs, IsAvailable, Connected
  <2>4. CASE Commit(p) \/ DeadlockDetected(p) \/ StatementFails(p) \/ CommitFails(p) \/ ReadFails(p)
    <3>1. DeadlockDetected(p) => pc[p] \in {"insert", "update"}
      BY DEF DeadlockDetected, InACircle, WaitsFor, Inserting, Updating
    <3> QED
      BY <2>4, <3>1 DEF Commit, StatementFails, CommitFails, ReadFails, Connected
  <2> QED
    BY <2>1, <2>2, <2>3, <2>4 DEF StepOf, Steps, Breaks
<1>5. IsFiniteSet(Holders') /\ Cardinality(Holders') <= MaxConns
  BY <1>1, <1>4, HoldersStep, OthersAreUntouched
<1>6. TypeOK'
  <2>1. /\ table' \in URLMaps /\ AreFunctions' /\ \A q \in Procs : LocalsTyped(q)'
        /\ Cardinality(Holders') <= MaxConns
    BY <1>2, <1>3, <1>5
  <2>2. /\ writes' \in [Procs -> URLMaps]
        /\ pc' \in [Procs -> {"idle", "acquire", "panic"} \cup Connected]
        /\ call' \in [Procs -> Calls]
        /\ i' \in [Procs -> Nat \ {0}]
        /\ answer' \in [Procs -> {"ok", "exists", "notFound", "isDeleted", "error"}]
        /\ reply' \in [Procs -> SUBSET URLPairs]
        /\ before' \in [Procs -> URLMaps]
    BY <2>1 DEF AreFunctions, LocalsTyped
  <2> QED
    BY <2>1, <2>2 DEF TypeOK, LocalsTyped
<1> QED
  BY <1>2, <1>5, <1>6 DEF Typed

LEMMA StepKeepsInv ==
    ASSUME Inv, NEW p \in Procs, StepOf(p)
    PROVE  Inv'
<1>1. Typed /\ TypeOK /\ LocalsAreFresh(p)
  BY DEF Inv, Typed
<1>2. Typed' /\ table' \in URLMaps
  BY TypedStep
<1>3. UniqueOriginals(table)'
  BY UniqueStep DEF UniqueOriginals, Bound
<1>4. \A q \in Procs \ {p} : /\ pc'[q] = pc[q] /\ call'[q] = call[q] /\ i'[q] = i[q]
                             /\ writes'[q] = writes[q] /\ answer'[q] = answer[q]
                             /\ reply'[q] = reply[q]
  BY <1>1, OthersAreUntouched
<1>5. ASSUME NEW q \in Procs
      PROVE  LocalsAreFresh(q)' /\ BeforeSurvives(q)'
  <2>1. CASE q = p
    BY <1>1, <2>1, FreshStep, BeforeStep
  <2>2. CASE q # p
    BY <1>4, <2>2, BeforeStep DEF Inv, LocalsAreFresh
  <2> QED
    BY <2>1, <2>2
<1>6. ASSUME NEW q \in Procs
      PROVE  (Adds(call[q]) => Inserts(q))' /\ (~Adds(call[q]) => Updates(q))'
  <2>1. CASE q = p
    BY <1>2, <2>1, OwnInserts, OwnUpdates DEF Adds
  <2>2. CASE q # p
    BY <1>4, <2>2, OthersInserts, OthersUpdates DEF Adds
  <2> QED
    BY <2>1, <2>2
<1>7. \A q \in Procs : AddAnswers(q)' /\ DeleteAnswers(q)'
  BY OwnAnswers, AnswersStay
<1>8. AddsAnswerTruly' /\ DeleteTakesEffect'
  BY <1>7 DEF AddAnswers, DeleteAnswers, AddsAnswerTruly, DeleteTakesEffect
<1>9. NoClash'
  BY NoClashStep
<1> QED
  BY <1>2, <1>3, <1>5, <1>6, <1>8, <1>9 DEF Inv

LEMMA StutterKeepsInv == Inv /\ UNCHANGED vars => Inv'
<1> SUFFICES ASSUME Inv, UNCHANGED vars
             PROVE  Inv'
  OBVIOUS
<1>1. /\ table' = table /\ writes' = writes /\ pc' = pc /\ call' = call /\ i' = i
      /\ answer' = answer /\ reply' = reply /\ before' = before
  BY DEF vars
<1>2. Typed' /\ UniqueOriginals(table)' /\ NoClash'
  BY <1>1 DEF Inv, Typed, TypeOK, Holders, UniqueOriginals, NoClash, Bound, Adds
<1>3. \A p \in Procs :
        /\ LocalsAreFresh(p)'
        /\ (Adds(call[p]) => Inserts(p))'
        /\ (~Adds(call[p]) => Updates(p))'
        /\ BeforeSurvives(p)'
  BY <1>1 DEF Inv, LocalsAreFresh, Inserts, Updates, BeforeSurvives, UniqueOriginals, Bound,
     Updated, Adds
<1>4. AddsAnswerTruly' /\ DeleteTakesEffect'
  BY <1>1 DEF Inv, AddsAnswerTruly, DeleteTakesEffect, Answered, Stored, ShortURLsOf, Bound
<1> QED
  BY <1>2, <1>3, <1>4 DEF Inv

(***************************************************************************)
(* Every state satisfies the invariant: what each open transaction has     *)
(* written fits the committed rows and every other open transaction.       *)
(***************************************************************************)
THEOREM Invariance == Spec => []Inv
<1>1. Init => Inv
  BY InitialInv
<1>2. Inv /\ [Next]_vars => Inv'
  BY StepKeepsInv, StutterKeepsInv DEF Next, StepOf
<1> QED
  BY <1>1, <1>2, PTL DEF Spec

(***************************************************************************)
(* The types, and with them the pool: never more connections are held than *)
(* it has, in any order of Acquire, Release, errors and panics.            *)
(***************************************************************************)
THEOREM TypesAreRight == Spec => []TypeOK
<1>1. Inv => TypeOK
  BY DEF Inv, Typed
<1> QED
  BY <1>1, Invariance, PTL

(***************************************************************************)
(* What AddURL and AddURLs answer is true when they answer, and stays true *)
(* until the caller has it, whatever is committed meanwhile.               *)
(***************************************************************************)
THEOREM AddsTellTheTruth == Spec => []AddsAnswerTruly
<1>1. Inv => AddsAnswerTruly
  BY DEF Inv
<1> QED
  BY <1>1, Invariance, PTL

(***************************************************************************)
(* DeleteUserURLs has deleted, when it returns nil, every URL of its list  *)
(* that was the caller's when it began.                                    *)
(***************************************************************************)
THEOREM DeletesTakeEffect == Spec => []DeleteTakesEffect
<1>1. Inv => DeleteTakesEffect
  BY DEF Inv
<1> QED
  BY <1>1, Invariance, PTL

(***************************************************************************)
(* The table changes in one step of each call, its COMMIT, and that step is*)
(* the whole batch of an addition, or deletions of the caller's own rows.  *)
(***************************************************************************)
THEOREM CallsCommitAtOnce == Spec => CallsAreAtomic
<1>1. ASSUME Inv, [Next]_vars, table' # table
      PROVE  \E p \in Procs : pc[p] = "commit" /\ pc'[p] = "release" /\ CommitsOf(p)
  <2>1. PICK p \in Procs : StepOf(p)
    BY <1>1 DEF Next, StepOf, vars
  <2>2. /\ pc[p] = "commit" /\ table' = Updated(table, writes[p])
        /\ Commit(p) \/ CommitFails(p)
    BY <1>1, <2>1, TableStep
  <2>3. pc'[p] = "release"
    BY <1>1, <2>2 DEF Commit, CommitFails, Return, Goto, Inv, Typed, TypeOK
  <2>4. CASE Adds(call[p])
    BY <1>1, <2>2, <2>3, <2>4, BatchIsCommitted DEF CommitsOf
  <2>5. CASE ~Adds(call[p])
    <3>1. ASSUME NEW s \in ShortURLs, table'[s] # table[s]
          PROVE  s \in Bound(table) /\ table[s].userID = call[p].userID
      BY <1>1, <2>1, <2>5, <3>1, CommitShape, Records DEF Bound
    <3> QED
      BY <2>2, <2>3, <2>5, <3>1 DEF CommitsOf
  <2> QED
    BY <2>4, <2>5
<1>2. Inv /\ [Next]_vars => [table' # table => \E p \in Procs :
        pc[p] = "commit" /\ pc'[p] = "release" /\ CommitsOf(p)]_vars
  BY <1>1
<1> QED
  BY <1>2, Invariance, PTL DEF Spec, CallsAreAtomic

-----------------------------------------------------------------------------
(***************************************************************************)
(* The refinement.                                                         *)
(***************************************************************************)
\* The vocabulary of the instance is that of the store.
LEMMA SameWords ==
    /\ Abstract!URLMaps = URLMaps /\ Abstract!EmptyMap = EmptyMap
    /\ \A map : Abstract!Bound(map) = Bound(map)
    /\ \A rec : Abstract!Tombstone(rec) = Tombstone(rec)
    /\ \A map, rows : Abstract!Updated(map, rows) = Updated(map, rows)
    /\ \A map : Abstract!UniqueOriginals(map) <=> UniqueOriginals(map)
BY DEF Abstract!URLMaps, Abstract!URLRecords, URLMaps, URLRecords, Abstract!EmptyMap, EmptyMap,
   Abstract!Bound, Bound, Abstract!Tombstone, Tombstone, Abstract!Updated, Updated,
   Abstract!UniqueOriginals, UniqueOriginals

(***************************************************************************)
(* The table implements TransactionalURLStore: what a call commits is one  *)
(* addition of one user's new rows, or one deletion of rows of one user,   *)
(* and every other step leaves the table alone.                            *)
(***************************************************************************)
THEOREM TableIsTransactional == Spec => RefinesTransactionalURLStore
<1>1. Init => Abstract!Init
  BY SameWords DEF Init, Abstract!Init
<1>2. Inv /\ [Next]_vars => [Abstract!Next]_table
  <2> SUFFICES ASSUME Inv, [Next]_vars, table' # table
               PROVE  Abstract!Next
    OBVIOUS
  <2>1. PICK p \in Procs : StepOf(p)
    BY DEF Next, StepOf, vars
  <2>2. pc[p] = "commit" /\ table' = Updated(table, writes[p])
    BY <2>1, TableStep
  <2>3. LocalsTyped(p) /\ table \in URLMaps /\ writes[p] \in URLMaps
    BY TypeIsLocal DEF Inv, Typed, LocalsTyped
  <2>4. call[p] \in AddCalls \cup DeleteUserURLsCalls /\ call[p].userID \in UserIDs
    BY <2>2, CallFacts DEF Inv, LocalsAreFresh
  <2>5. CASE Adds(call[p])
    <3>1. Inserts(p)
      BY <2>5 DEF Inv
    <3>2. UniqueOriginals(table')
      BY <2>1, UniqueStep
    <3>3. Abstract!Add(writes[p], call[p].userID)
      BY <2>2, <3>1, <3>2, SameWords DEF Abstract!Add, Inserts
    <3> QED
      BY <2>3, <2>4, <3>3, SameWords DEF Abstract!Next
  <2>6. CASE ~Adds(call[p])
    <3>1. \A s \in Bound(writes[p]) : /\ table[s] # Absent /\ table[s].userID = call[p].userID
                                      /\ writes[p][s] = Tombstone(table[s])
      BY <2>6 DEF Inv, Updates
    <3>2. Bound(writes[p]) \in SUBSET Bound(table)
      BY <3>1 DEF Bound
    <3>3. table' = [s \in ShortURLs |-> IF s \in Bound(writes[p]) THEN Tombstone(table[s])
                                                                  ELSE table[s]]
      BY <2>2, <3>1 DEF Updated, Bound
    <3>4. Abstract!Delete(Bound(writes[p]), call[p].userID)
      BY <3>1, <3>3, SameWords DEF Abstract!Delete
    <3> QED
      BY <2>4, <3>2, <3>4, SameWords DEF Abstract!Next
  <2> QED
    BY <2>5, <2>6
<1> QED
  BY <1>1, <1>2, Invariance, PTL DEF Spec, RefinesTransactionalURLStore, Abstract!Spec
=============================================================================
