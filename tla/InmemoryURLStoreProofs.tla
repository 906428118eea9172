----------------------- MODULE InmemoryURLStoreProofs -----------------------
(***************************************************************************)
(* Proofs about InmemoryURLStore, for any number of goroutines, URLs and   *)
(* users and batches of any bounded length.                                *)
(***************************************************************************)
EXTENDS InmemoryURLStore, TLAPS

\* Both ways of writing a record yield a record.
LEMMA Records ==
    /\ \A rec \in URLRecords : Tombstone(rec) \in URLRecords
    /\ \A pair \in URLPairs, u \in UserIDs : NewRecord(pair, u) \in URLRecords
BY DEF URLRecords, URLPairs, Tombstone, NewRecord

\* What each kind of call is made of.
LEMMA CallFacts ==
    /\ NoCall \in Calls
    /\ \A c \in AddURLCalls :
        /\ c \in Calls /\ c # NoCall /\ c.op = "AddURL"
        /\ c.userID \in UserIDs
        /\ DOMAIN c.pairs = {1} /\ c.pairs[1] \in URLPairs
    /\ \A c \in AddURLsCalls :
        /\ c \in Calls /\ c # NoCall /\ c.op = "AddURLs"
        /\ c.userID \in UserIDs
        /\ DOMAIN c.pairs \subseteq 1..MaxBatch
        /\ \A k \in DOMAIN c.pairs : c.pairs[k] \in URLPairs
    /\ \A c \in DeleteUserURLsCalls :
        /\ c \in Calls /\ c # NoCall /\ c.op = "DeleteUserURLs"
        /\ c.userID \in UserIDs
        /\ DOMAIN c.shortURLs \subseteq 1..MaxBatch
        /\ \A k \in DOMAIN c.shortURLs : c.shortURLs[k] \in ShortURLs
    /\ \A c \in GetUserURLsCalls :
        /\ c \in Calls /\ c # NoCall /\ c.op = "GetUserURLs"
        /\ c.userID \in UserIDs
<1>1. NoCall \in Calls
  BY DEF Calls
<1>2. ASSUME NEW c \in AddURLCalls
      PROVE  /\ c \in Calls /\ c # NoCall /\ c.op = "AddURL"
             /\ c.userID \in UserIDs
             /\ DOMAIN c.pairs = {1} /\ c.pairs[1] \in URLPairs
  BY DEF Calls, AddCalls, AddURLCalls, NoCall
<1>3. ASSUME NEW c \in AddURLsCalls
      PROVE  /\ c \in Calls /\ c # NoCall /\ c.op = "AddURLs"
             /\ c.userID \in UserIDs
             /\ DOMAIN c.pairs \subseteq 1..MaxBatch
             /\ \A k \in DOMAIN c.pairs : c.pairs[k] \in URLPairs
  BY MaxBatchIsNat DEF Calls, AddCalls, AddURLsCalls, NoCall, BoundedSeq, SeqOf
<1>4. ASSUME NEW c \in DeleteUserURLsCalls
      PROVE  /\ c \in Calls /\ c # NoCall /\ c.op = "DeleteUserURLs"
             /\ c.userID \in UserIDs
             /\ DOMAIN c.shortURLs \subseteq 1..MaxBatch
             /\ \A k \in DOMAIN c.shortURLs : c.shortURLs[k] \in ShortURLs
  BY MaxBatchIsNat DEF Calls, DeleteUserURLsCalls, NoCall, BoundedSeq, SeqOf
<1>5. ASSUME NEW c \in GetUserURLsCalls
      PROVE  /\ c \in Calls /\ c # NoCall /\ c.op = "GetUserURLs"
             /\ c.userID \in UserIDs
  BY DEF Calls, GetUserURLsCalls, NoCall
<1> QED
  BY <1>1, <1>2, <1>3, <1>4, <1>5

LEMMA InitialTypes == Init => TypeOK
BY MaxBatchIsNat, CallFacts DEF Init, TypeOK, URLMaps, EmptyMap, AddURLCalls

\* Every step keeps the variables in their types.
LEMMA TypePreserved == TypeOK /\ [Next]_vars => TypeOK'
<1> SUFFICES ASSUME TypeOK, [Next]_vars
             PROVE  TypeOK'
  OBVIOUS
<1> USE MaxBatchIsNat, CallFacts, Records DEF TypeOK, Goto
<1>1. ASSUME NEW p \in Procs, BeginAddURL(p)
      PROVE  TypeOK'
  BY <1>1 DEF BeginAddURL, Begin
<1>2. ASSUME NEW p \in Procs, BeginAddURLs(p)
      PROVE  TypeOK'
  BY <1>2 DEF BeginAddURLs, Begin
<1>3. ASSUME NEW p \in Procs, BeginDeleteUserURLs(p)
      PROVE  TypeOK'
  BY <1>3 DEF BeginDeleteUserURLs, Begin
<1>4. ASSUME NEW p \in Procs, BeginGetUserURLs(p)
      PROVE  TypeOK'
  BY <1>4 DEF BeginGetUserURLs, Begin
<1>5. ASSUME NEW p \in Procs, FindHit(p)
      PROVE  TypeOK'
  BY <1>5 DEF FindHit, ShortURLsOf, Bound, URLMaps, URLRecords, URLPairs
<1>6. ASSUME NEW p \in Procs, FindMiss(p)
      PROVE  TypeOK'
  BY <1>6 DEF FindMiss
<1>7. ASSUME NEW p \in Procs, FindEnd(p)
      PROVE  TypeOK'
  BY <1>7 DEF FindEnd
<1>8. ASSUME NEW p \in Procs, Store(p)
      PROVE  TypeOK'
  BY <1>8 DEF Store, URLMaps
<1>9. ASSUME NEW p \in Procs, StoreNext(p)
      PROVE  TypeOK'
  <2>1. /\ call[p] \in AddURLsCalls
        /\ i[p] \in 1..MaxBatch
        /\ call[p].pairs[i[p]] \in URLPairs
    BY <1>9 DEF StoreNext
  <2>2. m' \in URLMaps
    BY <1>9, <2>1 DEF StoreNext, URLMaps
  <2> QED
    BY <1>9, <2>1, <2>2 DEF StoreNext
<1>10. ASSUME NEW p \in Procs, AddURLsEnd(p)
      PROVE  TypeOK'
  BY <1>10 DEF AddURLsEnd
<1>11. ASSUME NEW p \in Procs, LoadSkip(p)
      PROVE  TypeOK'
  BY <1>11 DEF LoadSkip
<1>12. ASSUME NEW p \in Procs, LoadOwn(p)
      PROVE  TypeOK'
  BY <1>12 DEF LoadOwn, Deletes, URLMaps
<1>13. ASSUME NEW p \in Procs, Swap(p)
      PROVE  TypeOK'
  BY <1>13 DEF Swap, URLMaps
<1>14. ASSUME NEW p \in Procs, DeleteEnd(p)
      PROVE  TypeOK'
  BY <1>14 DEF DeleteEnd
<1>15. ASSUME NEW p \in Procs, ListVisit(p)
      PROVE  TypeOK'
  BY <1>15 DEF ListVisit, MayVisit, ListedPairs, Bound, URLMaps, URLRecords, URLPairs
<1>16. ASSUME NEW p \in Procs, ListEnd(p)
      PROVE  TypeOK'
  BY <1>16 DEF ListEnd
<1>17. ASSUME NEW p \in Procs, Return(p)
      PROVE  TypeOK'
  BY <1>17 DEF Return, URLMaps, EmptyMap
<1>18. CASE UNCHANGED vars
  BY <1>18 DEF vars
<1> QED
  BY <1>1, <1>2, <1>3, <1>4, <1>5, <1>6, <1>7, <1>8, <1>9, <1>10, <1>11, <1>12, <1>13, <1>14, <1>15, <1>16, <1>17, <1>18 DEF Next, Begins, AddSteps, DeleteSteps, ListSteps

(***************************************************************************)
(* The variables keep their types.                                         *)
(***************************************************************************)
THEOREM TypeCorrect == Spec => []TypeOK
BY InitialTypes, TypePreserved, PTL DEF Spec

-----------------------------------------------------------------------------
(***************************************************************************)
(* The invariant behind the refinement.  The two non-atomic writes of the  *)
(* store are harmless because of what stays true while they are pending.   *)
(***************************************************************************)
StillToStore(p) ==
    IF pc[p] \in {"find", "store", "batch"}
    THEN {k \in DOMAIN call[p].pairs : i[p] <= k}
    ELSE {}

\* A short URL that is still to be stored is not in the map.
PendingIDsAreFree ==
    \A p \in Procs : \A k \in StillToStore(p) : m[call[p].pairs[k].ShortURL] = Absent

\* The pairs in flight all have short URLs of their own.
IDsAreDistinct ==
    /\ \A p, q \in Procs : p # q => IDsOf(call[p]) \cap IDsOf(call[q]) = {}
    /\ \A p \in Procs : Adds(call[p]) => PairsDiffer(call[p])

\* AddURL has one pair, and its index never moves.
AddURLIndex == \A p \in Procs : pc[p] \in {"idle", "find", "store"} => i[p] = 1

\* The record to swap back is the one in the map, but for its deletion.
LoadedIsCurrent ==
    \A p \in Procs : pc[p] = "swap" =>
        m[call[p].shortURLs[i[p]]] \in {loaded[p], Tombstone(loaded[p])}

Inv ==
    /\ TypeOK
    /\ PendingIDsAreFree
    /\ IDsAreDistinct
    /\ AddURLIndex
    /\ LoadedIsCurrent

LEMMA Tombstones ==
    ASSUME NEW rec \in URLRecords
    PROVE  /\ Tombstone(Tombstone(rec)) = Tombstone(rec)
           /\ Tombstone(rec) # Absent /\ rec # Absent
BY Records, AbsentIsNoRecord DEF Tombstone, URLRecords

\* The instance speaks of the same records.
LEMMA SameVocabulary ==
    /\ Abstract!URLRecords = URLRecords
    /\ Abstract!EmptyMap = EmptyMap
    /\ \A rec : Abstract!Tombstone(rec) = Tombstone(rec)
    /\ \A map : Abstract!Bound(map) = Bound(map)
BY DEF Abstract!URLRecords, Abstract!EmptyMap, Abstract!Tombstone, Abstract!Bound,
       URLRecords, EmptyMap, Tombstone, Bound

\* The steps of one goroutine.
StepOf(p) == Begins(p) \/ AddSteps(p) \/ DeleteSteps(p) \/ ListSteps(p) \/ Return(p)

LEMMA OnlyTheseWrite ==
    ASSUME NEW p \in Procs, StepOf(p)
    PROVE  UNCHANGED m \/ Store(p) \/ StoreNext(p) \/ Swap(p)
BY DEF StepOf, Begins, AddSteps, DeleteSteps, ListSteps, BeginAddURL, BeginAddURLs,
       BeginDeleteUserURLs, BeginGetUserURLs, Begin, FindHit, FindMiss, FindEnd, AddURLsEnd,
       LoadSkip, LoadOwn, DeleteEnd, ListVisit, ListEnd, Return

\* A step on the map is a step of URLStore, or changes nothing.
LEMMA StepRefines == Inv /\ [Next]_vars => [Abstract!Next]_m
<1> SUFFICES ASSUME Inv, [Next]_vars
             PROVE  [Abstract!Next]_m
  OBVIOUS
<1> USE SameVocabulary DEF Inv, TypeOK, Abstract!Next, Abstract!Add, Abstract!Delete
<1>1. ASSUME NEW p \in Procs, NEW k \in StillToStore(p),
             m' = [m EXCEPT ![call[p].pairs[k].ShortURL] =
                        NewRecord(call[p].pairs[k], call[p].userID)]
      PROVE  Abstract!Next
  <2> DEFINE pair == call[p].pairs[k]
             rec == NewRecord(pair, call[p].userID)
  <2>1. pair \in URLPairs /\ call[p].userID \in UserIDs
    BY <1>1, CallFacts DEF StillToStore
  <2>2. rec \in URLRecords /\ ~rec.isDeleted
    BY <2>1, Records DEF NewRecord
  <2>3. pair.ShortURL \in ShortURLs /\ m[pair.ShortURL] = Absent
    BY <2>1, <1>1 DEF PendingIDsAreFree, URLPairs
  <2> QED
    BY <1>1, <2>2, <2>3
<1>2. ASSUME NEW p \in Procs, Store(p)
      PROVE  Abstract!Next
  <2>1. 1 \in StillToStore(p)
    BY <1>2, CallFacts DEF Store, StillToStore, AddURLIndex
  <2> QED
    BY <1>1, <1>2, <2>1 DEF Store
<1>3. ASSUME NEW p \in Procs, StoreNext(p)
      PROVE  Abstract!Next
  <2>1. i[p] \in StillToStore(p)
    BY <1>3, MaxBatchIsNat DEF StoreNext, StillToStore
  <2> QED
    BY <1>1, <1>3, <2>1 DEF StoreNext
<1>4. ASSUME NEW p \in Procs, Swap(p)
      PROVE  Abstract!Next
  <2> DEFINE s == call[p].shortURLs[i[p]]
  <2>1. /\ s \in ShortURLs
        /\ loaded[p] \in URLRecords
        /\ m[s] \in {loaded[p], Tombstone(loaded[p])}
    BY <1>4, CallFacts DEF Swap, LoadedIsCurrent
  <2>2. m[s] # Absent /\ Tombstone(m[s]) = Tombstone(loaded[p])
    BY <2>1, Tombstones
  <2>3. m' = [m EXCEPT ![s] = Tombstone(m[s])]
    BY <1>4, <2>2 DEF Swap
  <2> QED
    BY <2>1, <2>2, <2>3
<1> QED
  BY <1>2, <1>3, <1>4, OnlyTheseWrite DEF Next, StepOf, vars

\* What a step of URLStore leaves of the bindings there are.
LEMMA BindingsSurvive ==
    ASSUME m \in URLMaps, [Abstract!Next]_m, NEW s \in Bound(m)
    PROVE  m'[s] \in {m[s], Tombstone(m[s])}
BY SameVocabulary DEF Abstract!Next, Abstract!Add, Abstract!Delete, Bound, URLMaps
-----------------------------------------------------------------------------
\* A step leaves the local variables of the other goroutines alone.
LEMMA OthersAreUntouched ==
    ASSUME TypeOK, NEW p \in Procs, NEW q \in Procs, p # q, StepOf(p)
    PROVE  /\ pc'[q] = pc[q] /\ call'[q] = call[q] /\ i'[q] = i[q]
           /\ loaded'[q] = loaded[q] /\ visited'[q] = visited[q]
           /\ reply'[q] = reply[q] /\ before'[q] = before[q]
<1> USE DEF TypeOK, Goto
<1>1. CASE Begins(p)
  BY <1>1 DEF Begins, BeginAddURL, BeginAddURLs, BeginDeleteUserURLs, BeginGetUserURLs, Begin
<1>2. CASE AddSteps(p)
  BY <1>2 DEF AddSteps, FindHit, FindMiss, FindEnd, Store, StoreNext, AddURLsEnd
<1>3. CASE DeleteSteps(p)
  BY <1>3 DEF DeleteSteps, LoadSkip, LoadOwn, Swap, DeleteEnd
<1>4. CASE ListSteps(p)
  BY <1>4 DEF ListSteps, ListVisit, ListEnd
<1>5. CASE Return(p)
  BY <1>5 DEF Return
<1> QED
  BY <1>1, <1>2, <1>3, <1>4, <1>5 DEF StepOf

\* What a goroutine has still to store shrinks, except when a call begins.
LEMMA StillToStoreShrinks ==
    ASSUME Inv, NEW p \in Procs, StepOf(p), ~Begins(p)
    PROVE  \A q \in Procs : /\ StillToStore(q)' \subseteq StillToStore(q)
                            /\ call'[q] = call[q] \/ call'[q] = NoCall
                            /\ StillToStore(q)' # {} => call'[q] = call[q]
<1> SUFFICES ASSUME NEW q \in Procs
             PROVE  /\ StillToStore(q)' \subseteq StillToStore(q)
                    /\ call'[q] = call[q] \/ call'[q] = NoCall
                    /\ StillToStore(q)' # {} => call'[q] = call[q]
  OBVIOUS
<1> USE MaxBatchIsNat DEF Inv, TypeOK, Goto, StillToStore
<1>1. CASE q # p
  BY <1>1, OthersAreUntouched
<1>2. CASE q = p /\ AddSteps(p)
  <2>1. ASSUME FindHit(p) \/ FindMiss(p) \/ FindEnd(p) \/ Store(p) \/ AddURLsEnd(p)
        PROVE  /\ call'[p] = call[p] /\ i'[p] = i[p]
               /\ pc'[p] \in {"find", "store", "batch"} => pc[p] \in {"find", "store", "batch"}
    BY <2>1 DEF FindHit, FindMiss, FindEnd, Store, AddURLsEnd
  <2>2. ASSUME StoreNext(p)
        PROVE  /\ call'[p] = call[p] /\ i'[p] = i[p] + 1 /\ pc[p] = "batch"
               /\ \A k \in DOMAIN call[p].pairs : i[p] + 1 <= k => i[p] <= k
    BY <2>2, CallFacts DEF StoreNext
  <2> QED
    BY <1>2, <2>1, <2>2 DEF AddSteps
<1>3. CASE q = p /\ (DeleteSteps(p) \/ ListSteps(p))
  BY <1>3 DEF DeleteSteps, LoadSkip, LoadOwn, Swap, DeleteEnd, ListSteps, ListVisit, ListEnd
<1>4. CASE q = p /\ Return(p)
  BY <1>4 DEF Return
<1> QED
  BY <1>1, <1>2, <1>3, <1>4 DEF StepOf

\* The record a goroutine is about to swap back stays current.
LEMMA LoadedStaysCurrent ==
    ASSUME Inv, NEW p \in Procs, StepOf(p), [Next]_vars
    PROVE  LoadedIsCurrent'
<1> SUFFICES ASSUME NEW q \in Procs, pc'[q] = "swap"
             PROVE  m'[call'[q].shortURLs[i'[q]]] \in {loaded'[q], Tombstone(loaded'[q])}
  BY DEF LoadedIsCurrent
<1>1. CASE pc[q] = "swap" /\ call'[q] = call[q] /\ i'[q] = i[q] /\ loaded'[q] = loaded[q]
  <2> DEFINE s == call[q].shortURLs[i[q]]
  <2>1. /\ s \in ShortURLs /\ loaded[q] \in URLRecords
        /\ m[s] \in {loaded[q], Tombstone(loaded[q])}
    BY <1>1, CallFacts DEF Inv, TypeOK, LoadedIsCurrent
  <2>2. s \in Bound(m)
    BY <2>1, Tombstones DEF Bound
  <2>3. m'[s] \in {m[s], Tombstone(m[s])}
    BY <2>2, StepRefines, BindingsSurvive DEF Inv, TypeOK
  <2> QED
    BY <1>1, <2>1, <2>3, Tombstones
<1>2. CASE q # p
  BY <1>1, <1>2, OthersAreUntouched DEF Inv
<1>3. CASE q = p
  <2>1. LoadOwn(p)
    BY <1>3 DEF Inv, TypeOK, Goto, StepOf, Begins, BeginAddURL, BeginAddURLs, BeginDeleteUserURLs,
         BeginGetUserURLs, Begin, AddSteps, FindHit, FindMiss, FindEnd, Store, StoreNext,
         AddURLsEnd, DeleteSteps, LoadSkip, Swap, DeleteEnd, ListSteps, ListVisit, ListEnd, Return
  <2> QED
    BY <1>3, <2>1 DEF LoadOwn, Goto, Inv, TypeOK
<1> QED
  BY <1>2, <1>3

\* Under distinct short URLs the invariant is inductive.
LEMMA InvPreserved ==
    ASSUME ~IDsCollide, Inv, [Next]_vars
    PROVE  Inv'
<1>0. ~IDsCollide
  OBVIOUS
<1>1. TypeOK'
  BY TypePreserved DEF Inv
<1>2. CASE UNCHANGED vars
  <2>1. PendingIDsAreFree'
    BY <1>2 DEF vars, Inv, PendingIDsAreFree, StillToStore
  <2>2. IDsAreDistinct'
    BY <1>2 DEF vars, Inv, IDsAreDistinct
  <2>3. AddURLIndex' /\ LoadedIsCurrent'
    BY <1>2 DEF vars, Inv, AddURLIndex, LoadedIsCurrent
  <2> QED
    BY <1>1, <2>1, <2>2, <2>3 DEF Inv
<1>3. ASSUME NEW p \in Procs, StepOf(p)
      PROVE  Inv'
  <2>1. LoadedIsCurrent'
    BY <1>3, LoadedStaysCurrent
  <2>2. ASSUME Begins(p)
        PROVE  PendingIDsAreFree' /\ IDsAreDistinct' /\ AddURLIndex'
    <3>1. PICK c \in Calls : /\ pc[p] = "idle"
                             /\ call' = [call EXCEPT ![p] = c]
                             /\ UNCHANGED <<m, i>>
                             /\ pc'[p] \in {"find", "store", "batch"} => Adds(c)
                             /\ Adds(c) => FreshIDs(c)
                             /\ pc' = [pc EXCEPT ![p] = pc'[p]]
      BY <2>2, CallFacts DEF Begins, BeginAddURL, BeginAddURLs, BeginDeleteUserURLs,
           BeginGetUserURLs, Begin, Adds, Inv, TypeOK
    <3>2. AddURLIndex'
      BY <3>1 DEF Inv, TypeOK, AddURLIndex
    <3>3. call'[p] = c /\ \A q \in Procs \ {p} : call'[q] = call[q] /\ pc'[q] = pc[q]
      BY <3>1 DEF Inv, TypeOK
    <3>4. IDsAreDistinct'
      <4>1. ASSUME NEW q \in Procs
            PROVE  /\ IDsOf(c) \cap IDsOf(call[q]) = {}
                   /\ Adds(c) => PairsDiffer(c)
        BY <1>0, <3>1 DEF FreshIDs, IDsOf
      <4> QED
        BY <3>3, <4>1 DEF Inv, IDsAreDistinct
    <3>5. PendingIDsAreFree'
      <4> SUFFICES ASSUME NEW q \in Procs, NEW k \in StillToStore(q)'
                   PROVE  m'[call'[q].pairs[k].ShortURL] = Absent
        BY DEF PendingIDsAreFree
      <4>1. CASE q # p
        BY <3>1, <3>3, <4>1 DEF Inv, PendingIDsAreFree, StillToStore
      <4>2. CASE q = p
        <5>1. Adds(c) /\ k \in DOMAIN c.pairs
          BY <3>1, <3>3, <4>2 DEF StillToStore
        <5>2. c.pairs[k].ShortURL \in IDsOf(c) /\ c.pairs[k].ShortURL \in ShortURLs
          BY <5>1, CallFacts DEF IDsOf, URLPairs, Adds, Calls, AddCalls, NoCall
        <5> QED
          BY <1>0, <3>1, <3>3, <4>2, <5>1, <5>2 DEF FreshIDs, Bound
      <4> QED
        BY <4>1, <4>2
    <3> QED
      BY <3>2, <3>4, <3>5
  <2>3. ASSUME ~Begins(p)
        PROVE  PendingIDsAreFree' /\ IDsAreDistinct' /\ AddURLIndex'
    <3>1. IDsAreDistinct'
      <4>1. ~Adds(NoCall) /\ IDsOf(NoCall) = {}
        BY DEF NoCall, Adds, IDsOf
      <4>2. \A q \in Procs : call'[q] = call[q] \/ call'[q] = NoCall
        BY <1>3, <2>3, StillToStoreShrinks
      <4> QED
        BY <4>1, <4>2 DEF Inv, IDsAreDistinct
    <3>2. AddURLIndex'
      <4> SUFFICES ASSUME NEW q \in Procs, pc'[q] \in {"idle", "find", "store"}
                   PROVE  i'[q] = 1
        BY DEF AddURLIndex
      <4>1. CASE q # p
        BY <1>3, <4>1, OthersAreUntouched DEF Inv, AddURLIndex
      <4>2. CASE q = p
        BY <1>3, <2>3, <4>2 DEF Inv, TypeOK, AddURLIndex, Goto, StepOf, AddSteps, FindHit, FindMiss,
           FindEnd, Store, StoreNext, AddURLsEnd, DeleteSteps, LoadSkip, LoadOwn, Swap,
           DeleteEnd, ListSteps, ListVisit, ListEnd, Return
      <4> QED
        BY <4>1, <4>2
    <3>3. PendingIDsAreFree'
      <4> SUFFICES ASSUME NEW q \in Procs, NEW k \in StillToStore(q)'
                   PROVE  m'[call'[q].pairs[k].ShortURL] = Absent
        BY DEF PendingIDsAreFree
      <4> DEFINE s == call[q].pairs[k].ShortURL
      <4>1. k \in StillToStore(q) /\ call'[q] = call[q]
        BY <1>3, <2>3, StillToStoreShrinks
      <4>2. m[s] = Absent
        BY <4>1 DEF Inv, PendingIDsAreFree
      <4>3. m'[s] = Absent
        <5>1. s \in IDsOf(call[q]) /\ Adds(call[q])
          BY <4>1, CallFacts DEF StillToStore, IDsOf, Adds, Inv, TypeOK
        <5>2. ASSUME NEW j \in StillToStore(p), q # p,
                     m' = [m EXCEPT ![call[p].pairs[j].ShortURL] =
                                NewRecord(call[p].pairs[j], call[p].userID)]
              PROVE  m'[s] = m[s]
          <6>1. call[p].pairs[j].ShortURL \in IDsOf(call[p])
            BY <5>2, CallFacts DEF StillToStore, IDsOf, Adds, Inv, TypeOK
          <6> QED
            BY <5>1, <5>2, <6>1 DEF Inv, TypeOK, IDsAreDistinct, URLMaps
        <5>3. CASE Store(p)
          <6>1. q # p
            BY <5>3 DEF Store, Goto, StillToStore, Inv, TypeOK
          <6>2. 1 \in StillToStore(p)
            BY <5>3, CallFacts DEF Store, StillToStore, Inv, TypeOK, AddURLIndex
          <6> QED
            BY <4>2, <5>2, <5>3, <6>1, <6>2 DEF Store
        <5>4. CASE StoreNext(p)
          <6>1. i[p] \in StillToStore(p)
            BY <5>4, MaxBatchIsNat DEF StoreNext, StillToStore, Inv, TypeOK
          <6>2. CASE q # p
            BY <4>2, <5>2, <5>4, <6>1, <6>2 DEF StoreNext
          <6>3. CASE q = p
            <7>1. k # i[p]
              BY <5>4, <6>3, MaxBatchIsNat DEF StoreNext, Goto, StillToStore, Inv, TypeOK
            <7>2. call[p].pairs[i[p]].ShortURL # s
              BY <4>1, <5>1, <5>4, <6>3, <7>1
                 DEF StoreNext, StillToStore, Inv, IDsAreDistinct, PairsDiffer
            <7> QED
              BY <4>2, <5>4, <7>2 DEF StoreNext, Inv, TypeOK, URLMaps
          <6> QED
            BY <6>2, <6>3
        <5>5. CASE Swap(p)
          <6>1. m[call[p].shortURLs[i[p]]] # Absent
            BY <5>5, Tombstones DEF Swap, Inv, TypeOK, LoadedIsCurrent
          <6> QED
            BY <4>2, <5>5, <6>1 DEF Swap, Inv, TypeOK, URLMaps
        <5> QED
          BY <1>3, <4>2, <5>3, <5>4, <5>5, OnlyTheseWrite
      <4> QED
        BY <4>1, <4>2, <4>3
    <3> QED
      BY <3>1, <3>2, <3>3
  <2> QED
    BY <1>1, <2>1, <2>2, <2>3 DEF Inv
<1> QED
  BY <1>2, <1>3 DEF Next, StepOf

LEMMA InitialInv == Init => Inv
<1> SUFFICES ASSUME Init
             PROVE  Inv
  OBVIOUS
<1>1. TypeOK
  BY InitialTypes
<1>2. ~Adds(NoCall) /\ IDsOf(NoCall) = {}
  BY DEF NoCall, Adds, IDsOf
<1> QED
  BY <1>1, <1>2 DEF Init, Inv, PendingIDsAreFree, StillToStore, IDsAreDistinct,
                    AddURLIndex, LoadedIsCurrent

(***************************************************************************)
(* If no short URL is issued twice, the store implements URLStore: a       *)
(* binding is made once and afterwards only ever becomes deleted.          *)
(***************************************************************************)
THEOREM Refinement == ASSUME ~IDsCollide PROVE Spec => RefinesURLStore
<1>1. Inv /\ [Next]_vars => Inv'
  BY InvPreserved
<1>2. Init => Abstract!Init
  BY SameVocabulary DEF Init, Abstract!Init
<1>3. Inv /\ [Next]_vars => [Abstract!Next]_m
  BY StepRefines
<1> QED
  BY InitialInv, <1>1, <1>2, <1>3, PTL DEF Spec, RefinesURLStore, Abstract!Spec

(***************************************************************************)
(* The same, said of single steps: no step unbinds a short URL, gives it   *)
(* to another URL or user, or revives it.                                  *)
(***************************************************************************)
THEOREM Permanence == ASSUME ~IDsCollide PROVE Spec => BindingsArePermanent
<1>1. Inv /\ [Next]_vars => [\A s \in Bound(m) : m'[s] \in {m[s], Tombstone(m[s])}]_m
  BY StepRefines, BindingsSurvive DEF Inv, TypeOK
<1>2. Inv /\ [Next]_vars => [\A s \in Abstract!Bound(m) : m'[s] \in {m[s], Abstract!Tombstone(m[s])}]_m
  BY <1>1, SameVocabulary
<1> QED
  BY <1>2, InitialInv, InvPreserved, PTL DEF Spec, BindingsArePermanent, Abstract!BindingsArePermanent

-----------------------------------------------------------------------------
(***************************************************************************)
(* The search of AddURL.  What was bound when the call began stays bound   *)
(* to the same original URL, so a key the Range has passed without a hit   *)
(* was no answer then either, and a Range that has passed them all has     *)
(* proved that there was none.                                             *)
(***************************************************************************)
BeforeSurvives ==
    \A p \in Procs : pc[p] # "idle" =>
        \A s \in Bound(before[p]) : m[s] \in {before[p][s], Tombstone(before[p][s])}

Passed(p) ==
    LET answers == ShortURLsOf(before[p], call[p].pairs[1].OriginalURL) IN
    /\ pc[p] = "find" => visited[p] \cap answers = {}
    /\ pc[p] = "store" => answers = {}

LocalsAreFresh ==
    \A p \in Procs :
        /\ pc[p] \in {"idle", "find", "store"} => reply[p] = {}
        /\ pc[p] \notin {"find", "list"} => visited[p] = {}

SearchInv ==
    /\ Inv
    /\ BeforeSurvives
    /\ \A p \in Procs : Passed(p)
    /\ LocalsAreFresh
    /\ AddURLReportsDuplicates

LEMMA BoundKeepsOriginal ==
    ASSUME NEW f \in URLMaps, NEW g \in URLMaps, NEW s \in Bound(f),
           g[s] \in {f[s], Tombstone(f[s])}
    PROVE  s \in Bound(g) /\ g[s].originalURL = f[s].originalURL
           /\ g[s].userID = f[s].userID
BY Tombstones DEF Bound, URLMaps, Tombstone, URLRecords

LEMMA BeforeStillSurvives ==
    ASSUME Inv, BeforeSurvives, NEW p \in Procs, StepOf(p), [Next]_vars
    PROVE  BeforeSurvives'
<1> SUFFICES ASSUME NEW q \in Procs, pc'[q] # "idle", NEW s \in Bound(before'[q])
             PROVE  m'[s] \in {before'[q][s], Tombstone(before'[q][s])}
  BY DEF BeforeSurvives, Bound
<1>1. CASE pc[q] # "idle" /\ before'[q] = before[q]
  <2>1. m[s] \in {before[q][s], Tombstone(before[q][s])}
    BY <1>1 DEF BeforeSurvives
  <2>2. s \in ShortURLs /\ before[q][s] \in URLRecords
    BY <1>1 DEF Inv, TypeOK, Bound, URLMaps
  <2>3. s \in Bound(m)
    BY <2>1, <2>2, Tombstones DEF Bound
  <2>4. m'[s] \in {m[s], Tombstone(m[s])}
    BY <2>3, StepRefines, BindingsSurvive DEF Inv, TypeOK
  <2> QED
    BY <1>1, <2>1, <2>2, <2>4, Tombstones
<1>2. CASE q # p
  BY <1>1, <1>2, OthersAreUntouched DEF Inv
<1>3. CASE q = p /\ ~Begins(p)
  BY <1>1, <1>3 DEF Inv, TypeOK, Goto, StepOf, AddSteps, FindHit, FindMiss, FindEnd, Store,
     StoreNext, AddURLsEnd, DeleteSteps, LoadSkip, LoadOwn, Swap, DeleteEnd, ListSteps,
     ListVisit, ListEnd, Return
<1>4. CASE q = p /\ Begins(p)
  BY <1>4 DEF Inv, TypeOK, Begins, BeginAddURL, BeginAddURLs, BeginDeleteUserURLs,
     BeginGetUserURLs, Begin
<1> QED
  BY <1>2, <1>3, <1>4

LEMMA OriginalSurvives ==
    ASSUME Inv, [Next]_vars
    PROVE  \A original, s :
             s \in ShortURLsOf(m, original) => s \in ShortURLsOf(m, original)'
<1> SUFFICES ASSUME NEW original, NEW s \in ShortURLsOf(m, original)
             PROVE  s \in ShortURLsOf(m, original)'
  OBVIOUS
<1>1. m \in URLMaps /\ m' \in URLMaps
  BY TypePreserved DEF Inv, TypeOK
<1>2. s \in Bound(m) /\ m[s].originalURL = original
  BY DEF ShortURLsOf
<1>3. m'[s] \in {m[s], Tombstone(m[s])}
  BY <1>1, <1>2, StepRefines, BindingsSurvive
<1> QED
  BY <1>1, <1>2, <1>3, BoundKeepsOriginal DEF ShortURLsOf, Bound

LEMMA SearchPreserved ==
    ASSUME ~IDsCollide, SearchInv, [Next]_vars
    PROVE  SearchInv'
<1>1. Inv'
  BY InvPreserved DEF SearchInv
<1>2. CASE UNCHANGED vars
  <2>1. BeforeSurvives' /\ LocalsAreFresh'
    BY <1>2 DEF vars, SearchInv, BeforeSurvives, LocalsAreFresh, Bound
  <2>2. \A p \in Procs : Passed(p)'
    BY <1>2 DEF vars, SearchInv, Passed, ShortURLsOf, Bound
  <2>3. AddURLReportsDuplicates'
    BY <1>2 DEF vars, SearchInv, AddURLReportsDuplicates, AnswerIsRight, Answered, ShortURLsOf, Bound
  <2> QED
    BY <1>1, <2>1, <2>2, <2>3 DEF SearchInv
<1>3. ASSUME NEW p \in Procs, StepOf(p)
      PROVE  SearchInv'
  <2>1. BeforeSurvives'
    BY <1>3, BeforeStillSurvives DEF SearchInv
  <2>2. LocalsAreFresh'
    <3> SUFFICES ASSUME NEW q \in Procs
                 PROVE  /\ pc'[q] \in {"idle", "find", "store"} => reply'[q] = {}
                        /\ pc'[q] \notin {"find", "list"} => visited'[q] = {}
      BY DEF LocalsAreFresh
    <3> USE DEF SearchInv, Inv, LocalsAreFresh, TypeOK, Goto
    <3>1. CASE q # p
      BY <1>3, <3>1, OthersAreUntouched
    <3>2. CASE q = p /\ (Begins(p) \/ Return(p))
      BY <3>2 DEF Begins, BeginAddURL, BeginAddURLs, BeginDeleteUserURLs, BeginGetUserURLs,
         Begin, Return
    <3>3. CASE q = p /\ AddSteps(p)
      BY <3>3 DEF AddSteps, FindHit, FindMiss, FindEnd, Store, StoreNext, AddURLsEnd
    <3>4. CASE q = p /\ (DeleteSteps(p) \/ ListSteps(p))
      BY <3>4 DEF DeleteSteps, LoadSkip, LoadOwn, Swap, DeleteEnd, ListSteps, ListVisit, ListEnd
    <3> QED
      BY <1>3, <3>1, <3>2, <3>3, <3>4 DEF StepOf
  <2>3. ASSUME NEW q \in Procs
        PROVE  Passed(q)'
    <3> DEFINE answers == ShortURLsOf(before[p], call[p].pairs[1].OriginalURL)
    <3> USE DEF SearchInv, Inv, TypeOK, Goto
    <3>1. CASE q # p
      BY <1>3, <3>1, OthersAreUntouched DEF Passed, ShortURLsOf, Bound
    <3>2. CASE q = p /\ Begins(p)
      <4>1. visited'[p] = {} /\ pc'[p] # "store"
        BY <3>2 DEF Begins, BeginAddURL, BeginAddURLs, BeginDeleteUserURLs, BeginGetUserURLs,
           Begin, LocalsAreFresh
      <4> QED
        BY <3>2, <4>1 DEF Passed
    <3>3. CASE q = p /\ FindMiss(p)
      <4>1. PICK s \in ShortURLs \ ShortURLsOf(m, call[p].pairs[1].OriginalURL) :
                /\ MayVisit(p, s)
                /\ visited' = [visited EXCEPT ![p] = @ \cup {s}]
        BY <3>3 DEF FindMiss
      <4>2. s \notin answers
        <5> SUFFICES ASSUME s \in answers
                     PROVE  FALSE
          OBVIOUS
        <5>1. s \in Bound(before[p]) /\ before[p][s].originalURL = call[p].pairs[1].OriginalURL
          BY DEF ShortURLsOf
        <5>2. m[s] \in {before[p][s], Tombstone(before[p][s])}
          BY <3>3, <5>1 DEF FindMiss, BeforeSurvives
        <5>3. s \in Bound(m) /\ m[s].originalURL = before[p][s].originalURL
          BY <5>1, <5>2, BoundKeepsOriginal
        <5> QED
          BY <4>1, <5>1, <5>3 DEF ShortURLsOf
      <4>3. visited[p] \cap answers = {}
        BY <3>3 DEF FindMiss, Passed
      <4>4. pc'[p] = "find" /\ visited'[p] = visited[p] \cup {s}
            /\ call' = call /\ before' = before
        BY <3>3, <4>1 DEF FindMiss
      <4> QED
        BY <3>3, <4>2, <4>3, <4>4 DEF Passed, ShortURLsOf, Bound
    <3>4. CASE q = p /\ FindEnd(p)
      <4>1. answers = {}
        BY <3>4 DEF FindEnd, RangeIsOver, Passed, ShortURLsOf
      <4> QED
        BY <3>4, <4>1 DEF FindEnd, Passed, ShortURLsOf, Bound
    <3>5. CASE q = p /\ ~(Begins(p) \/ FindMiss(p) \/ FindEnd(p))
      <4>1. pc'[p] \notin {"find", "store"}
        BY <1>3, <3>5 DEF StepOf, AddSteps, FindHit, Store, StoreNext, AddURLsEnd, DeleteSteps,
           LoadSkip, LoadOwn, Swap, DeleteEnd, ListSteps, ListVisit, ListEnd, Return
      <4> QED
        BY <3>5, <4>1 DEF Passed
    <3> QED
      BY <3>1, <3>2, <3>3, <3>4, <3>5
  <2>4. AddURLReportsDuplicates'
    <3> SUFFICES ASSUME NEW q \in Procs, Answered(q, "AddURL")'
                 PROVE  AnswerIsRight(q)'
      BY DEF AddURLReportsDuplicates, AnswerIsRight
    <3> USE DEF SearchInv, Inv, TypeOK, Goto, Answered
    <3>1. CASE Answered(q, "AddURL") /\ call'[q] = call[q] /\ reply'[q] = reply[q]
               /\ before'[q] = before[q]
      <4>1. AnswerIsRight(q)
        BY <3>1 DEF AddURLReportsDuplicates, AnswerIsRight
      <4>2. \A original, s : s \in ShortURLsOf(m, original) => s \in ShortURLsOf(m, original)'
        BY OriginalSurvives
      <4> QED
        BY <3>1, <4>1, <4>2 DEF AnswerIsRight, ShortURLsOf, Bound
    <3>2. CASE q # p
      BY <1>3, <3>1, <3>2, OthersAreUntouched
    <3>3. CASE q = p /\ FindHit(p)
      <4>1. PICK s \in ShortURLsOf(m, call[p].pairs[1].OriginalURL) :
                reply' = [reply EXCEPT ![p] =
                            {[ShortURL |-> s, OriginalURL |-> m[s].originalURL]}]
        BY <3>3 DEF FindHit
      <4>2. reply'[p] = {[ShortURL |-> s, OriginalURL |-> m[s].originalURL]}
        BY <4>1
      <4>3. m' = m /\ call' = call
        BY <3>3 DEF FindHit
      <4>4. s \in ShortURLsOf(m, call[p].pairs[1].OriginalURL)'
        BY <4>1, <4>3 DEF ShortURLsOf, Bound
      <4>5. reply'[p] # {} /\ \A r \in reply'[p] : r.ShortURL = s
        BY <4>2
      <4> QED
        BY <3>3, <4>3, <4>4, <4>5 DEF AnswerIsRight
    <3>4. CASE q = p /\ Store(p)
      <4>1. reply[p] = {} /\ ShortURLsOf(before[p], call[p].pairs[1].OriginalURL) = {}
        BY <3>4 DEF Store, LocalsAreFresh, Passed
      <4>2. call[p].pairs[1] \in URLPairs /\ call[p].userID \in UserIDs
        BY <3>4, CallFacts DEF Store
      <4>3. m'[call[p].pairs[1].ShortURL] = NewRecord(call[p].pairs[1], call[p].userID)
        BY <3>4, <4>2 DEF Store, URLMaps, URLPairs
      <4>4. call[p].pairs[1].ShortURL \in ShortURLsOf(m, call[p].pairs[1].OriginalURL)'
        BY <3>4, <4>2, <4>3, Records, Tombstones DEF Store, ShortURLsOf, Bound, NewRecord, URLPairs
      <4> QED
        BY <3>4, <4>1, <4>4 DEF Store, AnswerIsRight, ShortURLsOf, Bound
    <3>5. CASE q = p /\ ~(FindHit(p) \/ Store(p))
      <4>1. CASE Begins(p)
        BY <3>5, <4>1 DEF Begins, BeginAddURL, BeginAddURLs, BeginDeleteUserURLs,
           BeginGetUserURLs, Begin
      <4>2. CASE AddSteps(p)
        <5>1. pc'[p] # "done" \/ AddURLsEnd(p)
          BY <3>5, <4>2 DEF AddSteps, FindMiss, FindEnd, StoreNext
        <5> QED
          BY <3>5, <5>1, CallFacts DEF AddURLsEnd
      <4>3. CASE DeleteSteps(p)
        BY <3>5, <4>3, CallFacts DEF DeleteSteps, LoadSkip, LoadOwn, Swap, DeleteEnd
      <4>4. CASE ListSteps(p)
        BY <3>5, <4>4, CallFacts DEF ListSteps, ListVisit, ListEnd
      <4>5. CASE Return(p)
        BY <3>5, <4>5 DEF Return
      <4> QED
        BY <1>3, <4>1, <4>2, <4>3, <4>4, <4>5 DEF StepOf
    <3> QED
      BY <3>2, <3>3, <3>4, <3>5
  <2> QED
    BY <1>1, <2>1, <2>2, <2>3, <2>4 DEF SearchInv
<1> QED
  BY <1>2, <1>3 DEF Next, StepOf

LEMMA InitialSearchInv == Init => SearchInv
BY InitialInv DEF Init, SearchInv, BeforeSurvives, Passed, LocalsAreFresh,
                  AddURLReportsDuplicates, Answered

(***************************************************************************)
(* If no short URL is issued twice, AddURL reports every original URL that *)
(* was there when it was called, and names a short URL that stands for it. *)
(***************************************************************************)
THEOREM DuplicatesReported == ASSUME ~IDsCollide PROVE Spec => []AddURLReportsDuplicates
<1>1. Init => SearchInv
  BY InitialSearchInv
<1>2. SearchInv /\ [Next]_vars => SearchInv'
  BY SearchPreserved
<1>3. SearchInv => AddURLReportsDuplicates
  BY DEF SearchInv
<1> QED
  BY <1>1, <1>2, <1>3, PTL DEF Spec

-----------------------------------------------------------------------------
(***************************************************************************)
(* What the other methods have done when they return.  A goroutine's own   *)
(* writes are in the map when it makes them, and stay there: no step of    *)
(* another goroutine takes back more than their being live.                *)
(***************************************************************************)
StoredSoFar(p) ==
    call[p].op = "AddURLs" =>
        \A k \in DOMAIN call[p].pairs :
            /\ pc[p] = "done" => k < i[p]
            /\ k < i[p] =>
                call[p].pairs[k].ShortURL \in ShortURLsOf(m, call[p].pairs[k].OriginalURL)

DeletedSoFar(p) ==
    call[p].op = "DeleteUserURLs" =>
        \A k \in DOMAIN call[p].shortURLs :
            /\ pc[p] = "done" => k < i[p]
            /\ k < i[p] /\ Deletes(before[p][call[p].shortURLs[k]], call[p].userID) =>
                m[call[p].shortURLs[k]] # Absent /\ m[call[p].shortURLs[k]].isDeleted

ListedSoFar(p) ==
    call[p].op = "GetUserURLs" =>
        /\ \A s \in Bound(before[p]) :
            (pc[p] = "done" \/ s \in visited[p]) /\ Lists(m[s], call[p].userID)
                => [ShortURL |-> s, OriginalURL |-> m[s].originalURL] \in reply[p]
        /\ \A r \in reply[p] :
            /\ r.ShortURL \in ShortURLsOf(m, r.OriginalURL)
            /\ r.ShortURL \in Bound(before[p])
                => Lists(before[p][r.ShortURL], call[p].userID)

Results(p) == StoredSoFar(p) /\ DeletedSoFar(p) /\ ListedSoFar(p)

ResultsInv == SearchInv /\ \A p \in Procs : Results(p)

\* A batch is numbered from 1.
LEMMA Batches ==
    /\ \A c \in AddURLsCalls : \E n \in Nat : DOMAIN c.pairs = 1..n
    /\ \A c \in DeleteUserURLsCalls : \E n \in Nat : DOMAIN c.shortURLs = 1..n
BY MaxBatchIsNat DEF AddURLsCalls, DeleteUserURLsCalls, BoundedSeq, SeqOf

\* What a call is where its goroutine is.
LEMMA CallAt ==
    ASSUME TypeOK, NEW p \in Procs
    PROVE  /\ call[p].op = "AddURLs" => call[p] \in AddURLsCalls /\ pc[p] \in {"batch", "done"}
           /\ call[p].op = "DeleteUserURLs" =>
                call[p] \in DeleteUserURLsCalls /\ pc[p] \in {"delete", "swap", "done"}
           /\ call[p].op = "GetUserURLs" =>
                call[p] \in GetUserURLsCalls /\ pc[p] \in {"list", "done"}
           /\ call[p] = NoCall => call[p].op = "none"
<1>1. call[p] \in {NoCall} \cup AddURLCalls \cup AddURLsCalls
                    \cup DeleteUserURLsCalls \cup GetUserURLsCalls
  BY DEF TypeOK, Calls, AddCalls
<1>2. pc[p] \in {"idle", "find", "store", "batch", "delete", "swap", "list", "done"}
  BY DEF TypeOK
<1>3. NoCall.op = "none"
  BY DEF NoCall
<1> QED
  BY <1>1, <1>2, <1>3, CallFacts DEF TypeOK

\* What a step leaves of the content.
LEMMA ContentSurvives ==
    ASSUME Inv, [Next]_vars, NEW s \in Bound(m)
    PROVE  /\ s \in Bound(m') /\ m'[s].originalURL = m[s].originalURL
           /\ m'[s].userID = m[s].userID
           /\ m[s].isDeleted => m'[s].isDeleted
<1>1. m \in URLMaps /\ m' \in URLMaps
  BY TypePreserved DEF Inv, TypeOK
<1>2. m'[s] \in {m[s], Tombstone(m[s])} /\ m[s] \in URLRecords
  BY <1>1, StepRefines, BindingsSurvive DEF Inv, TypeOK, Bound, URLMaps
<1> QED
  BY <1>1, <1>2, BoundKeepsOriginal DEF Tombstone, URLRecords

\* The results of a goroutine that does not step.
LEMMA ResultsSurvive ==
    ASSUME Inv, [Next]_vars, NEW q \in Procs, Results(q),
           pc'[q] = pc[q], call'[q] = call[q], i'[q] = i[q],
           visited'[q] = visited[q], reply'[q] = reply[q], before'[q] = before[q],
           BeforeSurvives
    PROVE  Results(q)'
<1>1. StoredSoFar(q)'
  BY OriginalSurvives DEF Results, StoredSoFar, ShortURLsOf, Bound
<1>2. DeletedSoFar(q)'
  <2> SUFFICES ASSUME call[q].op = "DeleteUserURLs", NEW k \in DOMAIN call[q].shortURLs
               PROVE  /\ pc[q] = "done" => k < i[q]
                      /\ k < i[q] /\ Deletes(before[q][call[q].shortURLs[k]], call[q].userID) =>
                            /\ m'[call[q].shortURLs[k]] # Absent
                            /\ m'[call[q].shortURLs[k]].isDeleted
    BY DEF DeletedSoFar, Deletes
  <2>1. call[q].shortURLs[k] \in ShortURLs
    BY CallAt, CallFacts DEF Inv
  <2> QED
    BY <2>1, ContentSurvives DEF Results, DeletedSoFar, Bound
<1>3. ListedSoFar(q)'
  <2> SUFFICES ASSUME call[q].op = "GetUserURLs"
               PROVE  ListedSoFar(q)'
    BY DEF ListedSoFar
  <2>1. ASSUME NEW s \in Bound(before[q]), pc[q] = "done" \/ s \in visited[q],
               Lists(m'[s], call[q].userID)
        PROVE  [ShortURL |-> s, OriginalURL |-> m'[s].originalURL] \in reply[q]
    <3>1. s \in Bound(m)
      <4>1. m[s] \in {before[q][s], Tombstone(before[q][s])}
        BY CallAt DEF BeforeSurvives, Inv
      <4> QED
        BY <4>1, BoundKeepsOriginal DEF Inv, TypeOK
    <3>2. Lists(m[s], call[q].userID) /\ m'[s].originalURL = m[s].originalURL
      BY <2>1, <3>1, ContentSurvives DEF Lists
    <3> QED
      BY <2>1, <3>2 DEF Results, ListedSoFar
  <2>2. \A r \in reply[q] : r.ShortURL \in ShortURLsOf(m, r.OriginalURL)'
    BY OriginalSurvives DEF Results, ListedSoFar
  <2> QED
    BY <2>1, <2>2 DEF Results, ListedSoFar, ShortURLsOf, Bound
<1> QED
  BY <1>1, <1>2, <1>3 DEF Results

\* AddURLs: one more pair is stored, or all were.
LEMMA StoredStillSoFar ==
    ASSUME SearchInv, NEW p \in Procs, StepOf(p), [Next]_vars, StoredSoFar(p)
    PROVE  StoredSoFar(p)'
<1> USE DEF SearchInv, Inv, TypeOK, Goto
<1>1. CASE Begins(p)
  <2>1. i'[p] = 1 /\ pc'[p] # "done"
    BY <1>1 DEF Begins, BeginAddURL, BeginAddURLs, BeginDeleteUserURLs, BeginGetUserURLs, Begin,
       AddURLIndex
  <2>2. TypeOK'
    BY TypePreserved
  <2>3. call'[p].op = "AddURLs" => \A k \in DOMAIN call'[p].pairs : k \in Nat /\ ~(k < 1)
    BY <2>2, CallAt, CallFacts, <1>1 DEF Begins, BeginAddURL, BeginAddURLs, BeginDeleteUserURLs,
       BeginGetUserURLs, Begin
  <2> QED
    BY <2>1, <2>3 DEF StoredSoFar
<1>2. CASE Return(p)
  BY <1>2 DEF Return, StoredSoFar, NoCall
<1>3. CASE call[p].op # "AddURLs" /\ call'[p] = call[p]
  BY <1>3 DEF StoredSoFar
<1>4. CASE StoreNext(p)
  <2> DEFINE j == i[p]
             pair == call[p].pairs[j]
  <2>1. call[p] \in AddURLsCalls /\ j \in DOMAIN call[p].pairs /\ j \in Nat
        /\ pair \in URLPairs /\ call[p].userID \in UserIDs
    BY <1>4, CallFacts, MaxBatchIsNat DEF StoreNext
  <2>2. m'[pair.ShortURL] = NewRecord(pair, call[p].userID)
    BY <1>4, <2>1 DEF StoreNext, URLMaps, URLPairs
  <2>3. pair.ShortURL \in ShortURLsOf(m', pair.OriginalURL)
    BY <2>1, <2>2, Records, Tombstones DEF ShortURLsOf, Bound, NewRecord, URLPairs
  <2>7. PICK n \in Nat : DOMAIN call[p].pairs = 1..n
    BY <2>1, Batches
  <2>4. \A k \in DOMAIN call[p].pairs : k < j + 1 => k < j \/ k = j
    BY <2>1, <2>7
  <2>5. i'[p] = j + 1 /\ pc'[p] # "done" /\ call'[p] = call[p]
    BY <1>4 DEF StoreNext
  <2>6. \A k \in DOMAIN call[p].pairs : k < j =>
            call[p].pairs[k].ShortURL \in ShortURLsOf(m', call[p].pairs[k].OriginalURL)
    BY <2>1, CallFacts, OriginalSurvives DEF StoredSoFar, ShortURLsOf, Bound
  <2> HIDE DEF j
  <2> QED
    BY <2>3, <2>4, <2>5, <2>6 DEF StoredSoFar, ShortURLsOf, Bound
<1>5. CASE AddURLsEnd(p)
  <2>1. m' = m /\ i' = i /\ call' = call /\ call[p] \in AddURLsCalls /\ i[p] \in Nat \ {0}
        /\ i[p] \notin DOMAIN call[p].pairs
    BY <1>5, MaxBatchIsNat DEF AddURLsEnd
  <2>2. PICK n \in Nat : DOMAIN call[p].pairs = 1..n
    BY <2>1, Batches
  <2>3. \A k \in DOMAIN call[p].pairs : k < i[p]
    BY <2>1, <2>2
  <2> QED
    BY <2>1, <2>3, CallFacts DEF StoredSoFar, ShortURLsOf, Bound
<1>6. CASE call[p].op = "AddURLs" /\ ~Begins(p) /\ ~Return(p)
  <2>1. pc[p] = "batch" \/ pc[p] = "done"
    BY <1>6, CallAt
  <2>2. StoreNext(p) \/ AddURLsEnd(p)
    BY <1>6, <2>1 DEF StepOf, AddSteps, FindHit, FindMiss, FindEnd, Store, DeleteSteps, LoadSkip,
       LoadOwn, Swap, DeleteEnd, ListSteps, ListVisit, ListEnd
  <2> QED
    BY <1>4, <1>5, <2>2
<1>7. Begins(p) \/ Return(p) \/ call'[p] = call[p]
  BY DEF StepOf, AddSteps, FindHit, FindMiss, FindEnd, Store, StoreNext, AddURLsEnd, DeleteSteps,
     LoadSkip, LoadOwn, Swap, DeleteEnd, ListSteps, ListVisit, ListEnd
<1> QED
  BY <1>1, <1>2, <1>3, <1>6, <1>7

\* DeleteUserURLs: one more short URL is deleted or not the user's, or all are.
LEMMA DeletedStillSoFar ==
    ASSUME SearchInv, NEW p \in Procs, StepOf(p), [Next]_vars, DeletedSoFar(p)
    PROVE  DeletedSoFar(p)'
<1> USE DEF SearchInv, Inv, TypeOK, Goto
<1>1. CASE Begins(p)
  <2>1. i'[p] = 1 /\ pc'[p] # "done"
    BY <1>1 DEF Begins, BeginAddURL, BeginAddURLs, BeginDeleteUserURLs, BeginGetUserURLs, Begin,
       AddURLIndex
  <2>2. call'[p].op = "DeleteUserURLs" =>
            \A k \in DOMAIN call'[p].shortURLs : k \in Nat /\ ~(k < 1)
    BY CallFacts, <1>1, MaxBatchIsNat DEF Begins, BeginAddURL, BeginAddURLs, BeginDeleteUserURLs,
       BeginGetUserURLs, Begin
  <2> QED
    BY <2>1, <2>2 DEF DeletedSoFar
<1>2. CASE Return(p)
  BY <1>2 DEF Return, DeletedSoFar, NoCall
<1>3. CASE call[p].op # "DeleteUserURLs" /\ call'[p] = call[p]
  BY <1>3 DEF DeletedSoFar
<1>4. CASE call[p].op = "DeleteUserURLs" /\ DeleteSteps(p)
  <2> DEFINE Done(k) == Deletes(before[p][call[p].shortURLs[k]], call[p].userID) =>
                            /\ m'[call[p].shortURLs[k]] # Absent
                            /\ m'[call[p].shortURLs[k]].isDeleted
  <2>1. /\ call[p] \in DeleteUserURLsCalls /\ call'[p] = call[p] /\ before'[p] = before[p]
        /\ i[p] \in Nat \ {0}
        /\ \A k \in DOMAIN call[p].shortURLs : call[p].shortURLs[k] \in ShortURLs
    BY <1>4, CallAt, CallFacts, MaxBatchIsNat DEF DeleteSteps, LoadSkip, LoadOwn, Swap, DeleteEnd
  <2>2. PICK n \in Nat : DOMAIN call[p].shortURLs = 1..n
    BY <2>1, Batches
  <2>3. \A k \in DOMAIN call[p].shortURLs : k < i[p] => Done(k)
    BY <1>4, <2>1, ContentSurvives DEF DeletedSoFar, Bound
  <2> SUFFICES ASSUME NEW k \in DOMAIN call[p].shortURLs
               PROVE  (pc'[p] = "done" => k < i'[p]) /\ (k < i'[p] => Done(k))
    BY <2>1 DEF DeletedSoFar, Deletes
  <2>4. CASE LoadSkip(p)
    <3>1. i'[p] = i[p] + 1 /\ pc'[p] # "done" /\ m' = m
      BY <2>4 DEF LoadSkip
    <3>2. k < i'[p] => k < i[p] \/ k = i[p]
      BY <2>1, <2>2, <3>1
    <3>3. k = i[p] => Done(k)
      <4> SUFFICES ASSUME k = i[p], Deletes(before[p][call[p].shortURLs[k]], call[p].userID)
                   PROVE  FALSE
        OBVIOUS
      <4> DEFINE s == call[p].shortURLs[k]
      <4>1. s \in Bound(before[p]) /\ before[p][s].userID = call[p].userID
        BY <2>1 DEF Bound, Deletes
      <4>2. m[s] \in {before[p][s], Tombstone(before[p][s])}
        BY <2>4, <4>1 DEF BeforeSurvives, LoadSkip
      <4>3. m[s] # Absent /\ m[s].userID = call[p].userID
        BY <4>1, <4>2, BoundKeepsOriginal DEF Bound
      <4> QED
        BY <2>4, <4>3 DEF LoadSkip, Deletes
    <3> QED
      BY <2>3, <3>1, <3>2, <3>3
  <2>5. CASE LoadOwn(p)
    <3>1. i'[p] = i[p] /\ pc'[p] # "done"
      BY <2>5 DEF LoadOwn
    <3> QED
      BY <2>3, <3>1
  <2>6. CASE Swap(p)
    <3>1. i'[p] = i[p] + 1 /\ pc'[p] # "done" /\ i[p] \in DOMAIN call[p].shortURLs
          /\ m' = [m EXCEPT ![call[p].shortURLs[i[p]]] = Tombstone(loaded[p])]
          /\ loaded[p] \in URLRecords
      BY <2>6 DEF Swap
    <3>2. k < i'[p] => k < i[p] \/ k = i[p]
      BY <2>1, <2>2, <3>1
    <3>3. m'[call[p].shortURLs[i[p]]] = Tombstone(loaded[p])
      BY <2>1, <3>1 DEF URLMaps
    <3>4. k = i[p] => Done(k)
      BY <3>1, <3>3, Tombstones DEF Tombstone, URLRecords
    <3> QED
      BY <2>3, <3>1, <3>2, <3>4
  <2>7. CASE DeleteEnd(p)
    <3>1. i'[p] = i[p] /\ i[p] \notin DOMAIN call[p].shortURLs
      BY <2>7 DEF DeleteEnd
    <3>2. k < i[p]
      BY <2>1, <2>2, <3>1
    <3> QED
      BY <2>3, <3>1, <3>2
  <2> QED
    BY <1>4, <2>4, <2>5, <2>6, <2>7 DEF DeleteSteps
<1>5. CASE call[p].op = "DeleteUserURLs" /\ ~Begins(p) /\ ~Return(p)
  <2>1. pc[p] \in {"delete", "swap", "done"}
    BY <1>5, CallAt
  <2>2. DeleteSteps(p)
    BY <1>5, <2>1 DEF StepOf, AddSteps, FindHit, FindMiss, FindEnd, Store, StoreNext, AddURLsEnd,
       ListSteps, ListVisit, ListEnd
  <2> QED
    BY <1>4, <1>5, <2>2
<1>6. Begins(p) \/ Return(p) \/ call'[p] = call[p]
  BY DEF StepOf, AddSteps, FindHit, FindMiss, FindEnd, Store, StoreNext, AddURLsEnd, DeleteSteps,
     LoadSkip, LoadOwn, Swap, DeleteEnd, ListSteps, ListVisit, ListEnd
<1> QED
  BY <1>1, <1>2, <1>3, <1>5, <1>6

\* GetUserURLs: one more key is visited, or all that were there from the start.
LEMMA ListedStillSoFar ==
    ASSUME SearchInv, NEW p \in Procs, StepOf(p), [Next]_vars, ListedSoFar(p)
    PROVE  ListedSoFar(p)'
<1> USE DEF SearchInv, Inv, TypeOK, Goto
<1>1. CASE Begins(p)
  <2>1. /\ pc'[p] # "done" /\ visited'[p] = {} /\ reply'[p] = {}
    BY <1>1 DEF Begins, BeginAddURL, BeginAddURLs, BeginDeleteUserURLs, BeginGetUserURLs, Begin,
       LocalsAreFresh
  <2> QED
    BY <2>1 DEF ListedSoFar
<1>2. CASE Return(p)
  BY <1>2 DEF Return, ListedSoFar, NoCall
<1>3. CASE call[p].op # "GetUserURLs" /\ call'[p] = call[p]
  BY <1>3 DEF ListedSoFar
<1>4. CASE call[p].op = "GetUserURLs" /\ ListVisit(p)
  <2>1. PICK s \in ShortURLs : /\ MayVisit(p, s)
                               /\ visited' = [visited EXCEPT ![p] = @ \cup {s}]
                               /\ reply' = [reply EXCEPT ![p] = @ \cup ListedPairs(p, s)]
    BY <1>4 DEF ListVisit
  <2>2. /\ m' = m /\ call' = call /\ before' = before /\ pc'[p] = "list" /\ pc[p] = "list"
        /\ visited'[p] = visited[p] \cup {s} /\ reply'[p] = reply[p] \cup ListedPairs(p, s)
    BY <1>4, <2>1 DEF ListVisit
  <2>3. s \in Bound(m)
    BY <2>1 DEF MayVisit
  <2> DEFINE pair == [ShortURL |-> s, OriginalURL |-> m[s].originalURL]
  <2>4. \A t \in Bound(before[p]) :
            t \in visited'[p] /\ Lists(m[t], call[p].userID)
                => [ShortURL |-> t, OriginalURL |-> m[t].originalURL] \in reply'[p]
    BY <1>4, <2>2 DEF ListedSoFar, ListedPairs
  <2>5. ASSUME NEW r \in ListedPairs(p, s)
        PROVE  /\ r.ShortURL \in ShortURLsOf(m, r.OriginalURL)
               /\ r.ShortURL \in Bound(before[p])
                    => Lists(before[p][r.ShortURL], call[p].userID)
    <3>1. r.ShortURL = s /\ r.OriginalURL = m[s].originalURL /\ Lists(m[s], call[p].userID)
      BY <2>5 DEF ListedPairs
    <3>2. s \in Bound(before[p]) => Lists(before[p][s], call[p].userID)
      <4> SUFFICES ASSUME s \in Bound(before[p])
                   PROVE  Lists(before[p][s], call[p].userID)
        OBVIOUS
      <4>1. m[s] \in {before[p][s], Tombstone(before[p][s])} /\ before[p][s] \in URLRecords
        BY <2>2 DEF BeforeSurvives, Bound, URLMaps
      <4> QED
        BY <3>1, <4>1 DEF Lists, Tombstone, URLRecords
    <3> QED
      BY <2>3, <3>1, <3>2 DEF ShortURLsOf
  <2>6. \A r \in reply'[p] :
            /\ r.ShortURL \in ShortURLsOf(m, r.OriginalURL)
            /\ r.ShortURL \in Bound(before[p])
                 => Lists(before[p][r.ShortURL], call[p].userID)
    BY <1>4, <2>2, <2>5 DEF ListedSoFar
  <2> QED
    BY <2>2, <2>4, <2>6 DEF ListedSoFar, ShortURLsOf, Bound
<1>5. CASE call[p].op = "GetUserURLs" /\ ListEnd(p)
  <2>1. /\ m' = m /\ call' = call /\ before' = before /\ reply' = reply
        /\ Bound(before[p]) \subseteq visited[p]
    BY <1>5 DEF ListEnd, RangeIsOver
  <2> QED
    BY <1>5, <2>1 DEF ListedSoFar, ShortURLsOf, Bound
<1>6. CASE call[p].op = "GetUserURLs" /\ ~Begins(p) /\ ~Return(p)
  <2>1. pc[p] \in {"list", "done"}
    BY <1>6, CallAt
  <2>2. ListSteps(p)
    BY <1>6, <2>1 DEF StepOf, AddSteps, FindHit, FindMiss, FindEnd, Store, StoreNext, AddURLsEnd,
       DeleteSteps, LoadSkip, LoadOwn, Swap, DeleteEnd
  <2> QED
    BY <1>4, <1>5, <1>6, <2>2 DEF ListSteps
<1>7. Begins(p) \/ Return(p) \/ call'[p] = call[p]
  BY DEF StepOf, AddSteps, FindHit, FindMiss, FindEnd, Store, StoreNext, AddURLsEnd, DeleteSteps,
     LoadSkip, LoadOwn, Swap, DeleteEnd, ListSteps, ListVisit, ListEnd
<1> QED
  BY <1>1, <1>2, <1>3, <1>6, <1>7

LEMMA ResultsPreserved ==
    ASSUME ~IDsCollide, ResultsInv, [Next]_vars
    PROVE  ResultsInv'
<1>1. SearchInv'
  BY SearchPreserved DEF ResultsInv
<1> SUFFICES ASSUME NEW q \in Procs
             PROVE  Results(q)'
  BY <1>1 DEF ResultsInv
<1> USE DEF ResultsInv, SearchInv
<1>2. CASE UNCHANGED vars
  BY <1>2, ResultsSurvive DEF vars
<1>3. ASSUME NEW p \in Procs, StepOf(p)
      PROVE  Results(q)'
  <2>1. CASE q # p
    BY <1>3, <2>1, OthersAreUntouched, ResultsSurvive DEF Inv
  <2>2. CASE q = p
    BY <1>3, <2>2, StoredStillSoFar, DeletedStillSoFar, ListedStillSoFar DEF Results
  <2> QED
    BY <2>1, <2>2
<1> QED
  BY <1>2, <1>3 DEF Next, StepOf

LEMMA ResultsInvariance ==
    ASSUME ~IDsCollide
    PROVE  Spec => []ResultsInv
<1>1. Init => ResultsInv
  BY InitialSearchInv DEF Init, ResultsInv, Results, StoredSoFar, DeletedSoFar, ListedSoFar, NoCall
<1>2. ResultsInv /\ [Next]_vars => ResultsInv'
  BY ResultsPreserved
<1> QED
  BY <1>1, <1>2, PTL DEF Spec

(***************************************************************************)
(* If no short URL is issued twice, every pair of a batch resolves to its  *)
(* original URL, or is deleted by now, when AddURLs returns.               *)
(***************************************************************************)
THEOREM BatchesResolve == ASSUME ~IDsCollide PROVE Spec => []BatchResolves
<1>1. ResultsInv => BatchResolves
  BY DEF ResultsInv, Results, StoredSoFar, BatchResolves, Answered, GetOriginalURL, ShortURLsOf,
         Bound
<1> QED
  BY <1>1, ResultsInvariance, PTL

(***************************************************************************)
(* If no short URL is issued twice, DeleteUserURLs has deleted every short *)
(* URL of its list that was its user's when it was called, whatever other  *)
(* goroutines did between its Load and its Swap.                           *)
(***************************************************************************)
THEOREM DeletesTakeEffect == ASSUME ~IDsCollide PROVE Spec => []DeleteTakesEffect
<1>1. ResultsInv => DeleteTakesEffect
  BY DEF ResultsInv, Results, DeletedSoFar, DeleteTakesEffect, Answered, GetOriginalURL, ToSet
<1> QED
  BY <1>1, ResultsInvariance, PTL

(***************************************************************************)
(* If no short URL is issued twice, GetUserURLs lists what was the user's  *)
(* and live from its call to its answer, and nothing that was deleted or   *)
(* another user's when it was called.                                      *)
(***************************************************************************)
THEOREM ListingsAreAccurate == ASSUME ~IDsCollide PROVE Spec => []ListingIsAccurate
<1>1. ResultsInv => ListingIsAccurate
  BY DEF ResultsInv, Results, ListedSoFar, ListingIsAccurate, Answered
<1> QED
  BY <1>1, ResultsInvariance, PTL

-----------------------------------------------------------------------------
\* The record to swap back is the caller's own.
LoadedIsOwn == \A p \in Procs : pc[p] = "swap" => loaded[p].userID = call[p].userID

LEMMA LoadedStaysOwn == TypeOK /\ LoadedIsOwn /\ [Next]_vars => LoadedIsOwn'
<1> SUFFICES ASSUME TypeOK, LoadedIsOwn, [Next]_vars, NEW q \in Procs, pc'[q] = "swap"
             PROVE  loaded'[q].userID = call'[q].userID
  BY DEF LoadedIsOwn
<1>1. CASE UNCHANGED vars
  BY <1>1 DEF vars, LoadedIsOwn
<1>2. ASSUME NEW p \in Procs, StepOf(p), q # p
      PROVE  loaded'[q].userID = call'[q].userID
  BY <1>2, OthersAreUntouched DEF LoadedIsOwn
<1>3. CASE StepOf(q)
  <2>1. LoadOwn(q)
    BY <1>3 DEF TypeOK, Goto, StepOf, Begins, BeginAddURL, BeginAddURLs, BeginDeleteUserURLs,
       BeginGetUserURLs, Begin, AddSteps, FindHit, FindMiss, FindEnd, Store, StoreNext,
       AddURLsEnd, DeleteSteps, LoadSkip, Swap, DeleteEnd, ListSteps, ListVisit, ListEnd, Return
  <2> QED
    BY <2>1 DEF LoadOwn, Deletes, Goto, TypeOK
<1> QED
  BY <1>1, <1>2, <1>3 DEF Next, StepOf

(***************************************************************************)
(* If no short URL is issued twice, it turns deleted only by a running     *)
(* DeleteUserURLs of the user it belongs to at that moment: nobody has     *)
(* given it to another user between the Load and the Swap.                 *)
(***************************************************************************)
THEOREM OwnersDelete == ASSUME ~IDsCollide PROVE Spec => OnlyOwnersDelete
<1> DEFINE Owns(s) == \E p \in Procs : /\ call[p].op = "DeleteUserURLs"
                                       /\ call[p].userID = m[s].userID
                                       /\ s \in ToSet(call[p].shortURLs)
<1>1. Inv /\ LoadedIsOwn /\ [Next]_vars =>
        [\A s \in Bound(m) : m'[s].isDeleted /\ ~m[s].isDeleted => Owns(s)]_vars
  <2> SUFFICES ASSUME Inv, LoadedIsOwn, NEW p \in Procs, StepOf(p), NEW s \in Bound(m),
                      m'[s].isDeleted, ~m[s].isDeleted
               PROVE  Owns(s)
    BY DEF Next, StepOf
  <2>0. m'[s] = Tombstone(m[s]) /\ m'[s] # m[s]
    <3>1. [Abstract!Next]_m
      BY StepRefines DEF Next, StepOf
    <3>2. m \in URLMaps
      BY DEF Inv, TypeOK
    <3> QED
      BY <3>1, <3>2, BindingsSurvive
  <2> USE DEF Inv, TypeOK
  <2>1. m[s] \in URLRecords /\ s \in ShortURLs
    BY DEF Bound, URLMaps
  <2>2. ASSUME NEW pair \in URLPairs, NEW u \in UserIDs,
               m' = [m EXCEPT ![pair.ShortURL] = NewRecord(pair, u)]
        PROVE  FALSE
    <3>1. m'[s] = NewRecord(pair, u)
      BY <2>0, <2>1, <2>2 DEF URLMaps, URLPairs
    <3> QED
      BY <2>0, <2>1, <3>1 DEF NewRecord, Tombstone, URLRecords
  <2>3. ~Store(p)
    BY <2>2, CallFacts DEF Store
  <2>4. ~StoreNext(p)
    BY <2>2, CallFacts DEF StoreNext
  <2>5. Swap(p)
    BY <2>0, <2>3, <2>4, OnlyTheseWrite
  <2>6. s = call[p].shortURLs[i[p]] /\ m'[s] = Tombstone(loaded[p]) /\ loaded[p] \in URLRecords
        /\ i[p] \in DOMAIN call[p].shortURLs /\ call[p] \in DeleteUserURLsCalls
    BY <2>0, <2>1, <2>5, CallFacts DEF Swap, URLMaps
  <2>7. loaded[p].userID = m[s].userID
    BY <2>0, <2>1, <2>6 DEF Tombstone, URLRecords
  <2> QED
    BY <2>5, <2>6, <2>7, CallFacts DEF Swap, LoadedIsOwn, ToSet
<1>2. Init => LoadedIsOwn
  BY DEF Init, LoadedIsOwn
<1>3. Inv /\ [Next]_vars => Inv'
  BY InvPreserved
<1>4. Inv => TypeOK
  BY DEF Inv
<1> QED
  BY <1>1, <1>2, <1>3, <1>4, InitialInv, LoadedStaysOwn, PTL DEF Spec, OnlyOwnersDelete
=============================================================================
