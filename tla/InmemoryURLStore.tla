-------------------------- MODULE InmemoryURLStore --------------------------
(***************************************************************************)
(* internal/persistance/inmemory: the store over a sync.Map.               *)
(*                                                                         *)
(* Each request goroutine calls one method of the store at a time.  Load,  *)
(* Store and Swap of sync.Map are atomic steps; a Range is one step per    *)
(* visited key, because other goroutines write between the visits.  There  *)
(* is no lock around a method: AddURL looks for the original URL and then  *)
(* stores, DeleteUserURLs loads a record and then swaps it back.           *)
(***************************************************************************)
EXTENDS Domain, SequencesExt

CONSTANTS Procs,       \* request goroutines
          MaxBatch,    \* bound on the length of a batch
          IDsCollide   \* may shortener.Shorten(uuid.New().ID()) repeat a value?

ASSUME MaxBatchIsNat == MaxBatch \in Nat
ASSUME IDsCollideIsBool == IDsCollide \in BOOLEAN

VARIABLES m,        \* the sync.Map
          pc,       \* where the goroutine is in its method
          call,     \* the method and its arguments
          i,        \* index of the for loops over a batch
          loaded,   \* DeleteUserURLs: the record loaded, not yet swapped back
          visited,  \* Range: the keys passed so far
          reply,    \* the pairs the caller is told about
          before    \* history: the content when the method was called

vars == <<m, pc, call, i, loaded, visited, reply, before>>

NoCall == [op |-> "none"]

AddURLCalls == [op : {"AddURL"}, userID : UserIDs, pairs : [1..1 -> URLPairs]]

AddURLsCalls == [op : {"AddURLs"}, userID : UserIDs,
                 pairs : BoundedSeq(URLPairs, MaxBatch) \ {<< >>}]

DeleteUserURLsCalls == [op : {"DeleteUserURLs"}, userID : UserIDs,
                        shortURLs : BoundedSeq(ShortURLs, MaxBatch)]

GetUserURLsCalls == [op : {"GetUserURLs"}, userID : UserIDs]

AddCalls == AddURLCalls \cup AddURLsCalls

Calls == {NoCall} \cup AddCalls \cup DeleteUserURLsCalls \cup GetUserURLsCalls

Adds(c) == c.op \in {"AddURL", "AddURLs"}

\* The short URLs of the pairs a call was given.
IDsOf(c) == IF Adds(c) THEN {c.pairs[k].ShortURL : k \in DOMAIN c.pairs} ELSE {}

TypeOK ==
    /\ m \in URLMaps
    /\ before \in [Procs -> URLMaps]
    /\ pc \in [Procs -> {"idle", "find", "store", "batch", "delete", "swap", "list", "done"}]
    /\ call \in [Procs -> Calls]
    /\ i \in [Procs -> 1..(MaxBatch + 1)]
    /\ loaded \in [Procs -> URLRecords \cup {Absent}]
    /\ visited \in [Procs -> SUBSET ShortURLs]
    /\ reply \in [Procs -> SUBSET URLPairs]
    /\ \A p \in Procs :
        /\ pc[p] = "idle" <=> call[p] = NoCall
        /\ pc[p] \in {"find", "store"} => call[p] \in AddURLCalls
        /\ pc[p] = "batch" => call[p] \in AddURLsCalls
        /\ pc[p] \in {"delete", "swap"} => call[p] \in DeleteUserURLsCalls
        /\ pc[p] = "swap" => loaded[p] # Absent /\ i[p] \in DOMAIN call[p].shortURLs
        /\ pc[p] = "list" => call[p] \in GetUserURLsCalls

Init ==
    /\ m = EmptyMap
    /\ pc = [p \in Procs |-> "idle"]
    /\ call = [p \in Procs |-> NoCall]
    /\ i = [p \in Procs |-> 1]
    /\ loaded = [p \in Procs |-> Absent]
    /\ visited = [p \in Procs |-> {}]
    /\ reply = [p \in Procs |-> {}]
    /\ before = [p \in Procs |-> EmptyMap]

-----------------------------------------------------------------------------
(***************************************************************************)
(* Calls.  The handlers give every pair a short URL of its own, a random   *)
(* 32-bit number in base 58.  Unless IDsCollide, no two live pairs share   *)
(* one.  A client may ask to delete any list of short URLs, also an empty  *)
(* one and also strings nobody was given.                                  *)
(***************************************************************************)
Begin(p, c, label) ==
    /\ pc[p] = "idle"
    /\ pc' = [pc EXCEPT ![p] = label]
    /\ call' = [call EXCEPT ![p] = c]
    /\ before' = [before EXCEPT ![p] = m]
    /\ UNCHANGED <<m, i, loaded, visited, reply>>

PairsDiffer(c) ==
    \A j, k \in DOMAIN c.pairs : c.pairs[j].ShortURL = c.pairs[k].ShortURL => j = k

\* shortener.Shorten(uuid.New().ID()) for every pair of the call.
FreshIDs(c) ==
    ~IDsCollide =>
        /\ IDsOf(c) \cap Bound(m) = {}
        /\ \A p \in Procs : IDsOf(c) \cap IDsOf(call[p]) = {}
        /\ PairsDiffer(c)

BeginAddURL(p) ==
    \E c \in AddURLCalls : FreshIDs(c) /\ Begin(p, c, "find")

BeginAddURLs(p) ==
    \E c \in AddURLsCalls : FreshIDs(c) /\ Begin(p, c, "batch")

BeginDeleteUserURLs(p) ==
    \E c \in DeleteUserURLsCalls : Begin(p, c, "delete")

BeginGetUserURLs(p) ==
    \E c \in GetUserURLsCalls : Begin(p, c, "list")

\* The goroutine moves on to label, having changed none of the other variables.
Goto(p, label) == pc' = [pc EXCEPT ![p] = label] /\ UNCHANGED <<call, before>>

-----------------------------------------------------------------------------
(***************************************************************************)
(* Range over a sync.Map: no key is visited twice, every key present from  *)
(* start to end is visited, and a key stored meanwhile may or may not be.  *)
(***************************************************************************)
MayVisit(p, s) == s \in Bound(m) \ visited[p]

RangeIsOver(p) == Bound(before[p]) \subseteq visited[p]

\* AddURL, findShortURL: the visited record has the original URL.
FindHit(p) ==
    /\ pc[p] = "find"
    /\ \E s \in ShortURLsOf(m, call[p].pairs[1].OriginalURL) :
        /\ MayVisit(p, s)
        /\ reply' = [reply EXCEPT ![p] = {[ShortURL |-> s, OriginalURL |-> m[s].originalURL]}]
    /\ visited' = [visited EXCEPT ![p] = {}]
    /\ Goto(p, "done")
    /\ UNCHANGED <<m, i, loaded>>

FindMiss(p) ==
    /\ pc[p] = "find"
    /\ \E s \in ShortURLs \ ShortURLsOf(m, call[p].pairs[1].OriginalURL) :
        /\ MayVisit(p, s)
        /\ visited' = [visited EXCEPT ![p] = @ \cup {s}]
    /\ Goto(p, "find")
    /\ UNCHANGED <<m, i, loaded, reply>>

\* Mutant: the callback stops the Range at the first record that is no match.
FindEnd_EndsEarly(p) ==
    /\ pc[p] = "find"
    /\ visited' = [visited EXCEPT ![p] = {}]
    /\ Goto(p, "store")
    /\ UNCHANGED <<m, i, loaded, reply>>

FindEnd(p) ==
    /\ pc[p] = "find"
    /\ RangeIsOver(p)
    /\ visited' = [visited EXCEPT ![p] = {}]
    /\ Goto(p, "store")
    /\ UNCHANGED <<m, i, loaded, reply>>

\* AddURL: nothing found, u.m.Store.
Store(p) ==
    /\ pc[p] = "store"
    /\ LET pair == call[p].pairs[1] IN
        m' = [m EXCEPT ![pair.ShortURL] = NewRecord(pair, call[p].userID)]
    /\ Goto(p, "done")
    /\ UNCHANGED <<i, loaded, visited, reply>>

\* AddURLs: one turn of the loop.
StoreNext(p) ==
    /\ pc[p] = "batch"
    /\ i[p] \in DOMAIN call[p].pairs
    /\ LET pair == call[p].pairs[i[p]] IN
        m' = [m EXCEPT ![pair.ShortURL] = NewRecord(pair, call[p].userID)]
    /\ i' = [i EXCEPT ![p] = @ + 1]
    /\ Goto(p, "batch")
    /\ UNCHANGED <<loaded, visited, reply>>

\* Mutant: the loop ends one pair early.
AddURLsEnd_OneShort(p) ==
    /\ pc[p] = "batch"
    /\ i[p] + 1 \notin DOMAIN call[p].pairs
    /\ Goto(p, "done")
    /\ UNCHANGED <<m, i, loaded, visited, reply>>

AddURLsEnd(p) ==
    /\ pc[p] = "batch"
    /\ i[p] \notin DOMAIN call[p].pairs
    /\ Goto(p, "done")
    /\ UNCHANGED <<m, i, loaded, visited, reply>>

-----------------------------------------------------------------------------
\* Mutant: the owner of the record is not compared.
Deletes_AnyOwner(rec, u) == rec # Absent

\* The record DeleteUserURLs has just loaded is one it goes on to delete.
Deletes(rec, u) == rec # Absent /\ rec.userID = u

\* Mutant: return instead of continue.
LoadSkip_Returns(p) ==
    /\ pc[p] = "delete"
    /\ i[p] \in DOMAIN call[p].shortURLs
    /\ ~Deletes(m[call[p].shortURLs[i[p]]], call[p].userID)
    /\ Goto(p, "done")
    /\ UNCHANGED <<m, i, loaded, visited, reply>>

\* DeleteUserURLs: Load finds nothing, or another user's record: continue.
LoadSkip(p) ==
    /\ pc[p] = "delete"
    /\ i[p] \in DOMAIN call[p].shortURLs
    /\ ~Deletes(m[call[p].shortURLs[i[p]]], call[p].userID)
    /\ i' = [i EXCEPT ![p] = @ + 1]
    /\ Goto(p, "delete")
    /\ UNCHANGED <<m, loaded, visited, reply>>

\* Mutant: the second result of Load is ignored.
LoadOwn_IgnoresOk(p) ==
    /\ pc[p] = "delete"
    /\ i[p] \in DOMAIN call[p].shortURLs
    /\ loaded' = [loaded EXCEPT ![p] = m[call[p].shortURLs[i[p]]]]
    /\ Goto(p, "swap")
    /\ UNCHANGED <<m, i, visited, reply>>

LoadOwn(p) ==
    /\ pc[p] = "delete"
    /\ i[p] \in DOMAIN call[p].shortURLs
    /\ Deletes(m[call[p].shortURLs[i[p]]], call[p].userID)
    /\ loaded' = [loaded EXCEPT ![p] = m[call[p].shortURLs[i[p]]]]
    /\ Goto(p, "swap")
    /\ UNCHANGED <<m, i, visited, reply>>

\* Mutant: every copy goes back under the first short URL of the list.
Swap_FirstKey(p) ==
    /\ pc[p] = "swap"
    /\ m' = [m EXCEPT ![call[p].shortURLs[1]] = Tombstone(loaded[p])]
    /\ i' = [i EXCEPT ![p] = @ + 1]
    /\ loaded' = [loaded EXCEPT ![p] = Absent]
    /\ Goto(p, "delete")
    /\ UNCHANGED <<visited, reply>>

\* The copy, marked deleted, replaces whatever the key holds by now.
Swap(p) ==
    /\ pc[p] = "swap"
    /\ m' = [m EXCEPT ![call[p].shortURLs[i[p]]] = Tombstone(loaded[p])]
    /\ i' = [i EXCEPT ![p] = @ + 1]
    /\ loaded' = [loaded EXCEPT ![p] = Absent]
    /\ Goto(p, "delete")
    /\ UNCHANGED <<visited, reply>>

DeleteEnd(p) ==
    /\ pc[p] = "delete"
    /\ i[p] \notin DOMAIN call[p].shortURLs
    /\ Goto(p, "done")
    /\ UNCHANGED <<m, i, loaded, visited, reply>>

-----------------------------------------------------------------------------
\* Mutant: deleted records are listed.
ListedPairs_Deleted(p, s) ==
    IF m[s].userID = call[p].userID
    THEN {[ShortURL |-> s, OriginalURL |-> m[s].originalURL]}
    ELSE {}

\* GetUserURLs: what the callback of Range appends for key s.
ListedPairs(p, s) ==
    IF Lists(m[s], call[p].userID)
    THEN {[ShortURL |-> s, OriginalURL |-> m[s].originalURL]}
    ELSE {}

ListVisit(p) ==
    /\ pc[p] = "list"
    /\ \E s \in ShortURLs :
        /\ MayVisit(p, s)
        /\ visited' = [visited EXCEPT ![p] = @ \cup {s}]
        /\ reply' = [reply EXCEPT ![p] = @ \cup ListedPairs(p, s)]
    /\ Goto(p, "list")
    /\ UNCHANGED <<m, i, loaded>>

ListEnd(p) ==
    /\ pc[p] = "list"
    /\ RangeIsOver(p)
    /\ visited' = [visited EXCEPT ![p] = {}]
    /\ Goto(p, "done")
    /\ UNCHANGED <<m, i, loaded, reply>>

\* The handler has its answer; the goroutine's local variables are gone.
Return(p) ==
    /\ pc[p] = "done"
    /\ pc' = [pc EXCEPT ![p] = "idle"]
    /\ call' = [call EXCEPT ![p] = NoCall]
    /\ i' = [i EXCEPT ![p] = 1]
    /\ reply' = [reply EXCEPT ![p] = {}]
    /\ before' = [before EXCEPT ![p] = EmptyMap]
    /\ UNCHANGED <<m, loaded, visited>>

Begins(p) == BeginAddURL(p) \/ BeginAddURLs(p) \/ BeginDeleteUserURLs(p) \/ BeginGetUserURLs(p)

AddSteps(p) == FindHit(p) \/ FindMiss(p) \/ FindEnd(p) \/ Store(p) \/ StoreNext(p) \/ AddURLsEnd(p)

DeleteSteps(p) == LoadSkip(p) \/ LoadOwn(p) \/ Swap(p) \/ DeleteEnd(p)

ListSteps(p) == ListVisit(p) \/ ListEnd(p)

Next == \E p \in Procs : Begins(p) \/ AddSteps(p) \/ DeleteSteps(p) \/ ListSteps(p) \/ Return(p)

Spec == Init /\ [][Next]_vars

-----------------------------------------------------------------------------
\* GetOriginalURL is one Load: a function of the content.
GetOriginalURL(s) ==
    IF m[s] = Absent THEN "ErrOriginalURLNotFound"
    ELSE IF m[s].isDeleted THEN "ErrOriginalURLIsDeleted"
    ELSE m[s].originalURL

Answered(p, op) == pc[p] = "done" /\ call[p].op = op

\* What AddURL answers, against the content before and after the call.
AnswerIsRight(p) ==
    LET pair == call[p].pairs[1] IN
    IF reply[p] = {}
    THEN /\ ShortURLsOf(before[p], pair.OriginalURL) = {}
         /\ pair.ShortURL \in ShortURLsOf(m, pair.OriginalURL)
    ELSE \A r \in reply[p] : r.ShortURL \in ShortURLsOf(m, pair.OriginalURL)

(***************************************************************************)
(* AddURL answers with an existing short URL whenever the original URL was *)
(* in the store, deleted or not, before the call: its unlocked search over *)
(* a map under concurrent writes misses nothing that was there all along.  *)
(* The short URL it names really stands for the original URL, and without  *)
(* a conflict the caller's own short URL does.                             *)
(***************************************************************************)
AddURLReportsDuplicates == \A p \in Procs : Answered(p, "AddURL") => AnswerIsRight(p)

(***************************************************************************)
(* Every pair of a batch resolves to its original URL once AddURLs has     *)
(* returned, unless its owner has deleted it since.                        *)
(***************************************************************************)
BatchResolves ==
    \A p \in Procs : Answered(p, "AddURLs") =>
        \A k \in DOMAIN call[p].pairs :
            GetOriginalURL(call[p].pairs[k].ShortURL)
                \in {call[p].pairs[k].OriginalURL, "ErrOriginalURLIsDeleted"}

(***************************************************************************)
(* When DeleteUserURLs returns, every short URL of the list that belonged  *)
(* to the user before the call is deleted, whatever the other goroutines   *)
(* did between its Load and its Swap.                                      *)
(***************************************************************************)
DeleteTakesEffect ==
    \A p \in Procs : Answered(p, "DeleteUserURLs") =>
        \A s \in ToSet(call[p].shortURLs) :
            Deletes(before[p][s], call[p].userID)
                => GetOriginalURL(s) = "ErrOriginalURLIsDeleted"

(***************************************************************************)
(* A short URL turns deleted only while a DeleteUserURLs is running that   *)
(* names it and is of the user the short URL belongs to at that moment,    *)
(* not of one it belonged to when the call loaded it.                      *)
(***************************************************************************)
OnlyOwnersDelete ==
    [][\A s \in Bound(m) : m'[s].isDeleted /\ ~m[s].isDeleted =>
        \E p \in Procs : /\ call[p].op = "DeleteUserURLs"
                         /\ call[p].userID = m[s].userID
                         /\ s \in ToSet(call[p].shortURLs)]_vars

(***************************************************************************)
(* GetUserURLs lists every URL of the user that was live from the call to  *)
(* the answer, each with its own original URL, and nothing that was        *)
(* deleted, or another user's, before the call.                            *)
(***************************************************************************)
ListingIsAccurate ==
    \A p \in Procs : Answered(p, "GetUserURLs") =>
        /\ \A s \in Bound(before[p]) :
            Lists(before[p][s], call[p].userID) /\ Lists(m[s], call[p].userID)
                => [ShortURL |-> s, OriginalURL |-> m[s].originalURL] \in reply[p]
        /\ \A r \in reply[p] :
            /\ r.ShortURL \in ShortURLsOf(m, r.OriginalURL)
            /\ r.ShortURL \in Bound(before[p])
                => Lists(before[p][r.ShortURL], call[p].userID)

(***************************************************************************)
(* The store implements what the URLStore interface promises: a binding is *)
(* made once and only ever becomes deleted, although DeleteUserURLs writes *)
(* back a copy it read earlier.                                            *)
(***************************************************************************)
Abstract == INSTANCE URLStore WITH urls <- m

RefinesURLStore == Abstract!Spec

(***************************************************************************)
(* The same as an action property of this store: a short URL that was      *)
(* given out keeps resolving to the URL it was added for.                  *)
(***************************************************************************)
BindingsArePermanent == Abstract!BindingsArePermanent

(***************************************************************************)
(* An original URL has one short URL.  The contract test adds the same URL *)
(* twice with AddURL and expects the second call to be refused.            *)
(***************************************************************************)
OriginalURLsAreUnique ==
    \A s, t \in Bound(m) : m[s].originalURL = m[t].originalURL => s = t
=============================================================================
