-------------------------- MODULE PostgresURLStore --------------------------
(***************************************************************************)
(* internal/persistance/pgsql: the store that keeps the URLs in a table    *)
(* with unique short URLs and unique original URLs.                        *)
(*                                                                         *)
(* Every method takes a connection from the pool and gives it back when it *)
(* returns; the writing ones run one transaction on it, at the isolation   *)
(* level of PostgreSQL, read committed.  A statement that meets a row      *)
(* another transaction has inserted or updated waits for that transaction  *)
(* to end; of transactions that wait in a circle PostgreSQL aborts one.    *)
(* The context of a request may be cancelled, and a connection lost, in    *)
(* any of these steps.  A short URL is a random number: here it may repeat.*)
(***************************************************************************)
EXTENDS Domain, SequencesExt

CONSTANTS Procs,     \* goroutines that call the store
          MaxConns,  \* size of the connection pool
          MaxBatch,  \* bound on the length of the batch AddURLs is given
          MaxDeletes,\* bound on the length of the list DeleteUserURLs is given
          Faults     \* may contexts be cancelled and connections be lost?

ASSUME PoolIsNotEmpty == MaxConns \in Nat \ {0}
ASSUME BoundsAreNats == {MaxBatch, MaxDeletes} \subseteq Nat
ASSUME FaultsIsBool == Faults \in BOOLEAN

VARIABLES table,   \* the committed rows
          writes,  \* of each transaction: its rows, not yet committed
          pc, call, i,
          answer,  \* what the method returns
          reply,   \* and the pairs that go with it
          before   \* history: the rows when a deleting call began

vars == <<table, writes, pc, call, i, answer, reply, before>>

NoCall == [op |-> "none"]

AddURLCalls == [op : {"AddURL"}, userID : UserIDs, pairs : [1..1 -> URLPairs]]

AddURLsCalls == [op : {"AddURLs"}, userID : UserIDs,
                 pairs : BoundedSeq(URLPairs, MaxBatch) \ {<< >>}]

DeleteUserURLsCalls == [op : {"DeleteUserURLs"}, userID : UserIDs,
                        shortURLs : BoundedSeq(ShortURLs, MaxDeletes)]

GetOriginalURLCalls == [op : {"GetOriginalURL"}, shortURL : ShortURLs]

GetUserURLsCalls == [op : {"GetUserURLs"}, userID : UserIDs]

IsAvailableCalls == [op : {"IsAvailable"}]

AddCalls == AddURLCalls \cup AddURLsCalls

ReadCalls == GetOriginalURLCalls \cup GetUserURLsCalls \cup IsAvailableCalls

Calls == {NoCall} \cup AddCalls \cup DeleteUserURLsCalls \cup ReadCalls

Adds(c) == c.op \in {"AddURL", "AddURLs"}

\* The labels of a goroutine that has a connection.
Connected == {"insert", "lookup", "update", "commit", "read", "release"}

Holders == {p \in Procs : pc[p] \in Connected}

TypeOK ==
    /\ table \in URLMaps
    /\ writes \in [Procs -> URLMaps]
    /\ pc \in [Procs -> {"idle", "acquire", "panic"} \cup Connected]
    /\ call \in [Procs -> Calls]
    /\ i \in [Procs -> Nat \ {0}]
    /\ answer \in [Procs -> {"ok", "exists", "notFound", "isDeleted", "error"}]
    /\ reply \in [Procs -> SUBSET URLPairs]
    /\ before \in [Procs -> URLMaps]
    /\ Cardinality(Holders) <= MaxConns
    /\ \A p \in Procs :
        /\ pc[p] = "idle" <=> call[p] = NoCall
        /\ pc[p] = "insert" => call[p] \in AddCalls
        /\ pc[p] = "lookup" => call[p] \in AddURLCalls
        /\ pc[p] = "update" => call[p] \in DeleteUserURLsCalls
        /\ pc[p] = "read" => call[p] \in ReadCalls
        /\ answer[p] = "exists" => Cardinality(reply[p]) = 1

\* migration: the table is created empty.
Init ==
    /\ table = EmptyMap
    /\ writes = [p \in Procs |-> EmptyMap]
    /\ pc = [p \in Procs |-> "idle"]
    /\ call = [p \in Procs |-> NoCall]
    /\ i = [p \in Procs |-> 1]
    /\ answer = [p \in Procs |-> "ok"]
    /\ reply = [p \in Procs |-> {}]
    /\ before = [p \in Procs |-> EmptyMap]

-----------------------------------------------------------------------------
Begin(p, c) ==
    /\ pc[p] = "idle"
    /\ pc' = [pc EXCEPT ![p] = "acquire"]
    /\ call' = [call EXCEPT ![p] = c]
    /\ before' = [before EXCEPT ![p] = IF c.op = "DeleteUserURLs" THEN table ELSE @]
    /\ UNCHANGED <<table, writes, i, answer, reply>>

BeginAdd(p) == \E c \in AddCalls : Begin(p, c)

BeginDeleteUserURLs(p) == \E c \in DeleteUserURLsCalls : Begin(p, c)

BeginRead(p) == \E c \in ReadCalls : Begin(p, c)

FirstLabel(c) ==
    CASE Adds(c) -> "insert"
      [] c.op = "DeleteUserURLs" -> "update"
      [] c \in ReadCalls -> "read"

\* The goroutine moves on within its call.
Goto(p, label) ==
    /\ pc' = [pc EXCEPT ![p] = label]
    /\ UNCHANGED <<call, before>>

\* u.pool.Acquire, and BeginTx.
Acquire(p) ==
    /\ pc[p] = "acquire"
    /\ Cardinality(Holders) < MaxConns
    /\ Goto(p, FirstLabel(call[p]))
    /\ UNCHANGED <<table, writes, i, answer, reply>>

\* Acquire returns an error and no connection: the deferred Release panics.
AcquireFails(p) ==
    /\ Faults
    /\ pc[p] = "acquire"
    /\ Goto(p, "panic")
    /\ UNCHANGED <<table, writes, i, answer, reply>>

\* The method returns result; its transaction, if it has one, is rolled back.
Return(p, result) ==
    /\ answer' = [answer EXCEPT ![p] = result]
    /\ writes' = [writes EXCEPT ![p] = EmptyMap]
    /\ i' = [i EXCEPT ![p] = 1]
    /\ Goto(p, "release")

-----------------------------------------------------------------------------
\* The row of an INSERT or of a line of the COPY.
PairOf(p) == call[p].pairs[i[p]]

\* Mutant: the migration forgets UNIQUE on original_url.
Violates_ShortOnly(p) == Updated(table, writes[p])[PairOf(p).ShortURL] # Absent

\* The row repeats a short or an original URL.
Violates(p) ==
    LET rows == Updated(table, writes[p])
    IN  \/ rows[PairOf(p).ShortURL] # Absent
        \/ ShortURLsOf(rows, PairOf(p).OriginalURL) # {}

\* Transactions that have inserted a row the INSERT of p repeats.
InsertWaitsFor(p) ==
    {q \in Procs \ {p} : \E s \in Bound(writes[q]) :
        /\ table[s] = Absent
        /\ \/ s = PairOf(p).ShortURL
           \/ writes[q][s].originalURL = PairOf(p).OriginalURL}

Inserting(p) == pc[p] = "insert" /\ i[p] \in DOMAIN call[p].pairs

InsertRow(p) ==
    /\ Inserting(p)
    /\ ~Violates(p)
    /\ InsertWaitsFor(p) = {}
    /\ writes' = [writes EXCEPT ![p][PairOf(p).ShortURL] = NewRecord(PairOf(p), call[p].userID)]
    /\ i' = [i EXCEPT ![p] = @ + 1]
    /\ Goto(p, "insert")
    /\ UNCHANGED <<table, answer, reply>>

InsertEnd(p) ==
    /\ pc[p] = "insert"
    /\ i[p] \notin DOMAIN call[p].pairs
    /\ Goto(p, "commit")
    /\ UNCHANGED <<table, writes, i, answer, reply>>

\* AddURL: UniqueViolation; the transaction is rolled back at once.
AddURLRefused(p) ==
    /\ Inserting(p)
    /\ Violates(p)
    /\ call[p].op = "AddURL"
    /\ writes' = [writes EXCEPT ![p] = EmptyMap]
    /\ Goto(p, "lookup")
    /\ UNCHANGED <<table, i, answer, reply>>

\* AddURLs: any error of the COPY ends the call.
AddURLsRefused(p) ==
    /\ Inserting(p)
    /\ Violates(p)
    /\ call[p].op = "AddURLs"
    /\ Return(p, "error")
    /\ UNCHANGED <<table, reply>>

\* Mutant: the answer names the short URL that was not stored.
LookupHit_OwnShortURL(p) ==
    /\ pc[p] = "lookup"
    /\ ShortURLsOf(table, PairOf(p).OriginalURL) # {}
    /\ reply' = [reply EXCEPT ![p] = {PairOf(p)}]
    /\ Return(p, "exists")
    /\ UNCHANGED table

\* Mutant: getShortURL takes a connection of its own.
LookupHit_SecondConnection(p) ==
    /\ pc[p] = "lookup"
    /\ Cardinality(Holders) < MaxConns
    /\ \E s \in ShortURLsOf(table, PairOf(p).OriginalURL) :
        reply' = [reply EXCEPT ![p] = {[PairOf(p) EXCEPT !.ShortURL = s]}]
    /\ Return(p, "exists")
    /\ UNCHANGED table

\* getShortURL, on the same connection.
LookupHit(p) ==
    /\ pc[p] = "lookup"
    /\ \E s \in ShortURLsOf(table, PairOf(p).OriginalURL) :
        reply' = [reply EXCEPT ![p] = {[PairOf(p) EXCEPT !.ShortURL = s]}]
    /\ Return(p, "exists")
    /\ UNCHANGED table

\* Mutant: the error of getShortURL is not looked at.
LookupMiss_Unchecked(p) ==
    /\ pc[p] = "lookup"
    /\ ShortURLsOf(table, PairOf(p).OriginalURL) = {}
    /\ Return(p, "exists")
    /\ UNCHANGED <<table, reply>>

\* It was the short URL that was not unique: no row has the original URL.
LookupMiss(p) ==
    /\ pc[p] = "lookup"
    /\ ShortURLsOf(table, PairOf(p).OriginalURL) = {}
    /\ Return(p, "error")
    /\ UNCHANGED <<table, reply>>

-----------------------------------------------------------------------------
Updating(p) == pc[p] = "update" /\ i[p] \in DOMAIN call[p].shortURLs

KeyOf(p) == call[p].shortURLs[i[p]]

\* Mutant: WHERE short_url = $1.
Matches_AnyOwner(p) == table[KeyOf(p)] # Absent

\* WHERE short_url = $1 AND user_id = $2
Matches(p) == table[KeyOf(p)] # Absent /\ table[KeyOf(p)].userID = call[p].userID

\* Transactions that have updated the row.
UpdateWaitsFor(p) ==
    {q \in Procs \ {p} : table[KeyOf(p)] # Absent /\ KeyOf(p) \in Bound(writes[q])}

UpdateRow(p) ==
    /\ Updating(p)
    /\ Matches(p)
    /\ UpdateWaitsFor(p) = {}
    /\ writes' = [writes EXCEPT ![p][KeyOf(p)] = Tombstone(table[KeyOf(p)])]
    /\ i' = [i EXCEPT ![p] = @ + 1]
    /\ Goto(p, "update")
    /\ UNCHANGED <<table, answer, reply>>

\* Mutant: a list with a short URL of somebody else is left there.
UpdateNoRow_Ends(p) ==
    /\ Updating(p)
    /\ ~Matches(p)
    /\ Goto(p, "commit")
    /\ UNCHANGED <<table, writes, i, answer, reply>>

UpdateNoRow(p) ==
    /\ Updating(p)
    /\ ~Matches(p)
    /\ i' = [i EXCEPT ![p] = @ + 1]
    /\ Goto(p, "update")
    /\ UNCHANGED <<table, writes, answer, reply>>

UpdateEnd(p) ==
    /\ pc[p] = "update"
    /\ i[p] \notin DOMAIN call[p].shortURLs
    /\ Goto(p, "commit")
    /\ UNCHANGED <<table, writes, i, answer, reply>>

Commit(p) ==
    /\ pc[p] = "commit"
    /\ table' = Updated(table, writes[p])
    /\ Return(p, "ok")
    /\ UNCHANGED reply

\* The connection is lost while the answer to COMMIT is due: it was done or not.
CommitFails(p) ==
    /\ Faults
    /\ pc[p] = "commit"
    /\ table' \in {table, Updated(table, writes[p])}
    /\ Return(p, "error")
    /\ UNCHANGED reply

WaitsFor(p) ==
    IF Inserting(p) /\ ~Violates(p) THEN InsertWaitsFor(p)
    ELSE IF Updating(p) /\ Matches(p) THEN UpdateWaitsFor(p)
    ELSE {}

\* p waits, and is waited for, in a circle of transactions.
InACircle(p) ==
    \E S \in SUBSET Procs :
        /\ p \in S
        /\ \A q \in S : WaitsFor(q) \cap S # {} /\ \E r \in S : q \in WaitsFor(r)

\* A statement of a transaction, or getShortURL, returns an error.
StatementFails(p) ==
    /\ pc[p] \in {"insert", "lookup", "update"}
    /\ Faults
    /\ Return(p, "error")
    /\ UNCHANGED <<table, reply>>

DeadlockDetected(p) ==
    /\ InACircle(p)
    /\ Return(p, "error")
    /\ UNCHANGED <<table, reply>>

-----------------------------------------------------------------------------
PairsIn(map, S) == {[ShortURL |-> s, OriginalURL |-> map[s].originalURL] : s \in S}

GetOriginalURL(p) ==
    LET s == call[p].shortURL IN
    /\ pc[p] = "read" /\ call[p].op = "GetOriginalURL"
    /\ Return(p, IF table[s] = Absent THEN "notFound"
                 ELSE IF table[s].isDeleted THEN "isDeleted" ELSE "ok")
    /\ reply' = [reply EXCEPT
        ![p] = PairsIn(table, {t \in Bound(table) : t = s /\ ~table[t].isDeleted})]
    /\ UNCHANGED table

GetUserURLs(p) ==
    /\ pc[p] = "read" /\ call[p].op = "GetUserURLs"
    /\ Return(p, "ok")
    /\ reply' = [reply EXCEPT
        ![p] = PairsIn(table, {s \in Bound(table) : Lists(table[s], call[p].userID)})]
    /\ UNCHANGED table

IsAvailable(p) ==
    /\ pc[p] = "read" /\ call[p].op = "IsAvailable"
    /\ Return(p, "ok")
    /\ UNCHANGED <<table, reply>>

\* GetOriginalURL only tells ErrNoRows from other outcomes: after another error
\* it returns the empty string and nil.  GetUserURLs returns an error of Query,
\* but wraps err, which is nil, when it is rows.Err() that is not.
ResultsOfFailure(op) ==
    CASE op = "GetOriginalURL" -> {"ok"}
      [] op = "GetUserURLs" -> {"error", "ok"}
      [] op = "IsAvailable" -> {"error"}

ReadFails(p) ==
    /\ Faults
    /\ pc[p] = "read"
    /\ \E result \in ResultsOfFailure(call[p].op) : Return(p, result)
    /\ UNCHANGED <<table, reply>>

\* The deferred conn.Release(), or the end of a handler that has panicked.
Release(p) ==
    /\ pc[p] \in {"release", "panic"}
    /\ pc' = [pc EXCEPT ![p] = "idle"]
    /\ call' = [call EXCEPT ![p] = NoCall]
    /\ answer' = [answer EXCEPT ![p] = "ok"]
    /\ reply' = [reply EXCEPT ![p] = {}]
    /\ before' = [before EXCEPT ![p] = EmptyMap]
    /\ UNCHANGED <<table, writes, i>>

-----------------------------------------------------------------------------
AddSteps(p) ==
    \/ InsertRow(p) \/ InsertEnd(p) \/ AddURLRefused(p) \/ AddURLsRefused(p)
    \/ LookupHit(p) \/ LookupMiss(p)

DeleteSteps(p) == UpdateRow(p) \/ UpdateNoRow(p) \/ UpdateEnd(p)

ReadSteps(p) == GetOriginalURL(p) \/ GetUserURLs(p) \/ IsAvailable(p)

Steps(p) ==
    \/ Acquire(p) \/ AddSteps(p) \/ DeleteSteps(p) \/ Commit(p) \/ ReadSteps(p)
    \/ DeadlockDetected(p) \/ Release(p)

Breaks(p) == AcquireFails(p) \/ StatementFails(p) \/ CommitFails(p) \/ ReadFails(p)

Next ==
    \E p \in Procs :
        \/ BeginAdd(p) \/ BeginDeleteUserURLs(p) \/ BeginRead(p)
        \/ Steps(p)
        \/ Breaks(p)

Spec == Init /\ [][Next]_vars

(***************************************************************************)
(* The pool serves Acquire in the order of the calls, and PostgreSQL the   *)
(* transactions that wait for a row: who can go on again and again, goes   *)
(* on.  No fault is ever due.                                              *)
(***************************************************************************)
FairSpec == Spec /\ \A p \in Procs : SF_vars(Steps(p))

-----------------------------------------------------------------------------
Answered(p, op, result) == pc[p] = "release" /\ call[p].op = op /\ answer[p] = result

Stored(pair, u) ==
    table[pair.ShortURL] \in {NewRecord(pair, u), Tombstone(NewRecord(pair, u))}

(***************************************************************************)
(* The table implements TransactionalURLStore, under concurrent calls, lost*)
(* connections and repeated short URLs: no row is unbound, rebound or      *)
(* revived, and no original URL has two short URLs.                        *)
(***************************************************************************)
Abstract == INSTANCE TransactionalURLStore WITH urls <- table

RefinesTransactionalURLStore == Abstract!Spec

(***************************************************************************)
(* AddURL and AddURLs tell the truth: nil means that every pair is stored  *)
(* for the caller; OriginalURLExistsError names the short URL the original *)
(* URL has, although the row is read after the transaction that met it.    *)
(***************************************************************************)
AddsAnswerTruly ==
    \A p \in Procs :
        /\ Answered(p, "AddURL", "ok") \/ Answered(p, "AddURLs", "ok") =>
            \A pair \in ToSet(call[p].pairs) : Stored(pair, call[p].userID)
        /\ Answered(p, "AddURL", "exists") =>
            \A pair \in reply[p] :
                /\ pair.ShortURL \in ShortURLsOf(table, pair.OriginalURL)
                /\ pair.OriginalURL = call[p].pairs[1].OriginalURL

(***************************************************************************)
(* DeleteUserURLs deletes what it says: when it returns nil, every URL of  *)
(* its list that was the caller's at the call is deleted, whatever else is *)
(* in the list and whoever updates the rows meanwhile.                     *)
(***************************************************************************)
DeleteTakesEffect ==
    \A p \in Procs :
        Answered(p, "DeleteUserURLs", "ok") =>
            \A s \in ToSet(call[p].shortURLs) \cap Bound(before[p]) :
                before[p][s].userID = call[p].userID => table[s].isDeleted

(***************************************************************************)
(* A call changes the table in one step, and that step is all of the call: *)
(* every pair of a batch, and of a deletion rows of the caller only.       *)
(***************************************************************************)
CommitsOf(p) ==
    IF Adds(call[p])
    THEN \A pair \in ToSet(call[p].pairs) :
            table'[pair.ShortURL] = NewRecord(pair, call[p].userID)
    ELSE \A s \in ShortURLs :
            table'[s] # table[s] => s \in Bound(table) /\ table[s].userID = call[p].userID

CallsAreAtomic ==
    [][table' # table => \E p \in Procs : pc[p] = "commit" /\ pc'[p] = "release" /\ CommitsOf(p)]_vars

(***************************************************************************)
(* Every call returns: nobody waits for a connection while the ones who    *)
(* have it wait for him, and no circle of transactions lasts.              *)
(***************************************************************************)
CallsReturn == \A p \in Procs : pc[p] # "idle" ~> pc[p] = "idle"

(***************************************************************************)
(* GetOriginalURL returns an original URL or an error: when the error is   *)
(* nil, the string is the original URL of a row.                           *)
(***************************************************************************)
GetOriginalURLAnswersTruly ==
    \A p \in Procs : Answered(p, "GetOriginalURL", "ok") => reply[p] # {}
=============================================================================
