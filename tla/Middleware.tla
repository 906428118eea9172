----------------------------- MODULE Middleware -----------------------------
(***************************************************************************)
(* internal/middleware/log.go and compress.go: what happens around the     *)
(* handler of a request.                                                   *)
(*                                                                         *)
(* ResponseLogger is outermost.  It keeps a log field for every method and *)
(* every status in two plain maps that all requests share; a map write     *)
(* that overlaps another access is a data race, which may end the process  *)
(* or lose the entry.  RequestDecoder unpacks the body.  ResponseEncoder   *)
(* takes a gzip writer from a pool, and its deferred calls close it and    *)
(* put it back, also when the handler panics.                              *)
(***************************************************************************)
EXTENDS SequencesExt

CONSTANTS Procs,     \* request goroutines
          Methods,   \* HTTP methods
          Statuses,  \* statuses the handlers answer
          Writers,   \* gzip writers
          None,      \* no writer, no request, no log line
          Faults     \* may a handler panic, or the client go away?

ASSUME FaultsIsBool == Faults \in BOOLEAN
ASSUME NoneIsNobody == None \notin Writers \cup Procs

VARIABLES pc,      \* where the goroutine is
          request, \* the request it serves, with the answer its handler will give
          wire,    \* what has been sent to its client
          seen,    \* responseData.status: what the logger has seen sent
          outcome, \* of the handler: it returns, meets a broken connection, panics
          writer,  \* the gzip writer it has taken from the pool
          target,  \* whose connection a gzip writer writes to
          pool,    \* gzip writers in the pool
          caches,  \* the keys of methodCache and statusCache
          log      \* the line the request has logged

encoding == <<writer, target, pool>>
vars == <<pc, request, wire, seen, outcome, encoding, caches, log>>

\* A bad body says it is packed and is not. A handler may announce the length
\* of its content.
Requests == [method : Methods, status : Statuses, accepts : {"gzip", "identity"},
             body : {"good", "bad"}, length : {"given", "none"}]

Encodes(r) == r.accepts = "gzip"

ASSUME NoneIsNoRequest == None \notin Requests

Caches == {"method", "status"}

Check(c) == IF c = "method" THEN "check method" ELSE "check status"
Write(c) == IF c = "method" THEN "write method" ELSE "write status"
Follows(c) == IF c = "method" THEN "check status" ELSE "line"

InLogger == {"check method", "check status", "write method", "write status", "line"}

\* responseData.status before a header is sent, and http.StatusInternalServerError.
NotSent == 0
InternalServerError == 500

Sendable == Statuses \cup {InternalServerError}

Answers == [status : Sendable \cup {NotSent}, length : {"given", "none"},
            body : Seq(Procs \X {"data", "trailer"})]

Lines == [method : Methods, status : Sendable]

TypeOK ==
    /\ pc \in [Procs -> {"idle", "header", "body", "close", "put", "done"} \cup InLogger]
    /\ request \in [Procs -> Requests \cup {None}]
    /\ wire \in [Procs -> Answers]
    /\ seen \in [Procs -> Sendable \cup {NotSent}]
    /\ outcome \in [Procs -> {"returns", "broken", "panics"}]
    /\ writer \in [Procs -> Writers \cup {None}]
    /\ target \in [Writers -> Procs \cup {None}]
    /\ pool \in SUBSET Writers
    /\ caches \in [method : SUBSET Methods, status : SUBSET Sendable]
    /\ log \in [Procs -> Lines \cup {None}]
    /\ \A p \in Procs :
        /\ pc[p] # "idle" <=> request[p] # None
        /\ writer[p] # None <=> /\ pc[p] \in {"header", "body", "close", "put"}
                                /\ Encodes(request[p])

Answer(status, length, body) == [status |-> status, length |-> length, body |-> body]

Silent == Answer(NotSent, "none", << >>)

\* No request has come; the maps are made when the router is.
Init ==
    /\ pc = [p \in Procs |-> "idle"]
    /\ request = [p \in Procs |-> None]
    /\ wire = [p \in Procs |-> Silent]
    /\ seen = [p \in Procs |-> NotSent]
    /\ outcome = [p \in Procs |-> "returns"]
    /\ writer = [p \in Procs |-> None]
    /\ target = [w \in Writers |-> None]
    /\ pool = {}
    /\ caches = [c \in Caches |-> {}]
    /\ log = [p \in Procs |-> None]

Goto(p, label) == pc' = [pc EXCEPT ![p] = label]

-----------------------------------------------------------------------------
(***************************************************************************)
(* A request comes in: the logger starts with a responseData of its own.   *)
(***************************************************************************)
Begin(p, r) ==
    /\ pc[p] = "idle"
    /\ request' = [request EXCEPT ![p] = r]
    /\ UNCHANGED <<caches, log, outcome>>

\* RequestDecoder: newGzipRequestReader fails.
Reject(p) ==
    /\ \E r \in Requests : r.body = "bad" /\ Begin(p, r)
    /\ wire' = [wire EXCEPT ![p] = Answer(InternalServerError, @.length, @.body)]
    /\ seen' = [seen EXCEPT ![p] = InternalServerError]
    /\ Goto(p, Check("method"))
    /\ UNCHANGED encoding

Plain(p) ==
    /\ \E r \in Requests : r.body = "good" /\ ~Encodes(r) /\ Begin(p, r)
    /\ Goto(p, "header")
    /\ UNCHANGED <<wire, seen, encoding>>

\* ResponseEncoder: Get yields a writer of the pool, or a new one; Reset.
Encode(p) ==
    /\ \E r \in Requests : r.body = "good" /\ Encodes(r) /\ Begin(p, r)
    /\ \E w \in pool \cup (Writers \ Range(writer)) :
        /\ writer' = [writer EXCEPT ![p] = w]
        /\ target' = [target EXCEPT ![w] = p]
        /\ pool' = pool \ {w}
    /\ Goto(p, "header")
    /\ UNCHANGED <<wire, seen>>

\* The garbage collector may empty the pool.
Collect ==
    /\ pool # {}
    /\ pool' = {}
    /\ UNCHANGED <<pc, request, wire, seen, outcome, writer, target, caches, log>>

-----------------------------------------------------------------------------
(***************************************************************************)
(* The handler: WriteHeader of both wrappers, then Write.                  *)
(***************************************************************************)
LengthSent(r) == IF Encodes(r) THEN "none" ELSE r.length

\* Mutant: all requests share one responseData.
Sees_Shared(p, status) == seen' = [q \in Procs |-> status]

Sees(p, status) == seen' = [seen EXCEPT ![p] = status]

WriteHeader(p) ==
    /\ pc[p] = "header"
    /\ wire' = [wire EXCEPT ![p] = Answer(request[p].status, LengthSent(request[p]), @.body)]
    /\ Sees(p, request[p].status)
    /\ Goto(p, "body")
    /\ UNCHANGED <<request, outcome, encoding, caches, log>>

\* Mutant: the deferred calls run in the order in which they are written.
Deferred_AsWritten == <<"put", "close">>

\* The deferred calls of ResponseEncoder run last to first.
Deferred == <<"close", "put">>

\* A panic goes past the logger; it ends in net/http.
AfterHandler(o) == IF o = "panics" THEN "done" ELSE Check("method")

\* Mutant: Close and Put are plain calls after the handler's.
Leave_NoDefer(p, o) ==
    /\ outcome' = [outcome EXCEPT ![p] = o]
    /\ Goto(p, IF Encodes(request[p]) /\ o # "panics" THEN Deferred[1] ELSE AfterHandler(o))

\* The handler is left: to the deferred calls if there are any.
Leave(p, o) ==
    /\ outcome' = [outcome EXCEPT ![p] = o]
    /\ Goto(p, IF Encodes(request[p]) THEN Deferred[1] ELSE AfterHandler(o))

Sends(q, part) ==
    wire' = [wire EXCEPT ![q] = Answer(@.status, @.length, Append(@.body, part))]

WriteBody(p) ==
    /\ pc[p] = "body"
    /\ Sends(IF Encodes(request[p]) THEN target[writer[p]] ELSE p, <<p, "data">>)
    /\ Leave(p, "returns")
    /\ UNCHANGED <<request, seen, encoding, caches, log>>

\* The client is gone: the handler answers 500, too late to be sent.
WriteFails(p) ==
    /\ Faults
    /\ pc[p] = "body"
    /\ Sees(p, InternalServerError)
    /\ Leave(p, "broken")
    /\ UNCHANGED <<request, wire, encoding, caches, log>>

Panic(p) ==
    /\ Faults
    /\ pc[p] \in {"header", "body"}
    /\ Leave(p, "panics")
    /\ UNCHANGED <<request, wire, seen, encoding, caches, log>>

\* The next deferred call, or the end of ResponseEncoder.
NextDeferred(p, label) ==
    IF label = Deferred[1]
    THEN Goto(p, Deferred[2]) /\ UNCHANGED writer
    ELSE Goto(p, AfterHandler(outcome[p])) /\ writer' = [writer EXCEPT ![p] = None]

\* gz.Close() writes what is left, to whom the writer writes now.
Close(p) ==
    /\ pc[p] = "close"
    /\ Sends(target[writer[p]], <<p, "trailer">>)
    /\ NextDeferred(p, "close")
    /\ UNCHANGED <<request, seen, outcome, target, pool, caches, log>>

Put(p) ==
    /\ pc[p] = "put"
    /\ pool' = pool \cup {writer[p]}
    /\ NextDeferred(p, "put")
    /\ UNCHANGED <<request, wire, seen, outcome, target, caches, log>>

-----------------------------------------------------------------------------
(***************************************************************************)
(* ResponseLogger after the handler: each map is looked up and, if need    *)
(* be, written, then both are read for the line.  No lock is held.         *)
(***************************************************************************)
Key(p, c) == IF c = "method" THEN request[p].method ELSE seen[p]

\* Another request is writing the map.
Overlaps(p, c) == \E q \in Procs \ {p} : pc[q] = Write(c)

\* Mutant: the fields are written without being looked up.
Misses_Always(p, c) == TRUE

\* A lookup under a write may miss what is there.
Misses(p, c) == Key(p, c) \notin caches[c] \/ Overlaps(p, c)

LookUp(p, c) ==
    /\ pc[p] = Check(c)
    /\ \/ Key(p, c) \in caches[c] /\ Goto(p, Follows(c))
       \/ Misses(p, c) /\ Goto(p, Write(c))
    /\ UNCHANGED <<request, wire, seen, outcome, encoding, caches, log>>

\* One of two writes at once may be lost.
Store(p, c) ==
    /\ pc[p] = Write(c)
    /\ \/ caches' = [caches EXCEPT ![c] = @ \cup {Key(p, c)}]
       \/ Overlaps(p, c) /\ UNCHANGED caches
    /\ Goto(p, Follows(c))
    /\ UNCHANGED <<request, wire, seen, outcome, encoding, log>>

\* A field that is not in its map is a zero zap.Field: the logger panics.
Log(p) ==
    /\ pc[p] = "line"
    /\ \/ /\ \A c \in Caches : Key(p, c) \in caches[c]
          /\ log' = [log EXCEPT ![p] = [method |-> request[p].method, status |-> seen[p]]]
       \/ /\ \E c \in Caches : Misses(p, c)
          /\ UNCHANGED log
    /\ Goto(p, "done")
    /\ UNCHANGED <<request, wire, seen, outcome, encoding, caches>>

\* The goroutine is done with its request.
End(p) ==
    /\ pc[p] = "done"
    /\ Goto(p, "idle")
    /\ request' = [request EXCEPT ![p] = None]
    /\ wire' = [wire EXCEPT ![p] = Silent]
    /\ seen' = [seen EXCEPT ![p] = NotSent]
    /\ outcome' = [outcome EXCEPT ![p] = "returns"]
    /\ log' = [log EXCEPT ![p] = None]
    /\ UNCHANGED <<encoding, caches>>

\* "fatal error: concurrent map writes": the process ends, and a new one starts.
Crash(p) ==
    /\ \E c \in Caches : pc[p] \in {Check(c), Write(c), "line"} /\ Overlaps(p, c)
    /\ pc' = [q \in Procs |-> "idle"]
    /\ request' = [q \in Procs |-> None]
    /\ wire' = [q \in Procs |-> Silent]
    /\ seen' = [q \in Procs |-> NotSent]
    /\ outcome' = [q \in Procs |-> "returns"]
    /\ writer' = [q \in Procs |-> None]
    /\ target' = [w \in Writers |-> None]
    /\ pool' = {}
    /\ caches' = [c \in Caches |-> {}]
    /\ log' = [q \in Procs |-> None]

Next ==
    \/ \E p \in Procs :
        \/ Reject(p) \/ Plain(p) \/ Encode(p)
        \/ WriteHeader(p) \/ WriteBody(p) \/ WriteFails(p) \/ Panic(p)
        \/ Close(p) \/ Put(p)
        \/ \E c \in Caches : LookUp(p, c) \/ Store(p, c)
        \/ Log(p) \/ End(p) \/ Crash(p)
    \/ Collect

Spec == Init /\ [][Next]_vars

-----------------------------------------------------------------------------
(***************************************************************************)
(* A client whose handler has returned has the whole answer and nothing of *)
(* any other, however the gzip writers go round: its own data and then the *)
(* trailer of its own writer, and no length but that of what was sent.     *)
(***************************************************************************)
ResponsesAreWhole ==
    \A p \in Procs :
        pc[p] \in InLogger \cup {"done"} /\ outcome[p] = "returns" /\ request[p].body = "good" =>
            IF Encodes(request[p])
            THEN wire[p].body = <<<<p, "data">>, <<p, "trailer">>>> /\ wire[p].length = "none"
            ELSE wire[p].body = <<<<p, "data">>>>

(***************************************************************************)
(* A line in the log tells the method of its request and the status the    *)
(* client was sent, also when others log at the same time, or, where       *)
(* writing the body failed, the 500 the handler answered too late: only    *)
(* the logger sees it.                                                     *)
(***************************************************************************)
LogLinesAreTrue ==
    \A p \in Procs : log[p] # None =>
        /\ log[p].method = request[p].method
        /\ log[p].status = IF outcome[p] = "broken" THEN InternalServerError
                            ELSE wire[p].status

(***************************************************************************)
(* Only the first requests of a kind can bring the process down: once      *)
(* every method and status has its field and no write is under way, the    *)
(* maps are read only and no race is left.                                 *)
(***************************************************************************)
Warm ==
    /\ Methods \subseteq caches["method"]
    /\ Sendable \subseteq caches["status"]
    /\ \A p \in Procs : pc[p] \notin {"write method", "write status"}

WarmCachesAreSafe == [][Warm => Warm']_vars
=============================================================================
