--------------------------- MODULE MiddlewareProofs ---------------------------
(***************************************************************************)
(* Proofs about Middleware, for any number of requests at a time, of gzip  *)
(* writers, methods and statuses.                                          *)
(***************************************************************************)
EXTENDS Middleware, SequenceTheorems, TLAPS

Labels == {"idle", "header", "body", "close", "put", "done"} \cup InLogger

Shape ==
    /\ pc \in [Procs -> Labels]
    /\ request \in [Procs -> Requests \cup {None}]
    /\ wire \in [Procs -> Answers]
    /\ seen \in [Procs -> Sendable \cup {NotSent}]
    /\ outcome \in [Procs -> {"returns", "broken", "panics"}]
    /\ writer \in [Procs -> Writers \cup {None}]
    /\ target \in [Writers -> Procs \cup {None}]
    /\ pool \in SUBSET Writers
    /\ caches \in [method : SUBSET Methods, status : SUBSET Sendable]
    /\ log \in [Procs -> Lines \cup {None}]

(***************************************************************************)
(* A writer that is taken is not in the pool and writes to who took it:    *)
(* so no two requests have the same.                                       *)
(***************************************************************************)
WriterInv ==
    \A p \in Procs : writer[p] # None => writer[p] \notin pool /\ target[writer[p]] = p

Serving(p) ==
    /\ pc[p] # "idle" <=> request[p] # None
    /\ writer[p] # None <=> /\ pc[p] \in {"header", "body", "close", "put"}
                            /\ Encodes(request[p])

\* What a client has received, by the place of its request.
Data(p) == <<<<p, "data">>>>

Whole(p) == <<<<p, "data">>, <<p, "trailer">>>>

Received(p) ==
    /\ pc[p] \in {"idle", "header", "body"} => wire[p].body = << >>
    /\ pc[p] \in {"close", "put"} => Encodes(request[p])
    /\ pc[p] = "idle" => wire[p].length = "none"
    /\ request[p] # None /\ Encodes(request[p]) => wire[p].length = "none"
    /\ outcome[p] = "returns" =>
        /\ pc[p] = "close" => wire[p].body = Data(p)
        /\ pc[p] = "put" => wire[p].body = Whole(p)
        /\ pc[p] \in InLogger \cup {"done"} /\ request[p].body = "good" =>
            wire[p].body = IF Encodes(request[p]) THEN Whole(p) ELSE Data(p)

(***************************************************************************)
(* The logger has seen what was sent, unless the handler could not write.  *)
(***************************************************************************)
Observed(p) ==
    /\ pc[p] \in {"idle", "header", "body"} => outcome[p] = "returns"
    /\ pc[p] \in InLogger => outcome[p] # "panics"
    /\ outcome[p] = "returns" => seen[p] = wire[p].status
    /\ outcome[p] = "broken" => seen[p] = InternalServerError
    /\ pc[p] = "body" => seen[p] \in Sendable
    /\ pc[p] \in InLogger \cup {"close", "put"} /\ outcome[p] # "panics" => seen[p] \in Sendable
    /\ log[p] # None => /\ pc[p] = "done" /\ outcome[p] # "panics"
                        /\ log[p].method = request[p].method
                        /\ log[p].status = seen[p]

Local(p) == Serving(p) /\ Received(p) /\ Observed(p)

MiddlewareInv == Shape /\ WriterInv /\ \A p \in Procs : Local(p)

LEMMA TypeIsShape == TypeOK <=> Shape /\ \A p \in Procs : Serving(p)
  BY DEF TypeOK, Shape, Serving, Labels

LEMMA MiddlewareInit == Init => MiddlewareInv
<1> SUFFICES ASSUME Init PROVE MiddlewareInv
  OBVIOUS
<1>1. Silent \in Answers
  BY DEF Silent, Answer, Answers
<1>2. Shape
  BY <1>1 DEF Caches, Init, Shape, Labels
<1>3. WriterInv
  BY DEF Init, WriterInv
<1>4. \A p \in Procs : Local(p)
  BY DEF Init, Local, Serving, Received, Observed, Silent, Answer, InLogger
<1> QED
  BY <1>2, <1>3, <1>4 DEF MiddlewareInv

\* Nothing of the request q changes.
Same(q) ==
    /\ pc'[q] = pc[q] /\ request'[q] = request[q] /\ wire'[q] = wire[q]
    /\ seen'[q] = seen[q] /\ outcome'[q] = outcome[q] /\ writer'[q] = writer[q]
    /\ log'[q] = log[q]

\* A step of one request keeps the invariant if it keeps the request's own part.
LEMMA OneSteps ==
  ASSUME MiddlewareInv, NEW p \in Procs, \A q \in Procs \ {p} : Same(q),
         Shape', WriterInv', Local(p)'
  PROVE  MiddlewareInv'
<1>1. ASSUME NEW q \in Procs, q # p
      PROVE  Local(q)'
  <2>1. Local(q) /\ Same(q)
    BY <1>1 DEF MiddlewareInv
  <2>2. Serving(q)'
    BY <2>1 DEF Local, Same, Serving
  <2>3. Received(q)'
    BY <2>1 DEF Local, Same, Received
  <2>4. Observed(q)'
    BY <2>1 DEF Local, Same, Observed
  <2> QED
    BY <2>2, <2>3, <2>4 DEF Local
<1> QED
  BY <1>1 DEF MiddlewareInv

-----------------------------------------------------------------------------
\* A request comes in.
LEMMA RejectPreserves ==
  ASSUME MiddlewareInv, NEW p \in Procs, Reject(p)
  PROVE  MiddlewareInv'
<1>1. PICK r \in Requests : r.body = "bad" /\ Begin(p, r)
  BY DEF Reject
<1> DEFINE a == Answer(InternalServerError, wire[p].length, wire[p].body)
<1>2. /\ pc[p] = "idle"
      /\ pc' = [pc EXCEPT ![p] = "check method"]
      /\ request' = [request EXCEPT ![p] = r]
      /\ wire' = [wire EXCEPT ![p] = a]
      /\ seen' = [seen EXCEPT ![p] = InternalServerError]
      /\ UNCHANGED <<outcome, writer, target, pool, caches, log>>
  BY <1>1 DEF Begin, Reject, Goto, Check, encoding
<1>3. Shape /\ WriterInv /\ Local(p) /\ r # None /\ InternalServerError \in Sendable
  BY NoneIsNoRequest DEF MiddlewareInv, Sendable
<1>4. a \in Answers /\ a.status = InternalServerError /\ a.length = wire[p].length /\ a.body = wire[p].body
  BY <1>3 DEF Shape, Answer, Answers
<1> HIDE DEF a
<1>5. Shape'
  BY <1>2, <1>3, <1>4 DEF Shape, Labels, InLogger
<1>6. WriterInv'
  BY <1>2, <1>3 DEF WriterInv
<1>7. Local(p)'
  BY <1>1, <1>2, <1>3, <1>4 DEF Shape, Local, Serving, Received, Observed, InLogger
<1>8. \A q \in Procs \ {p} : Same(q)
  BY <1>2, <1>3 DEF Shape, Same
<1> QED
  BY <1>5, <1>6, <1>7, <1>8, OneSteps

LEMMA PlainPreserves ==
  ASSUME MiddlewareInv, NEW p \in Procs, Plain(p)
  PROVE  MiddlewareInv'
<1>1. PICK r \in Requests : r.body = "good" /\ ~Encodes(r) /\ Begin(p, r)
  BY DEF Plain
<1>2. /\ pc[p] = "idle"
      /\ pc' = [pc EXCEPT ![p] = "header"]
      /\ request' = [request EXCEPT ![p] = r]
      /\ UNCHANGED <<wire, seen, outcome, writer, target, pool, caches, log>>
  BY <1>1 DEF Begin, Plain, Goto, encoding
<1>3. Shape /\ WriterInv /\ Local(p) /\ r # None
  BY NoneIsNoRequest DEF MiddlewareInv
<1>4. Shape'
  BY <1>2, <1>3 DEF Shape, Labels
<1>5. WriterInv'
  BY <1>2, <1>3 DEF WriterInv
<1>6. Local(p)'
  BY <1>1, <1>2, <1>3 DEF Shape, Local, Serving, Received, Observed, InLogger
<1>7. \A q \in Procs \ {p} : Same(q)
  BY <1>2, <1>3 DEF Shape, Same
<1> QED
  BY <1>4, <1>5, <1>6, <1>7, OneSteps

LEMMA EncodePreserves ==
  ASSUME MiddlewareInv, NEW p \in Procs, Encode(p)
  PROVE  MiddlewareInv'
<1>1. PICK r \in Requests : r.body = "good" /\ Encodes(r) /\ Begin(p, r)
  BY DEF Encode
<1>2. PICK w \in pool \cup (Writers \ Range(writer)) :
          /\ writer' = [writer EXCEPT ![p] = w]
          /\ target' = [target EXCEPT ![w] = p]
          /\ pool' = pool \ {w}
  BY DEF Encode
<1>3. /\ pc[p] = "idle"
      /\ pc' = [pc EXCEPT ![p] = "header"]
      /\ request' = [request EXCEPT ![p] = r]
      /\ UNCHANGED <<wire, seen, outcome, caches, log>>
  BY <1>1 DEF Begin, Encode, Goto
<1>4. Shape /\ WriterInv /\ Local(p) /\ r # None
  BY NoneIsNoRequest DEF MiddlewareInv
<1>5. w \in Writers /\ w # None /\ \A q \in Procs : writer[q] # w
  BY <1>4, NoneIsNobody DEF Shape, WriterInv, Range
<1>6. Shape'
  BY <1>2, <1>3, <1>4, <1>5 DEF Shape, Labels
<1>7. WriterInv'
  BY <1>2, <1>4, <1>5 DEF Shape, WriterInv
<1>8. Local(p)'
  BY <1>1, <1>2, <1>3, <1>4, <1>5 DEF Shape, Local, Serving, Received, Observed, InLogger
<1>9. \A q \in Procs \ {p} : Same(q)
  BY <1>2, <1>3, <1>4 DEF Shape, Same
<1> QED
  BY <1>6, <1>7, <1>8, <1>9, OneSteps

LEMMA CollectPreserves ==
  ASSUME MiddlewareInv, Collect
  PROVE  MiddlewareInv'
<1>1. Shape' /\ WriterInv'
  BY DEF MiddlewareInv, Collect, Shape, WriterInv
<1>2. ASSUME NEW q \in Procs PROVE Local(q)'
  BY <1>2 DEF MiddlewareInv, Collect, Local, Serving, Received, Observed
<1> QED
  BY <1>1, <1>2 DEF MiddlewareInv

-----------------------------------------------------------------------------
\* The handler and the deferred calls.
LEMMA WriteHeaderPreserves ==
  ASSUME MiddlewareInv, NEW p \in Procs, WriteHeader(p)
  PROVE  MiddlewareInv'
<1> DEFINE r == request[p]
           a == Answer(r.status, LengthSent(r), wire[p].body)
<1>1. /\ pc[p] = "header"
      /\ pc' = [pc EXCEPT ![p] = "body"]
      /\ wire' = [wire EXCEPT ![p] = a]
      /\ seen' = [seen EXCEPT ![p] = r.status]
      /\ UNCHANGED <<request, outcome, writer, target, pool, caches, log>>
  BY DEF WriteHeader, Goto, Sees, encoding
<1>2. Shape /\ WriterInv /\ Local(p)
  BY DEF MiddlewareInv
<1>3. r \in Requests
  BY <1>1, <1>2 DEF Shape, Local, Serving
<1>4. r.status \in Sendable /\ LengthSent(r) \in {"given", "none"}
  BY <1>3 DEF Sendable, Requests, LengthSent
<1>5. /\ a \in Answers /\ a.status = r.status /\ a.body = wire[p].body
      /\ Encodes(r) => a.length = "none"
  BY <1>2, <1>4 DEF Shape, Answer, Answers, LengthSent
<1> HIDE DEF a
<1>6. Shape'
  BY <1>1, <1>2, <1>4, <1>5 DEF Shape, Labels
<1>7. WriterInv'
  BY <1>1, <1>2 DEF WriterInv
<1>8. Local(p)'
  BY <1>1, <1>2, <1>4, <1>5 DEF Shape, Local, Serving, Received, Observed, InLogger
<1>9. \A q \in Procs \ {p} : Same(q)
  BY <1>1, <1>2 DEF Shape, Same
<1> QED
  BY <1>6, <1>7, <1>8, <1>9, OneSteps

\* A part that is sent goes to the end of the body, and leaves the rest.
LEMMA SendsAppends ==
  ASSUME Shape, NEW p \in Procs, NEW kind \in {"data", "trailer"}, Sends(p, <<p, kind>>)
  PROVE  \E a \in Answers :
            /\ wire' = [wire EXCEPT ![p] = a]
            /\ a.status = wire[p].status /\ a.length = wire[p].length
            /\ a.body = Append(wire[p].body, <<p, kind>>)
<1> DEFINE a == Answer(wire[p].status, wire[p].length, Append(wire[p].body, <<p, kind>>))
<1>1. wire[p] \in Answers
  BY DEF Shape
<1>2. wire[p].body \in Seq(Procs \X {"data", "trailer"})
  BY <1>1 DEF Answers
<1>3. Append(wire[p].body, <<p, kind>>) \in Seq(Procs \X {"data", "trailer"})
  BY <1>2
<1>4. a \in Answers
  BY <1>1, <1>3 DEF Answer, Answers
<1>5. wire' = [wire EXCEPT ![p] = a]
  BY DEF Sends
<1> QED
  BY <1>4, <1>5 DEF Answer

\* What a request sends reaches its own client, also through a gzip writer.
LEMMA WritesToItself ==
  ASSUME WriterInv, Shape, NEW p \in Procs, Serving(p), pc[p] \in {"body", "close"},
         Encodes(request[p])
  PROVE  writer[p] \in Writers /\ target[writer[p]] = p
  BY DEF Shape, WriterInv, Serving

\* A sequence of one, and another behind it.
LEMMA AppendToOne ==
  ASSUME NEW S, NEW x \in S, NEW y \in S
  PROVE  Append(<<x>>, y) = <<x, y>>
<1> DEFINE t == <<x, y>>
<1>1. ASSUME NEW s \in Seq(S), Len(s) = 1, s[1] = x
      PROVE  Append(s, y) = t
  <2>1. Append(s, y) \in Seq(S) /\ Len(Append(s, y)) = Len(s) + 1
    BY AppendProperties
  <2>2. Append(s, y)[1] = x
    BY <1>1, AppendProperties
  <2>3. Append(s, y)[Len(s) + 1] = y
    BY AppendProperties
  <2>4. Append(s, y)[2] = y
    BY <1>1, <2>3
  <2>5. t \in Seq(S) /\ Len(t) = 2 /\ t[1] = x /\ t[2] = y
    OBVIOUS
  <2> HIDE DEF t
  <2> DEFINE u == Append(s, y)
  <2>6. u \in Seq(S) /\ Len(u) = 2 /\ u[1] = x /\ u[2] = y
    BY <1>1, <2>1, <2>2, <2>4
  <2> HIDE DEF u
  <2>7. Len(u) = Len(t) /\ \A i \in 1..Len(u) : u[i] = t[i]
    BY <2>5, <2>6
  <2>8. u = t
    BY <2>5, <2>6, <2>7, SeqEqual
  <2> QED
    BY <2>8 DEF u
<1>2. <<x>> \in Seq(S) /\ Len(<<x>>) = 1 /\ <<x>>[1] = x
  OBVIOUS
<1> QED
  BY <1>1, <1>2

\* The two parts of a compressed answer, one after the other.
LEMMA PartsAppend ==
  ASSUME NEW p
  PROVE  /\ Append(<< >>, <<p, "data">>) = Data(p)
         /\ Append(Data(p), <<p, "trailer">>) = Whole(p)
<1> DEFINE x == <<p, "data">>
           y == <<p, "trailer">>
           S == {x, y}
<1>1. x \in S /\ y \in S
  OBVIOUS
<1> HIDE DEF x, y, S
<1>2. Append(<< >>, x) = <<x>>
  OBVIOUS
<1>3. Append(<<x>>, y) = <<x, y>>
  BY <1>1, AppendToOne
<1> QED
  BY <1>2, <1>3 DEF x, y, Data, Whole

LEMMA WriteBodyPreserves ==
  ASSUME MiddlewareInv, NEW p \in Procs, WriteBody(p)
  PROVE  MiddlewareInv'
<1>1. /\ pc[p] = "body" /\ Leave(p, "returns")
      /\ UNCHANGED <<request, seen, writer, target, pool, caches, log>>
  BY DEF WriteBody, encoding
<1>2. Shape /\ WriterInv /\ Local(p)
  BY DEF MiddlewareInv
<1>3. Sends(p, <<p, "data">>)
  BY <1>1, <1>2, WritesToItself DEF WriteBody, Local
<1>4. PICK a \in Answers :
        /\ wire' = [wire EXCEPT ![p] = a]
        /\ a.status = wire[p].status /\ a.length = wire[p].length
        /\ a.body = Append(wire[p].body, <<p, "data">>)
  BY <1>2, <1>3, SendsAppends
<1>5. a.body = Data(p)
  <2>1. wire[p].body = << >>
    BY <1>1, <1>2 DEF Local, Received
  <2> QED
    BY <1>4, <2>1, PartsAppend
<1>6. /\ outcome' = [outcome EXCEPT ![p] = "returns"]
      /\ Encodes(request[p]) => pc' = [pc EXCEPT ![p] = "close"]
      /\ ~Encodes(request[p]) => pc' = [pc EXCEPT ![p] = "check method"]
  BY <1>1 DEF Leave, Goto, Deferred, AfterHandler, Check
<1>7. Shape'
  BY <1>1, <1>2, <1>4, <1>6 DEF Shape, Labels, InLogger
<1>8. WriterInv'
  BY <1>1, <1>2 DEF WriterInv
<1>9. Local(p)'
  <2>1. Serving(p)'
    BY <1>1, <1>2, <1>6 DEF Shape, Local, Serving
  <2>2. Received(p)'
    BY <1>1, <1>2, <1>4, <1>5, <1>6 DEF Shape, Local, Received, InLogger
  <2>3. Observed(p)'
    BY <1>1, <1>2, <1>4, <1>6 DEF Shape, Local, Observed, InLogger
  <2> QED
    BY <2>1, <2>2, <2>3 DEF Local
<1>10. \A q \in Procs \ {p} : Same(q)
  BY <1>1, <1>2, <1>4, <1>6 DEF Shape, Same
<1> QED
  BY <1>7, <1>8, <1>9, <1>10, OneSteps

LEMMA WriteFailsPreserves ==
  ASSUME MiddlewareInv, NEW p \in Procs, WriteFails(p)
  PROVE  MiddlewareInv'
<1>1. /\ pc[p] = "body" /\ Leave(p, "broken")
      /\ seen' = [seen EXCEPT ![p] = InternalServerError]
      /\ UNCHANGED <<request, wire, writer, target, pool, caches, log>>
  BY DEF WriteFails, Sees, encoding
<1>2. Shape /\ WriterInv /\ Local(p) /\ InternalServerError \in Sendable
  BY DEF MiddlewareInv, Sendable
<1>3. /\ outcome' = [outcome EXCEPT ![p] = "broken"]
      /\ Encodes(request[p]) => pc' = [pc EXCEPT ![p] = "close"]
      /\ ~Encodes(request[p]) => pc' = [pc EXCEPT ![p] = "check method"]
  BY <1>1 DEF Leave, Goto, Deferred, AfterHandler, Check
<1>4. Shape'
  BY <1>1, <1>2, <1>3 DEF Shape, Labels, InLogger
<1>5. WriterInv'
  BY <1>1, <1>2 DEF WriterInv
<1>6. Local(p)'
  BY <1>1, <1>2, <1>3 DEF Shape, Local, Serving, Received, Observed, InLogger
<1>7. \A q \in Procs \ {p} : Same(q)
  BY <1>1, <1>2, <1>3 DEF Shape, Same
<1> QED
  BY <1>4, <1>5, <1>6, <1>7, OneSteps

LEMMA PanicPreserves ==
  ASSUME MiddlewareInv, NEW p \in Procs, Panic(p)
  PROVE  MiddlewareInv'
<1>1. /\ pc[p] \in {"header", "body"} /\ Leave(p, "panics")
      /\ UNCHANGED <<request, wire, seen, writer, target, pool, caches, log>>
  BY DEF Panic, encoding
<1>2. Shape /\ WriterInv /\ Local(p)
  BY DEF MiddlewareInv
<1>3. /\ outcome' = [outcome EXCEPT ![p] = "panics"]
      /\ Encodes(request[p]) => pc' = [pc EXCEPT ![p] = "close"]
      /\ ~Encodes(request[p]) => pc' = [pc EXCEPT ![p] = "done"]
  BY <1>1 DEF Leave, Goto, Deferred, AfterHandler, Check
<1>4. Shape'
  BY <1>1, <1>2, <1>3 DEF Shape, Labels
<1>5. WriterInv'
  BY <1>1, <1>2 DEF WriterInv
<1>6. Local(p)'
  BY <1>1, <1>2, <1>3 DEF Shape, Local, Serving, Received, Observed, InLogger
<1>7. \A q \in Procs \ {p} : Same(q)
  BY <1>1, <1>2, <1>3 DEF Shape, Same
<1> QED
  BY <1>4, <1>5, <1>6, <1>7, OneSteps

LEMMA ClosePreserves ==
  ASSUME MiddlewareInv, NEW p \in Procs, Close(p)
  PROVE  MiddlewareInv'
<1>1. /\ pc[p] = "close"
      /\ pc' = [pc EXCEPT ![p] = "put"]
      /\ UNCHANGED <<request, seen, outcome, writer, target, pool, caches, log>>
  BY DEF Close, NextDeferred, Deferred, Goto
<1>2. Shape /\ WriterInv /\ Local(p)
  BY DEF MiddlewareInv
<1>3. target[writer[p]] = p
  BY <1>1, <1>2, WritesToItself DEF Local, Received
<1>4. Sends(p, <<p, "trailer">>)
  BY <1>3 DEF Close
<1>5. PICK a \in Answers :
        /\ wire' = [wire EXCEPT ![p] = a]
        /\ a.status = wire[p].status /\ a.length = wire[p].length
        /\ a.body = Append(wire[p].body, <<p, "trailer">>)
  BY <1>2, <1>4, SendsAppends
<1>6. outcome[p] = "returns" => a.body = Whole(p)
  <2>1. outcome[p] = "returns" => wire[p].body = Data(p)
    BY <1>1, <1>2 DEF Local, Received
  <2> QED
    BY <1>5, <2>1, PartsAppend
<1>7. Shape'
  BY <1>1, <1>2, <1>5 DEF Shape, Labels
<1>8. WriterInv'
  BY <1>1, <1>2 DEF WriterInv
<1>9. Local(p)'
  <2>1. Serving(p)'
    BY <1>1, <1>2 DEF Shape, Local, Serving
  <2>2. Received(p)'
    BY <1>1, <1>2, <1>5, <1>6 DEF Shape, Local, Received, InLogger
  <2>3. Observed(p)'
    BY <1>1, <1>2, <1>5 DEF Shape, Local, Observed, InLogger
  <2> QED
    BY <2>1, <2>2, <2>3 DEF Local
<1>10. \A q \in Procs \ {p} : Same(q)
  BY <1>1, <1>2, <1>5 DEF Shape, Same
<1> QED
  BY <1>7, <1>8, <1>9, <1>10, OneSteps

LEMMA PutPreserves ==
  ASSUME MiddlewareInv, NEW p \in Procs, Put(p)
  PROVE  MiddlewareInv'
<1>1. /\ pc[p] = "put"
      /\ outcome[p] = "panics" => pc' = [pc EXCEPT ![p] = "done"]
      /\ outcome[p] # "panics" => pc' = [pc EXCEPT ![p] = "check method"]
      /\ writer' = [writer EXCEPT ![p] = None]
      /\ pool' = pool \cup {writer[p]}
      /\ UNCHANGED <<request, wire, seen, outcome, target, caches, log>>
  BY DEF Put, NextDeferred, Deferred, AfterHandler, Goto, Check
<1>2. Shape /\ WriterInv /\ Local(p)
  BY DEF MiddlewareInv
<1>3. writer[p] # None /\ writer[p] \in Writers
  BY <1>1, <1>2 DEF Shape, Local, Serving, Received
<1>4. Shape'
  BY <1>1, <1>2, <1>3 DEF Shape, Labels, InLogger
<1>5. WriterInv'
  <2> SUFFICES ASSUME NEW q \in Procs, writer'[q] # None
               PROVE  writer'[q] \notin pool' /\ target'[writer'[q]] = q
    BY DEF WriterInv
  <2>1. q # p /\ writer'[q] = writer[q]
    BY <1>1, <1>2 DEF Shape
  <2>2. writer[q] \notin pool /\ target[writer[q]] = q /\ target[writer[p]] = p
    BY <1>2, <1>3, <2>1 DEF WriterInv
  <2>3. pool' = pool \cup {writer[p]} /\ target' = target
    BY <1>1
  <2> QED
    BY <2>1, <2>2, <2>3
<1>6. Local(p)'
  BY <1>1, <1>2 DEF Shape, Local, Serving, Received, Observed, InLogger
<1>7. \A q \in Procs \ {p} : Same(q)
  BY <1>1, <1>2 DEF Shape, Same
<1> QED
  BY <1>4, <1>5, <1>6, <1>7, OneSteps

-----------------------------------------------------------------------------
\* The logger, and the end of a request.
\* A step of a request in the logger that only moves it keeps its own part.
LEMMA MovesInLogger ==
  ASSUME MiddlewareInv, NEW p \in Procs, pc[p] \in InLogger, NEW label \in InLogger,
         pc' = [pc EXCEPT ![p] = label],
         caches' \in [method : SUBSET Methods, status : SUBSET Sendable],
         UNCHANGED <<request, wire, seen, outcome, writer, target, pool, log>>
  PROVE  MiddlewareInv'
<1>1. Shape /\ WriterInv /\ Local(p)
  BY DEF MiddlewareInv
<1>2. Shape'
  BY <1>1 DEF Shape, Labels
<1>3. WriterInv'
  BY <1>1 DEF WriterInv
<1>4. Local(p)'
  BY <1>1 DEF Shape, Local, Serving, Received, Observed, InLogger
<1>5. \A q \in Procs \ {p} : Same(q)
  BY <1>1 DEF Shape, Same
<1> QED
  BY <1>2, <1>3, <1>4, <1>5, OneSteps

LEMMA LookUpPreserves ==
  ASSUME MiddlewareInv, NEW p \in Procs, NEW c \in Caches, LookUp(p, c)
  PROVE  MiddlewareInv'
<1>1. caches' \in [method : SUBSET Methods, status : SUBSET Sendable]
  BY DEF LookUp, MiddlewareInv, Shape
<1>2. PICK label \in InLogger : pc' = [pc EXCEPT ![p] = label]
  BY DEF LookUp, Goto, Follows, Write, InLogger
<1>3. /\ pc[p] \in InLogger
      /\ UNCHANGED <<request, wire, seen, outcome, writer, target, pool, log>>
  BY DEF LookUp, Check, InLogger, encoding
<1> QED
  BY <1>1, <1>2, <1>3, MovesInLogger

LEMMA StorePreserves ==
  ASSUME MiddlewareInv, NEW p \in Procs, NEW c \in Caches, Store(p, c)
  PROVE  MiddlewareInv'
<1>1. /\ pc[p] \in InLogger
      /\ pc' = [pc EXCEPT ![p] = Follows(c)] /\ Follows(c) \in InLogger
      /\ UNCHANGED <<request, wire, seen, outcome, writer, target, pool, log>>
  BY DEF Store, Goto, Write, Follows, InLogger, encoding
<1>2. Shape /\ Local(p)
  BY DEF MiddlewareInv
<1>3. request[p].method \in Methods /\ seen[p] \in Sendable
  BY <1>1, <1>2 DEF Shape, Local, Serving, Observed, InLogger, Requests
<1>4. c = "method" => Key(p, c) \in Methods
  BY <1>3 DEF Key
<1>5. c = "status" => Key(p, c) \in Sendable
  BY <1>3 DEF Key
<1>6. caches' \in [method : SUBSET Methods, status : SUBSET Sendable]
  BY <1>2, <1>4, <1>5 DEF Store, Caches, Shape
<1> QED
  BY <1>1, <1>6, MovesInLogger

LEMMA LogPreserves ==
  ASSUME MiddlewareInv, NEW p \in Procs, Log(p)
  PROVE  MiddlewareInv'
<1> DEFINE line == [method |-> request[p].method, status |-> seen[p]]
<1>1. /\ pc[p] = "line"
      /\ pc' = [pc EXCEPT ![p] = "done"]
      /\ log' = [log EXCEPT ![p] = line] \/ log' = log
      /\ UNCHANGED <<request, wire, seen, outcome, writer, target, pool, caches>>
  BY DEF Log, Goto, encoding
<1>2. Shape /\ WriterInv /\ Local(p)
  BY DEF MiddlewareInv
<1>3. request[p].method \in Methods /\ seen[p] \in Sendable
  BY <1>1, <1>2 DEF Shape, Local, Serving, Observed, InLogger, Requests
<1>4. line \in Lines /\ line.method = request[p].method /\ line.status = seen[p]
  BY <1>3 DEF Lines
<1> HIDE DEF line
<1>5. Shape'
  BY <1>1, <1>2, <1>4 DEF Shape, Labels
<1>6. WriterInv'
  BY <1>1, <1>2 DEF WriterInv
<1>7. Local(p)'
  BY <1>1, <1>2, <1>4 DEF Shape, Local, Serving, Received, Observed, InLogger
<1>8. \A q \in Procs \ {p} : Same(q)
  BY <1>1, <1>2 DEF Shape, Same
<1> QED
  BY <1>5, <1>6, <1>7, <1>8, OneSteps

LEMMA EndPreserves ==
  ASSUME MiddlewareInv, NEW p \in Procs, End(p)
  PROVE  MiddlewareInv'
<1>1. /\ pc[p] = "done"
      /\ pc' = [pc EXCEPT ![p] = "idle"]
      /\ request' = [request EXCEPT ![p] = None]
      /\ wire' = [wire EXCEPT ![p] = Silent]
      /\ seen' = [seen EXCEPT ![p] = NotSent]
      /\ outcome' = [outcome EXCEPT ![p] = "returns"]
      /\ log' = [log EXCEPT ![p] = None]
      /\ UNCHANGED <<writer, target, pool, caches>>
  BY DEF End, Goto, encoding
<1>2. Shape /\ WriterInv /\ Local(p)
  BY DEF MiddlewareInv
<1>3. Silent \in Answers /\ Silent.status = NotSent /\ Silent.length = "none" /\ Silent.body = << >>
  BY DEF Silent, Answer, Answers
<1>4. Shape'
  BY <1>1, <1>2, <1>3 DEF Shape, Labels
<1>5. WriterInv'
  BY <1>1, <1>2 DEF WriterInv
<1>6. Local(p)'
  BY <1>1, <1>2, <1>3 DEF Shape, Local, Serving, Received, Observed, InLogger
<1>7. \A q \in Procs \ {p} : Same(q)
  BY <1>1, <1>2 DEF Shape, Same
<1> QED
  BY <1>4, <1>5, <1>6, <1>7, OneSteps

LEMMA CrashPreserves ==
  ASSUME NEW p \in Procs, Crash(p)
  PROVE  MiddlewareInv'
<1>1. Silent \in Answers /\ Silent.status = NotSent /\ Silent.length = "none" /\ Silent.body = << >>
  BY DEF Silent, Answer, Answers
<1>2. Shape'
  BY <1>1 DEF Crash, Caches, Shape, Labels
<1>3. WriterInv'
  BY DEF Crash, WriterInv
<1>4. \A q \in Procs : Local(q)'
  BY <1>1 DEF Crash, Local, Serving, Received, Observed, InLogger
<1> QED
  BY <1>2, <1>3, <1>4 DEF MiddlewareInv

LEMMA MiddlewareStep ==
  ASSUME MiddlewareInv, [Next]_vars
  PROVE  MiddlewareInv'
<1>1. CASE Next
  <2>1. ASSUME NEW p \in Procs,
               Reject(p) \/ Plain(p) \/ Encode(p) \/ WriteHeader(p) \/ WriteBody(p)
        PROVE  MiddlewareInv'
    BY <2>1, RejectPreserves, PlainPreserves, EncodePreserves, WriteHeaderPreserves,
       WriteBodyPreserves
  <2>2. ASSUME NEW p \in Procs, WriteFails(p) \/ Panic(p) \/ Close(p) \/ Put(p)
        PROVE  MiddlewareInv'
    BY <2>2, WriteFailsPreserves, PanicPreserves, ClosePreserves, PutPreserves
  <2>3. ASSUME NEW p \in Procs, NEW c \in Caches, LookUp(p, c) \/ Store(p, c)
        PROVE  MiddlewareInv'
    BY <2>3, LookUpPreserves, StorePreserves
  <2>4. ASSUME NEW p \in Procs, Log(p) \/ End(p) \/ Crash(p)
        PROVE  MiddlewareInv'
    BY <2>4, LogPreserves, EndPreserves, CrashPreserves
  <2> QED
    BY <1>1, <2>1, <2>2, <2>3, <2>4, CollectPreserves DEF Next
<1>2. CASE UNCHANGED vars
  <2>1. Shape' /\ WriterInv'
    BY <1>2 DEF MiddlewareInv, vars, encoding, Shape, WriterInv
  <2>2. ASSUME NEW q \in Procs PROVE Local(q)'
    BY <1>2, <2>2 DEF MiddlewareInv, vars, encoding, Local, Serving, Received, Observed
  <2> QED
    BY <2>1, <2>2 DEF MiddlewareInv
<1> QED
  BY <1>1, <1>2

LEMMA MiddlewareInvariant == Spec => []MiddlewareInv
  BY MiddlewareInit, MiddlewareStep, PTL DEF Spec

-----------------------------------------------------------------------------
(***************************************************************************)
(* Middleware keeps its types.                                             *)
(***************************************************************************)
THEOREM MiddlewareTypes == Spec => []TypeOK
<1>1. MiddlewareInv => TypeOK
  BY TypeIsShape DEF MiddlewareInv, Local
<1> QED
  BY <1>1, MiddlewareInvariant, PTL

(***************************************************************************)
(* However many requests share the pool of gzip writers, each client has   *)
(* its whole answer and nothing of another's when its handler returned.    *)
(***************************************************************************)
THEOREM WholeResponses == Spec => []ResponsesAreWhole
<1>1. ASSUME MiddlewareInv PROVE ResponsesAreWhole
  <2> SUFFICES ASSUME NEW p \in Procs, pc[p] \in InLogger \cup {"done"},
                      outcome[p] = "returns", request[p].body = "good"
               PROVE  /\ Encodes(request[p]) =>
                          wire[p].body = Whole(p) /\ wire[p].length = "none"
                      /\ ~Encodes(request[p]) => wire[p].body = Data(p)
    BY DEF ResponsesAreWhole, Whole, Data
  <2>1. Serving(p) /\ Received(p)
    BY <1>1 DEF MiddlewareInv, Local
  <2>2. request[p] # None
    BY <2>1 DEF Serving, InLogger
  <2> QED
    BY <2>1, <2>2 DEF Received
<1> QED
  BY <1>1, MiddlewareInvariant, PTL

(***************************************************************************)
(* What the logger writes of a request is what its client was sent, or 500 *)
(* if writing failed, whatever else is logged at the time.                 *)
(***************************************************************************)
THEOREM TrueLogLines == Spec => []LogLinesAreTrue
<1>1. MiddlewareInv => LogLinesAreTrue
  BY DEF MiddlewareInv, Shape, Local, Observed, LogLinesAreTrue
<1> QED
  BY <1>1, MiddlewareInvariant, PTL

(***************************************************************************)
(* Once every method and every status has its field and none is being      *)
(* written, no request writes the maps again: no race is left.             *)
(***************************************************************************)
THEOREM SafeWhenWarm == Spec => WarmCachesAreSafe
<1>1. ASSUME MiddlewareInv, Warm, [Next]_vars
      PROVE  Warm'
  <2> DEFINE writing == {"write method", "write status"}
  <2>1. Shape /\ \A q \in Procs : pc[q] \notin writing
    BY <1>1 DEF Warm, MiddlewareInv
  <2>2. ASSUME NEW p \in Procs, NEW label, label \notin writing,
               pc' = [pc EXCEPT ![p] = label], UNCHANGED caches
        PROVE  Warm'
    BY <1>1, <2>1, <2>2 DEF Warm, Shape
  <2>3. ASSUME NEW p \in Procs, Reject(p) \/ Plain(p) \/ Encode(p) \/ WriteHeader(p)
        PROVE  Warm'
    <3>1. UNCHANGED caches
      BY <2>3 DEF Reject, Plain, Encode, Begin, WriteHeader
    <3>2. pc' = [pc EXCEPT ![p] = "check method"] \/ pc' = [pc EXCEPT ![p] = "header"]
          \/ pc' = [pc EXCEPT ![p] = "body"]
      BY <2>3 DEF Reject, Plain, Encode, WriteHeader, Goto, Check
    <3> QED
      BY <2>2, <3>1, <3>2
  <2>4. ASSUME NEW p \in Procs, WriteBody(p) \/ WriteFails(p) \/ Panic(p)
        PROVE  Warm'
    <3>1. UNCHANGED caches
      BY <2>4 DEF WriteBody, WriteFails, Panic
    <3>2. pc' = [pc EXCEPT ![p] = "close"] \/ pc' = [pc EXCEPT ![p] = "done"]
          \/ pc' = [pc EXCEPT ![p] = "check method"]
      BY <2>4 DEF WriteBody, WriteFails, Panic, Leave, Deferred, AfterHandler, Goto, Check
    <3> QED
      BY <2>2, <3>1, <3>2
  <2>5. ASSUME NEW p \in Procs, Close(p) \/ Put(p) \/ Log(p) \/ End(p)
        PROVE  Warm'
    <3>1. UNCHANGED caches
      BY <2>5 DEF Close, Put, Log, End
    <3>2. pc' = [pc EXCEPT ![p] = "put"] \/ pc' = [pc EXCEPT ![p] = "done"]
          \/ pc' = [pc EXCEPT ![p] = "check method"] \/ pc' = [pc EXCEPT ![p] = "idle"]
      BY <2>5 DEF Close, Put, Log, End, NextDeferred, Deferred, AfterHandler, Goto, Check
    <3> QED
      BY <2>2, <3>1, <3>2
  <2>6. ASSUME NEW p \in Procs, NEW c \in Caches, LookUp(p, c)
        PROVE  Warm'
    <3>1. request[p].method \in Methods /\ seen[p] \in Sendable
      <4>1. Serving(p) /\ Observed(p) /\ pc[p] \in InLogger
        BY <1>1, <2>6 DEF MiddlewareInv, Local, LookUp, Check, InLogger
      <4> QED
        BY <2>1, <4>1 DEF Shape, Serving, Observed, InLogger, Requests
    <3>2. Key(p, c) \in caches[c]
      BY <1>1, <3>1 DEF Warm, Key, Caches
    <3>3. ~Overlaps(p, c)
      BY <2>1 DEF Overlaps, Write
    <3>4. pc' = [pc EXCEPT ![p] = Follows(c)] /\ UNCHANGED caches
      BY <2>6, <3>2, <3>3 DEF LookUp, Misses, Goto
    <3>5. Follows(c) \notin writing
      BY DEF Follows
    <3> QED
      BY <2>2, <3>4, <3>5
  <2>7. ASSUME NEW p \in Procs, NEW c \in Caches
        PROVE  ~Store(p, c) /\ ~Crash(p)
    BY <2>1 DEF Store, Crash, Overlaps, Write
  <2>8. CASE Collect \/ UNCHANGED vars
    BY <1>1, <2>8 DEF Collect, vars, Warm
  <2> QED
    BY <1>1, <2>3, <2>4, <2>5, <2>6, <2>7, <2>8 DEF Next, Caches
<1>2. MiddlewareInv /\ [Next]_vars => [Warm => Warm']_vars
  BY <1>1
<1> QED
  BY <1>2, MiddlewareInvariant, PTL DEF Spec, WarmCachesAreSafe
=============================================================================
