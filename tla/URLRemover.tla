----------------------------- MODULE URLRemover -----------------------------
(***************************************************************************)
(* Deletion in the background and the end of the process:                  *)
(* internal/server/urls_remover.go with the handler that feeds it,         *)
(* main and runServer of cmd/shortener/main.go.                            *)
(*                                                                         *)
(* A DELETE request is answered 202 as soon as a goroutine has been        *)
(* spawned that will send it over an unbuffered channel; one goroutine     *)
(* receives the deletions and gives them to the store, one after another.  *)
(* On a signal the HTTP server stops listening and waits for its handlers; *)
(* then main closes doneCh, closes the storage and returns, and nothing    *)
(* waits for the senders or for the remover.                               *)
(***************************************************************************)
EXTENDS SequencesExt

CONSTANTS Requests,    \* DELETE requests
          Nothing,     \* the remover has no deletion in hand
          StoreErrors  \* may DeleteUserURLs of the store return an error?

ASSUME NothingIsNoRequest == Nothing \notin Requests
ASSUME StoreErrorsIsBool == StoreErrors \in BOOLEAN

VARIABLES storage,   \* which store factory.NewStorage has made
          main,      \* how far main has got
          ctxDone,   \* the signal has come: the context of main is cancelled
          doneClosed,\* doneCh of the remover is closed
          request,   \* how far a DELETE request and its deletion have got
          sendq,     \* goroutines blocked on deleteCh, in the order they came
          remover,   \* the remover goroutine: in its select, calling the store,
                     \* at work in the store, gone
          inHand     \* the deletion the remover has received

vars == <<storage, main, ctxDone, doneClosed, request, sendq, remover, inHand>>

Finished == {"deleted", "failed"}

Stages == {"new", "handling", "refused", "spawned", "blocked", "received"} \cup Finished

TypeOK ==
    /\ storage \in {"memory", "file", "pgsql"}
    /\ main \in {"listening", "draining", "drained", "doneClosed", "storageClosed",
                 "exited", "crashed"}
    /\ ctxDone \in BOOLEAN
    /\ doneClosed \in BOOLEAN
    /\ request \in [Requests -> Stages]
    /\ sendq \in Seq(Requests)
    /\ remover \in {"select", "call", "store", "gone"}
    /\ inHand \in Requests \cup {Nothing}
    /\ IsInjective(sendq)
    /\ ToSet(sendq) = {r \in Requests : request[r] = "blocked"}
    /\ {r \in Requests : request[r] = "received"} = {inHand} \ {Nothing}
    /\ remover \in {"call", "store"} <=> inHand # Nothing

Init ==
    /\ storage \in {"memory", "file", "pgsql"}
    /\ main = "listening"
    /\ ctxDone = FALSE
    /\ doneClosed = FALSE
    /\ request = [r \in Requests |-> "new"]
    /\ sendq = << >>
    /\ remover = "select"
    /\ inHand = Nothing

Alive == main \notin {"exited", "crashed"}

Becomes(r, stage) == request' = [request EXCEPT ![r] = stage]

-----------------------------------------------------------------------------
\* A DELETE request comes in and its body is decoded.
Arrive(r) ==
    /\ main = "listening"
    /\ request[r] = "new"
    /\ Becomes(r, "handling")
    /\ UNCHANGED <<storage, main, ctxDone, doneClosed, sendq, remover, inHand>>

\* DeleteURLs: with doneCh open the sender is spawned and the handler answers
\* 202; with doneCh closed the handler answers 500.
Answer(r) ==
    /\ Alive
    /\ request[r] = "handling"
    /\ Becomes(r, IF doneClosed THEN "refused" ELSE "spawned")
    /\ UNCHANGED <<storage, main, ctxDone, doneClosed, sendq, remover, inHand>>

\* The sender runs: r.deleteCh <- urls.
Send(r) ==
    /\ Alive
    /\ request[r] = "spawned"
    /\ Becomes(r, "blocked")
    /\ sendq' = Append(sendq, r)
    /\ UNCHANGED <<storage, main, ctxDone, doneClosed, remover, inHand>>

-----------------------------------------------------------------------------
\* The select of the remover: both cases may be ready, and either may be taken.
Receive ==
    /\ Alive
    /\ remover = "select"
    /\ sendq # << >>
    /\ inHand' = Head(sendq)
    /\ sendq' = Tail(sendq)
    /\ Becomes(Head(sendq), "received")
    /\ remover' = "call"
    /\ UNCHANGED <<storage, main, ctxDone, doneClosed>>

Stop ==
    /\ Alive
    /\ remover = "select"
    /\ doneClosed
    /\ remover' = "gone"
    /\ UNCHANGED <<storage, main, ctxDone, doneClosed, request, sendq, inHand>>

-----------------------------------------------------------------------------
(***************************************************************************)
(* store.DeleteUserURLs(ctx, ...), with the context of main.  Only the     *)
(* pgsql store looks at it: a cancelled context yields no connection, and  *)
(* the deferred Release of the connection there is not panics, in a        *)
(* goroutine where nothing recovers.                                       *)
(***************************************************************************)
NoConnection == storage = "pgsql" /\ ctxDone

CallStore ==
    /\ Alive
    /\ remover = "call"
    /\ ~NoConnection
    /\ remover' = "store"
    /\ UNCHANGED <<storage, main, ctxDone, doneClosed, request, sendq, inHand>>

Panic ==
    /\ Alive
    /\ remover = "call"
    /\ NoConnection
    /\ main' = "crashed"
    /\ UNCHANGED <<storage, ctxDone, doneClosed, request, sendq, remover, inHand>>

\* A write to a closed file fails.
FileIsClosed == storage = "file" /\ main = "storageClosed"

Delete ==
    /\ Alive
    /\ remover = "store"
    /\ ~FileIsClosed
    /\ Becomes(inHand, "deleted")
    /\ inHand' = Nothing
    /\ remover' = "select"
    /\ UNCHANGED <<storage, main, ctxDone, doneClosed, sendq>>

\* What makes a store return an error: a transaction is cut off by the context.
MayFail == (StoreErrors /\ storage # "memory") \/ FileIsClosed \/ NoConnection

\* Mutant: the remover returns after an error.
DeleteFails_Returns ==
    /\ Alive
    /\ remover = "store"
    /\ MayFail
    /\ Becomes(inHand, "failed")
    /\ inHand' = Nothing
    /\ remover' = "gone"
    /\ UNCHANGED <<storage, main, ctxDone, doneClosed, sendq>>

\* Mutant: the deletion stays in hand after the error was logged.
DeleteFails_Keeps ==
    /\ Alive
    /\ remover = "store"
    /\ MayFail
    /\ Becomes(inHand, "failed")
    /\ remover' = "select"
    /\ UNCHANGED <<storage, main, ctxDone, doneClosed, sendq, inHand>>

\* The error is logged; the client was answered long ago.
DeleteFails ==
    /\ Alive
    /\ remover = "store"
    /\ MayFail
    /\ Becomes(inHand, "failed")
    /\ inHand' = Nothing
    /\ remover' = "select"
    /\ UNCHANGED <<storage, main, ctxDone, doneClosed, sendq>>

-----------------------------------------------------------------------------
\* SIGTERM, SIGINT or SIGQUIT.
Signal ==
    /\ Alive
    /\ ~ctxDone
    /\ ctxDone' = TRUE
    /\ UNCHANGED <<storage, main, doneClosed, request, sendq, remover, inHand>>

\* server.Shutdown: no new requests.
BeginShutdown ==
    /\ main = "listening"
    /\ ctxDone
    /\ main' = "draining"
    /\ UNCHANGED <<storage, ctxDone, doneClosed, request, sendq, remover, inHand>>

\* Mutant: main does not wait for the handlers.
EndShutdown_AtOnce ==
    /\ main = "draining"
    /\ main' = "drained"
    /\ UNCHANGED <<storage, ctxDone, doneClosed, request, sendq, remover, inHand>>

\* Mutant: main waits for the remover, which waits for doneCh.
EndShutdown_AwaitsRemover ==
    /\ main = "draining"
    /\ \A r \in Requests : request[r] # "handling"
    /\ remover = "gone"
    /\ main' = "drained"
    /\ UNCHANGED <<storage, ctxDone, doneClosed, request, sendq, remover, inHand>>

\* server.Shutdown returns when no handler is running; runServer returns.
EndShutdown ==
    /\ main = "draining"
    /\ \A r \in Requests : request[r] # "handling"
    /\ main' = "drained"
    /\ UNCHANGED <<storage, ctxDone, doneClosed, request, sendq, remover, inHand>>

\* The deferred calls of main, last one first.
CloseDone ==
    /\ main = "drained"
    /\ main' = "doneClosed"
    /\ doneClosed' = TRUE
    /\ UNCHANGED <<storage, ctxDone, request, sendq, remover, inHand>>

\* pool.Close() of the pgsql store waits for the connections in use.
CloseStorage ==
    /\ main = "doneClosed"
    /\ storage = "pgsql" => remover # "store"
    /\ main' = "storageClosed"
    /\ UNCHANGED <<storage, ctxDone, doneClosed, request, sendq, remover, inHand>>

Exit ==
    /\ main = "storageClosed"
    /\ main' = "exited"
    /\ UNCHANGED <<storage, ctxDone, doneClosed, request, sendq, remover, inHand>>

\* ListenAndServe fails: log.Fatal, no deferred call runs.
ListenFails ==
    /\ main = "listening"
    /\ main' = "crashed"
    /\ UNCHANGED <<storage, ctxDone, doneClosed, request, sendq, remover, inHand>>

Remover == Receive \/ Stop \/ CallStore \/ Panic \/ Delete \/ DeleteFails

Main == BeginShutdown \/ EndShutdown \/ CloseDone \/ CloseStorage \/ Exit

Next ==
    \/ \E r \in Requests : Arrive(r) \/ Answer(r) \/ Send(r)
    \/ Remover
    \/ Main
    \/ Signal
    \/ ListenFails

(***************************************************************************)
(* Every goroutine of a live process runs again, and DeleteUserURLs of a   *)
(* store returns.  Requests, signals and failures to listen are not due.   *)
(***************************************************************************)
Fairness ==
    /\ \A r \in Requests : WF_vars(Answer(r)) /\ WF_vars(Send(r))
    /\ WF_vars(Remover)
    /\ WF_vars(Main)

Spec == Init /\ [][Next]_vars /\ Fairness

-----------------------------------------------------------------------------
Accepted == {r \in Requests : request[r] \notin {"new", "handling", "refused"}}

(***************************************************************************)
(* No request is answered 500 because the remover has been told to stop:   *)
(* main closes doneCh only when the last handler has returned.             *)
(***************************************************************************)
NobodyIsRefused == \A r \in Requests : request[r] # "refused"

(***************************************************************************)
(* A deletion that was answered 202 reaches the store, however many others *)
(* wait for the one remover and whatever errors they meet, unless the      *)
(* process is told to stop or cannot listen.                               *)
(***************************************************************************)
AcceptedReachTheStore ==
    \A r \in Requests :
        r \in Accepted ~> request[r] \in Finished \/ ctxDone \/ ~Alive

(***************************************************************************)
(* After the signal the process ends: the wait for the handlers is never   *)
(* one for the remover or for a sender nobody receives from.               *)
(***************************************************************************)
ShutdownEnds == ctxDone ~> ~Alive

(***************************************************************************)
(* DeleteURLs adds the URLs to those that get deleted: once it has         *)
(* returned nil, the storage does not outlive the process without the      *)
(* deletion having been given to it.                                       *)
(***************************************************************************)
AcceptedDeletionsHappen ==
    main = "exited" /\ storage # "memory" => \A r \in Accepted : request[r] = "deleted"
=============================================================================
