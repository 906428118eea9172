-------------------------- MODULE URLRemoverProofs --------------------------
(***************************************************************************)
(* Proofs about URLRemover, for any number of requests.                    *)
(***************************************************************************)
EXTENDS URLRemover, TLAPS, SequenceTheorems

(***************************************************************************)
(* Why doneCh is open to every handler: it is closed after the drain, the  *)
(* drain has ended only when no handler is running, and none starts then.  *)
(***************************************************************************)
AfterTheDrain == {"drained", "doneClosed", "storageClosed", "exited"}

DrainInv ==
    /\ request \in [Requests -> Stages]
    /\ doneClosed => main \in AfterTheDrain \cup {"crashed"}
    /\ main \in AfterTheDrain => \A r \in Requests : request[r] # "handling"
    /\ NobodyIsRefused

LEMMA DrainPreserved == DrainInv /\ [Next]_vars => DrainInv'
<1> SUFFICES ASSUME DrainInv, [Next]_vars
             PROVE  DrainInv'
  OBVIOUS
<1> USE DEF DrainInv, NobodyIsRefused, AfterTheDrain, Alive, Stages, Finished
<1>1. ASSUME NEW r \in Requests, Arrive(r)
      PROVE  DrainInv'
  BY <1>1 DEF Arrive, Becomes
<1>2. ASSUME NEW r \in Requests, Answer(r)
      PROVE  DrainInv'
  BY <1>2 DEF Answer, Becomes
<1>3. ASSUME NEW r \in Requests, Send(r)
      PROVE  DrainInv'
  BY <1>3 DEF Send, Becomes
<1>4. CASE Receive
  BY <1>4 DEF Receive, Becomes
<1>5. CASE Stop \/ CallStore
  BY <1>5 DEF Stop, CallStore
<1>6. CASE Panic
  BY <1>6 DEF Panic
<1>7. CASE Delete \/ DeleteFails
  BY <1>7 DEF Delete, DeleteFails, Becomes
<1>8. CASE BeginShutdown \/ EndShutdown
  BY <1>8 DEF BeginShutdown, EndShutdown
<1>9. CASE CloseDone \/ CloseStorage \/ Exit
  BY <1>9 DEF CloseDone, CloseStorage, Exit
<1>10. CASE Signal \/ ListenFails
  BY <1>10 DEF Signal, ListenFails
<1>11. CASE UNCHANGED vars
  BY <1>11 DEF vars
<1> QED
  BY <1>1, <1>2, <1>3, <1>4, <1>5, <1>6, <1>7, <1>8, <1>9, <1>10, <1>11
     DEF Next, Remover, Main

(***************************************************************************)
(* However many requests arrive and whenever the signal comes, no deletion *)
(* is refused.                                                             *)
(***************************************************************************)
THEOREM NoRefusal == Spec => []NobodyIsRefused
<1>1. Init => DrainInv
  BY DEF Init, DrainInv, NobodyIsRefused, AfterTheDrain, Stages
<1>2. DrainInv => NobodyIsRefused
  BY DEF DrainInv
<1> QED
  BY <1>1, <1>2, DrainPreserved, PTL DEF Spec

-----------------------------------------------------------------------------
(***************************************************************************)
(* Senders wait in the queue, each once, and what was received is in the   *)
(* hand of the remover: TypeOK is inductive.                               *)
(***************************************************************************)
Typed ==
    /\ storage \in {"memory", "file", "pgsql"}
    /\ main \in {"listening", "draining", "drained", "doneClosed", "storageClosed",
                 "exited", "crashed"}
    /\ ctxDone \in BOOLEAN
    /\ doneClosed \in BOOLEAN

Queued ==
    /\ sendq \in Seq(Requests)
    /\ IsInjective(sendq)
    /\ ToSet(sendq) = {r \in Requests : request[r] = "blocked"}

Held ==
    /\ remover \in {"select", "call", "store", "gone"}
    /\ inHand \in Requests \cup {Nothing}
    /\ {r \in Requests : request[r] = "received"} = {inHand} \ {Nothing}
    /\ remover \in {"call", "store"} <=> inHand # Nothing

LEMMA TypeParts == TypeOK <=> Typed /\ request \in [Requests -> Stages] /\ Queued /\ Held
BY DEF TypeOK, Typed, Queued, Held

\* Neither the queue nor the hand is touched by what happens to other requests.
LEMMA ElsewherePreserves ==
    ASSUME request \in [Requests -> Stages], Queued, Held,
           NEW r \in Requests, NEW stage \in Stages \ {"blocked", "received"},
           request[r] \notin {"blocked", "received"}, Becomes(r, stage),
           UNCHANGED <<sendq, remover, inHand>>
    PROVE  request' \in [Requests -> Stages] /\ Queued' /\ Held'
<1>1. request' \in [Requests -> Stages]
  BY DEF Becomes
<1>2. \A q \in Requests : request'[q] = IF q = r THEN stage ELSE request[q]
  BY DEF Becomes
<1>3. /\ {q \in Requests : request'[q] = "blocked"} = {q \in Requests : request[q] = "blocked"}
      /\ {q \in Requests : request'[q] = "received"} = {q \in Requests : request[q] = "received"}
  BY <1>2
<1> QED
  BY <1>1, <1>3 DEF Queued, Held

LEMMA SendPreserves ==
    ASSUME request \in [Requests -> Stages], Queued, Held, NEW r \in Requests, Send(r)
    PROVE  request' \in [Requests -> Stages] /\ Queued' /\ Held'
<1>1. /\ request[r] = "spawned" /\ Becomes(r, "blocked") /\ sendq' = Append(sendq, r)
      /\ UNCHANGED <<remover, inHand>>
  BY DEF Send
<1>2. request' \in [Requests -> Stages]
  BY <1>1 DEF Becomes, Stages
<1>3. \A q \in Requests : request'[q] = IF q = r THEN "blocked" ELSE request[q]
  BY <1>1 DEF Becomes
<1>4. /\ sendq' \in Seq(Requests) /\ DOMAIN sendq = 1..Len(sendq)
      /\ DOMAIN sendq' = 1..(Len(sendq) + 1) /\ Len(sendq) \in Nat
      /\ \A k \in 1..Len(sendq) : sendq'[k] = sendq[k]
      /\ sendq'[Len(sendq) + 1] = r
  BY <1>1, AppendProperties DEF Queued
<1>5. \A k \in 1..Len(sendq) : sendq[k] # r
  BY <1>1, <1>4 DEF Queued, ToSet
<1>6. IsInjective(sendq')
  BY <1>4, <1>5 DEF Queued, IsInjective
<1>7. ToSet(sendq') = ToSet(sendq) \cup {r}
  <2>1. \A k \in DOMAIN sendq' : sendq'[k] \in ToSet(sendq) \cup {r}
    BY <1>4 DEF ToSet
  <2>2. \A k \in DOMAIN sendq : sendq[k] \in ToSet(sendq')
    BY <1>4 DEF ToSet
  <2>3. r \in ToSet(sendq')
    BY <1>4 DEF ToSet
  <2> QED
    BY <2>1, <2>2, <2>3 DEF ToSet
<1>8. Queued'
  BY <1>3, <1>4, <1>6, <1>7 DEF Queued
<1>9. Held'
  BY <1>1, <1>3 DEF Held
<1> QED
  BY <1>2, <1>8, <1>9

LEMMA ReceivePreserves ==
    ASSUME request \in [Requests -> Stages], Queued, Held, Receive
    PROVE  request' \in [Requests -> Stages] /\ Queued' /\ Held'
<1> DEFINE h == Head(sendq)
<1>1. /\ remover = "select" /\ sendq # << >> /\ inHand' = h /\ sendq' = Tail(sendq)
      /\ Becomes(h, "received") /\ remover' = "call"
  BY DEF Receive
<1>2. /\ h \in Requests /\ sendq' \in Seq(Requests) /\ Len(sendq) \in Nat \ {0}
      /\ DOMAIN sendq = 1..Len(sendq) /\ DOMAIN sendq' = 1..(Len(sendq) - 1)
      /\ \A k \in 1..(Len(sendq) - 1) : sendq'[k] = sendq[k + 1]
      /\ h = sendq[1]
  BY <1>1, HeadTailProperties DEF Queued
<1> HIDE DEF h
<1>3. request' \in [Requests -> Stages]
  BY <1>1, <1>2 DEF Becomes, Stages
<1>4. \A q \in Requests : request'[q] = IF q = h THEN "received" ELSE request[q]
  BY <1>1, <1>2 DEF Becomes
<1>5. IsInjective(sendq') /\ \A k \in DOMAIN sendq' : sendq'[k] # h
  <2>1. /\ 1 \in DOMAIN sendq
        /\ \A k \in DOMAIN sendq' : /\ k \in Nat \ {0} /\ k + 1 \in DOMAIN sendq
                                   /\ sendq'[k] = sendq[k + 1] /\ k + 1 # 1
    BY <1>2
  <2>2. \A k, l \in DOMAIN sendq : sendq[k] = sendq[l] => k = l
    BY DEF Queued, IsInjective
  <2>3. \A k, l \in DOMAIN sendq' : sendq'[k] = sendq'[l] => k + 1 = l + 1
    BY <2>1, <2>2
  <2>4. \A k, l \in DOMAIN sendq' : k + 1 = l + 1 => k = l
    BY <2>1
  <2> QED
    BY <1>2, <2>1, <2>2, <2>3, <2>4 DEF IsInjective
<1>6. ToSet(sendq') = ToSet(sendq) \ {h}
  <2>1. \A k \in DOMAIN sendq' : sendq'[k] \in ToSet(sendq) \ {h}
    BY <1>2, <1>5 DEF ToSet
  <2>2. ASSUME NEW k \in DOMAIN sendq, sendq[k] # h
        PROVE  sendq[k] \in ToSet(sendq')
    <3>1. k - 1 \in DOMAIN sendq' /\ sendq'[k - 1] = sendq[k]
      BY <1>2, <2>2
    <3> QED
      BY <3>1 DEF ToSet
  <2> QED
    BY <2>1, <2>2 DEF ToSet
<1>7. Queued'
  BY <1>2, <1>4, <1>5, <1>6 DEF Queued
<1>8. Held'
  BY <1>1, <1>2, <1>4, NothingIsNoRequest DEF Held
<1> QED
  BY <1>3, <1>7, <1>8

LEMMA FinishPreserves ==
    ASSUME request \in [Requests -> Stages], Queued, Held, Delete \/ DeleteFails
    PROVE  request' \in [Requests -> Stages] /\ Queued' /\ Held'
<1>1. PICK stage \in Finished : Becomes(inHand, stage)
  BY DEF Delete, DeleteFails, Finished
<1>2. /\ remover = "store" /\ inHand' = Nothing /\ remover' = "select" /\ sendq' = sendq
  BY DEF Delete, DeleteFails
<1>3. inHand \in Requests /\ request[inHand] = "received"
  BY <1>2 DEF Held
<1>4. request' \in [Requests -> Stages]
  BY <1>1 DEF Becomes, Stages
<1>5. \A q \in Requests : request'[q] = IF q = inHand THEN stage ELSE request[q]
  BY <1>1 DEF Becomes
<1>6. /\ {q \in Requests : request'[q] = "blocked"} = {q \in Requests : request[q] = "blocked"}
      /\ {q \in Requests : request'[q] = "received"} = {}
  BY <1>3, <1>5 DEF Finished, Held
<1> QED
  BY <1>2, <1>4, <1>6 DEF Queued, Held

LEMMA TypeIsPreserved == TypeOK /\ [Next]_vars => TypeOK'
<1> SUFFICES ASSUME TypeOK, [Next]_vars PROVE TypeOK'
  OBVIOUS
<1>1. Typed /\ request \in [Requests -> Stages] /\ Queued /\ Held
  BY TypeParts
<1> DEFINE Goal == Typed' /\ request' \in [Requests -> Stages] /\ Queued' /\ Held'
<1>2. Goal => TypeOK'
  BY DEF TypeOK, Typed, Queued, Held
<1>3. ASSUME NEW r \in Requests, Arrive(r) \/ Answer(r)
      PROVE  Goal
  <2>1. PICK stage \in Stages \ {"blocked", "received"} : Becomes(r, stage)
    BY <1>3 DEF Arrive, Answer, Stages
  <2>2. request[r] \notin {"blocked", "received"} /\ UNCHANGED <<sendq, remover, inHand>>
    BY <1>3 DEF Arrive, Answer
  <2>3. Typed'
    BY <1>1, <1>3 DEF Arrive, Answer, Typed
  <2> QED
    BY <1>1, <2>1, <2>2, <2>3, ElsewherePreserves
<1>4. ASSUME NEW r \in Requests, Send(r)
      PROVE  Goal
  BY <1>1, <1>4, SendPreserves DEF Send, Typed
<1>5. ASSUME Receive PROVE Goal
  BY <1>1, <1>5, ReceivePreserves DEF Receive, Typed
<1>6. ASSUME Delete \/ DeleteFails PROVE Goal
  BY <1>1, <1>6, FinishPreserves DEF Delete, DeleteFails, Typed
<1>7. ASSUME Stop \/ CallStore \/ Panic PROVE Goal
  BY <1>1, <1>7 DEF Stop, CallStore, Panic, Typed, Queued, Held
<1>8. ASSUME BeginShutdown \/ EndShutdown \/ CloseDone \/ CloseStorage \/ Exit PROVE Goal
  BY <1>1, <1>8 DEF BeginShutdown, EndShutdown, CloseDone, CloseStorage, Exit,
                    Typed, Queued, Held
<1>9. ASSUME Signal \/ ListenFails \/ UNCHANGED vars PROVE Goal
  BY <1>1, <1>9 DEF Signal, ListenFails, vars, Typed, Queued, Held
<1> QED
  BY <1>2, <1>3, <1>4, <1>5, <1>6, <1>7, <1>8, <1>9, Zenon DEF Next, Remover, Main

\* The variables of the remover keep their types; a sender that is blocked is in the
\* queue once, and the one deletion received is in the hand of the remover.
THEOREM RemoverTypes == Spec => []TypeOK
<1>1. Init => TypeOK
  <2> SUFFICES ASSUME Init PROVE TypeOK
    OBVIOUS
  <2>1. ToSet(sendq) = {} /\ sendq \in Seq(Requests) /\ IsInjective(sendq)
    BY DEF Init, ToSet, IsInjective
  <2> QED
    BY <2>1 DEF Init, TypeOK, Stages
<1> QED
  BY <1>1, TypeIsPreserved, PTL DEF Spec
=============================================================================
