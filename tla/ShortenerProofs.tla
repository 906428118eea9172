-------------------------- MODULE ShortenerProofs --------------------------
(***************************************************************************)
(* Proofs about Shortener, for every number and any alphabet: induction on *)
(* the number, by looking at the least one of a set of counterexamples.    *)
(***************************************************************************)
EXTENDS Shortener, TLAPS, WellFoundedInduction, SequenceTheorems

LEMMA LeastNumber ==
    ASSUME NEW T, T \subseteq Nat, T # {}
    PROVE  \E x \in T : \A y \in T : x <= y
<1>1. PICK x \in T : \A y \in T : ~ (<<y, x>> \in OpToRel(<, Nat))
  BY WFMin, NatLessThanWellFounded
<1>2. \A y \in T : y \in Nat /\ x \in Nat
  OBVIOUS
<1>3. \A y \in T : <<y, x>> \in Nat \X Nat /\ <<y, x>>[1] = y /\ <<y, x>>[2] = x
  BY <1>2
<1>4. \A y \in T : ~(y < x)
  BY <1>1, <1>3 DEF OpToRel
<1> QED
  BY <1>2, <1>4

\* The loop ends: the number becomes less in every round.
LEMMA DivisionDescends ==
    ASSUME NEW n \in Nat, ~(n < AlphabetLen)
    PROVE  /\ n \div AlphabetLen \in Nat /\ n \div AlphabetLen < n
           /\ n % AlphabetLen \in 0..(AlphabetLen - 1) /\ n % AlphabetLen \in Nat
<1>1. /\ n \div AlphabetLen \in Nat /\ n % AlphabetLen \in 0..(AlphabetLen - 1)
      /\ n = AlphabetLen * (n \div AlphabetLen) + (n % AlphabetLen)
  BY AlphabetHasTwoLetters
<1>2. n \div AlphabetLen # 0
  BY AlphabetHasTwoLetters, <1>1
<1>3. \A q \in Nat \ {0} : AlphabetLen * q > q
  BY AlphabetHasTwoLetters
<1> QED
  BY <1>1, <1>2, <1>3, AlphabetHasTwoLetters

\* Quotient and remainder determine the number.
LEMMA DivisionIsInjective ==
    ASSUME NEW a \in Nat, NEW b \in Nat, a % AlphabetLen = b % AlphabetLen,
           a \div AlphabetLen = b \div AlphabetLen
    PROVE  a = b
<1>1. \A n \in Nat : n = AlphabetLen * (n \div AlphabetLen) + (n % AlphabetLen)
  BY AlphabetHasTwoLetters
<1> QED
  BY <1>1

-----------------------------------------------------------------------------
(***************************************************************************)
(* Digits is well defined.                                                 *)
(***************************************************************************)
\* One round of the loop, given what the rounds after it yield.
Round(g, n) ==
    IF n < AlphabetLen THEN <<n>>
    ELSE <<n % AlphabetLen>> \o g[n \div AlphabetLen]

\* g is what Digits has to be, as far as n.
Approximates(g, n) == g = [k \in 0..n |-> Round(g, k)]

LEMMA RoundLooksBack ==
    ASSUME NEW n \in Nat, NEW g, NEW h, \A k \in 0..(n - 1) : g[k] = h[k]
    PROVE  Round(g, n) = Round(h, n)
<1>1. CASE n < AlphabetLen
  BY <1>1 DEF Round
<1>2. CASE ~(n < AlphabetLen)
  <2>1. n \div AlphabetLen \in 0..(n - 1)
    BY <1>2, DivisionDescends, AlphabetHasTwoLetters
  <2> QED
    BY <1>2, <2>1 DEF Round
<1> QED
  BY <1>1, <1>2

LEMMA ApproximationIsRound ==
    ASSUME NEW n \in Nat, NEW g, Approximates(g, n)
    PROVE  \A k \in 0..n : g[k] = Round(g, k)
<1> DEFINE r == [k \in 0..n |-> Round(g, k)]
<1>1. g = r
  BY DEF Approximates
<1>2. \A k \in 0..n : r[k] = Round(g, k)
  OBVIOUS
<1> HIDE DEF r
<1> QED
  BY <1>1, <1>2

LEMMA ApproximationsAgree ==
    ASSUME NEW n \in Nat, NEW m \in Nat, NEW g, NEW h, Approximates(g, n), Approximates(h, m)
    PROVE  \A k \in Nat : k <= n /\ k <= m => g[k] = h[k]
<1> DEFINE T == {k \in Nat : k <= n /\ k <= m /\ g[k] # h[k]}
<1>1. SUFFICES ASSUME T # {}
               PROVE  FALSE
  OBVIOUS
<1>2. PICK k \in T : \A j \in T : k <= j
  BY <1>1, LeastNumber
<1>3. k \in Nat /\ k <= n /\ k <= m /\ g[k] # h[k]
  OBVIOUS
<1>4. \A j \in 0..(k - 1) : g[j] = h[j]
  BY <1>2, <1>3
<1>5. /\ \A j \in 0..n : g[j] = Round(g, j)
      /\ \A j \in 0..m : h[j] = Round(h, j)
  BY ApproximationIsRound
<1>6. k \in 0..n /\ k \in 0..m
  BY <1>3
<1> QED
  BY <1>3, <1>4, <1>5, <1>6, RoundLooksBack

LEMMA ApproximationsExist == \A n \in Nat : \E g : Approximates(g, n)
<1> DEFINE T == {n \in Nat : ~ \E g : Approximates(g, n)}
<1>1. SUFFICES ASSUME T # {}
               PROVE  FALSE
  OBVIOUS
<1>2. PICK n \in T : \A j \in T : n <= j
  BY <1>1, LeastNumber
<1>3. n \in Nat /\ ~ \E g : Approximates(g, n)
  OBVIOUS
<1>4. PICK g : n # 0 => Approximates(g, n - 1)
  BY <1>2, <1>3
<1> DEFINE h == [k \in 0..n |-> IF k = n THEN Round(g, n) ELSE g[k]]
<1>5. \A k \in 0..(n - 1) : h[k] = g[k]
  BY <1>3
<1>6. \A k \in 0..n : h[k] = Round(h, k)
  <2> TAKE k \in 0..n
  <2>1. k \in Nat /\ (\A j \in 0..(k - 1) : j \in 0..(n - 1))
    BY <1>3
  <2>2. Round(h, k) = Round(g, k)
    <3> HIDE DEF h
    <3> QED
      BY <1>5, <2>1, RoundLooksBack
  <2>3. CASE k = n
    BY <2>2, <2>3
  <2>4. CASE k # n
    <3>1. n # 0 /\ k \in 0..(n - 1)
      BY <1>3, <2>4
    <3>2. g[k] = Round(g, k)
      BY <1>3, <1>4, <3>1 DEF Approximates
    <3> QED
      BY <1>5, <2>2, <3>1, <3>2
  <2> QED
    BY <2>3, <2>4
<1>7. Approximates(h, n)
  <2>1. h = [k \in 0..n |-> h[k]]
    OBVIOUS
  <2> HIDE DEF h
  <2> QED
    BY <1>6, <2>1 DEF Approximates
<1> QED
  BY <1>3, <1>7

LEMMA DigitsDef == Digits = [n \in Nat |-> Round(Digits, n)]
<1> DEFINE best(n) == CHOOSE g : Approximates(g, n)
           f == [n \in Nat |-> best(n)[n]]
<1>1. \A n \in Nat : Approximates(best(n), n)
  BY ApproximationsExist
<1>2. ASSUME NEW n \in Nat
      PROVE  f[n] = Round(f, n)
  <2>1. \A k \in 0..n : best(n)[k] = f[k]
    <3> TAKE k \in 0..n
    <3>1. Approximates(best(n), n) /\ Approximates(best(k), k) /\ k \in Nat /\ k <= n
      BY <1>1
    <3>2. f[k] = best(k)[k]
      BY <3>1
    <3> HIDE DEF best, f
    <3> QED
      BY <3>1, <3>2, ApproximationsAgree
  <2>2. best(n)[n] = Round(best(n), n)
    <3>1. Approximates(best(n), n)
      BY <1>1
    <3> HIDE DEF best
    <3> QED
      BY <3>1 DEF Approximates
  <2>3. Round(best(n), n) = Round(f, n)
    <3> HIDE DEF best, f
    <3> QED
      BY <2>1, RoundLooksBack
  <2> QED
    BY <2>1, <2>2, <2>3
<1>3. f = [n \in Nat |-> Round(f, n)]
  <2>1. f = [n \in Nat |-> f[n]]
    OBVIOUS
  <2> HIDE DEF f
  <2> QED
    BY <1>2, <2>1
<1>4. \E g : g = [n \in Nat |-> IF n < AlphabetLen THEN <<n>>
                                ELSE <<n % AlphabetLen>> \o g[n \div AlphabetLen]]
  <2> HIDE DEF f
  <2> QED
    BY <1>3 DEF Round
<1> QED
  BY <1>4 DEF Digits, Round

-----------------------------------------------------------------------------
(***************************************************************************)
(* What Shorten yields.                                                    *)
(***************************************************************************)
LEMMA DigitsStep ==
    ASSUME NEW n \in Nat
    PROVE  Digits[n] = Round(Digits, n)
<1> DEFINE r == [k \in Nat |-> Round(Digits, k)]
<1>1. Digits = r
  BY DigitsDef
<1>2. r[n] = Round(Digits, n)
  OBVIOUS
<1> HIDE DEF r
<1> QED
  BY <1>1, <1>2

(***************************************************************************)
(* A short URL is never the empty text, and consists of letters of the     *)
(* alphabet only.                                                          *)
(***************************************************************************)
THEOREM ShortURLsAreText ==
    \A id \in Nat : Shorten(id) \in Seq(0..(AlphabetLen - 1)) /\ Shorten(id) # << >>
<1> DEFINE Text(n) == Digits[n] \in Seq(0..(AlphabetLen - 1)) /\ Len(Digits[n]) >= 1
           T == {n \in Nat : ~Text(n)}
<1>1. SUFFICES ASSUME T # {}
               PROVE  FALSE
  BY DEF Shorten
<1>2. PICK n \in T : \A j \in T : n <= j
  BY <1>1, LeastNumber
<1>3. n \in Nat /\ ~Text(n)
  OBVIOUS
<1>4. CASE n < AlphabetLen
  <2>1. n \in 0..(AlphabetLen - 1)
    BY <1>3, <1>4, AlphabetHasTwoLetters
  <2>2. Digits[n] = <<n>>
    BY <1>3, <1>4, DigitsStep DEF Round
  <2> QED
    BY <1>3, <2>1, <2>2
<1>5. CASE ~(n < AlphabetLen)
  <2> DEFINE q == n \div AlphabetLen
             d == n % AlphabetLen
  <2>1. q \in Nat /\ q < n /\ d \in 0..(AlphabetLen - 1)
    BY <1>3, <1>5, DivisionDescends
  <2>2. Digits[n] = <<d>> \o Digits[q]
    BY <1>3, <1>5, DigitsStep DEF Round
  <2> HIDE DEF q, d
  <2>3. Text(q)
    BY <1>2, <1>3, <2>1
  <2>4. <<d>> \in Seq(0..(AlphabetLen - 1)) /\ Len(<<d>>) = 1
    BY <2>1
  <2>5. /\ <<d>> \o Digits[q] \in Seq(0..(AlphabetLen - 1))
        /\ Len(<<d>> \o Digits[q]) = 1 + Len(Digits[q])
    BY <2>3, <2>4, ConcatProperties
  <2> QED
    BY <1>3, <2>2, <2>3, <2>5
<1> QED
  BY <1>4, <1>5

(***************************************************************************)
(* Different numbers have different short URLs: a short URL repeats only   *)
(* when a number does.                                                     *)
(***************************************************************************)
THEOREM ShortURLsDiffer ==
    \A a, b \in Nat : Shorten(a) = Shorten(b) => a = b
<1> DEFINE T == {a \in Nat : \E b \in Nat : Digits[a] = Digits[b] /\ a # b}
<1>1. SUFFICES ASSUME T # {}
               PROVE  FALSE
  BY DEF Shorten
<1>2. PICK a \in T : \A j \in T : a <= j
  BY <1>1, LeastNumber
<1>3. PICK b \in Nat : Digits[a] = Digits[b] /\ a # b
  BY <1>2
<1>4. a \in Nat
  OBVIOUS
<1>5. \A n \in Nat : Digits[n] \in Seq(Nat) /\ Len(Digits[n]) >= 1
  <2> TAKE n \in Nat
  <2>1. Digits[n] \in Seq(0..(AlphabetLen - 1)) /\ Digits[n] # << >>
    BY ShortURLsAreText DEF Shorten
  <2> QED
    BY <2>1, AlphabetHasTwoLetters
<1>6. \A n \in Nat : n < AlphabetLen => Digits[n] = <<n>> /\ Len(<<n>>) = 1 /\ <<n>>[1] = n
  BY DigitsStep DEF Round
<1>7. ASSUME NEW n \in Nat, ~(n < AlphabetLen)
      PROVE  /\ Digits[n] = <<n % AlphabetLen>> \o Digits[n \div AlphabetLen]
             /\ n \div AlphabetLen \in Nat /\ n \div AlphabetLen < n
             /\ n % AlphabetLen \in Nat
             /\ Len(Digits[n]) >= 2 /\ Digits[n][1] = n % AlphabetLen
  <2>1. /\ Digits[n] = <<n % AlphabetLen>> \o Digits[n \div AlphabetLen]
        /\ n \div AlphabetLen \in Nat /\ n \div AlphabetLen < n
        /\ n % AlphabetLen \in Nat
    <3>1. Digits[n] = Round(Digits, n)
      BY DigitsStep
    <3> QED
      BY <1>7, <3>1, DivisionDescends DEF Round
  <2> DEFINE q == n \div AlphabetLen
             d == n % AlphabetLen
  <2>2. d \in Nat /\ Digits[q] \in Seq(Nat) /\ Len(Digits[q]) >= 1 /\ <<d>> \in Seq(Nat)
    BY <1>5, <2>1
  <2> HIDE DEF q, d
  <2>3. /\ Len(<<d>> \o Digits[q]) = 1 + Len(Digits[q])
        /\ (<<d>> \o Digits[q])[1] = d
    BY <2>2, ConcatProperties
  <2> QED
    BY <2>1, <2>2, <2>3 DEF q, d
<1>8. CASE a < AlphabetLen /\ b < AlphabetLen
  BY <1>3, <1>4, <1>6, <1>8
<1>9. CASE a < AlphabetLen /\ ~(b < AlphabetLen)
  <2>1. Len(Digits[a]) = 1 /\ Len(Digits[b]) >= 2
    BY <1>3, <1>4, <1>6, <1>7, <1>9
  <2> QED
    BY <1>3, <2>1
<1>10. CASE ~(a < AlphabetLen) /\ b < AlphabetLen
  <2>1. Len(Digits[b]) = 1 /\ Len(Digits[a]) >= 2
    BY <1>3, <1>4, <1>6, <1>7, <1>10
  <2> QED
    BY <1>3, <2>1
<1>11. CASE ~(a < AlphabetLen) /\ ~(b < AlphabetLen)
  <2>1. a % AlphabetLen = b % AlphabetLen
    BY <1>3, <1>4, <1>7, <1>11
  <2>2. Digits[a \div AlphabetLen] = Digits[b \div AlphabetLen]
    <3> DEFINE d == a % AlphabetLen
               qa == a \div AlphabetLen
               qb == b \div AlphabetLen
    <3>1. /\ <<d>> \o Digits[qa] = <<d>> \o Digits[qb]
          /\ d \in Nat /\ qa \in Nat /\ qb \in Nat
      BY <1>3, <1>4, <1>7, <1>11, <2>1
    <3> HIDE DEF d, qa, qb
    <3>2. Digits[qa] \in Seq(Nat) /\ Digits[qb] \in Seq(Nat) /\ <<d>> \in Seq(Nat)
      BY <1>5, <3>1
    <3>3. Digits[qa] = Digits[qb]
      BY <3>1, <3>2, ConcatSimplifications
    <3> QED
      BY <3>3 DEF qa, qb
  <2>3. a \div AlphabetLen \in Nat /\ b \div AlphabetLen \in Nat /\ a \div AlphabetLen < a
    BY <1>4, <1>7, <1>11
  <2>4. a \div AlphabetLen = b \div AlphabetLen
    BY <1>2, <1>4, <2>2, <2>3
  <2> QED
    BY <1>3, <1>4, <2>1, <2>4, DivisionIsInjective
<1> QED
  BY <1>8, <1>9, <1>10, <1>11, AlphabetHasTwoLetters
=============================================================================
