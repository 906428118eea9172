----------------------------- MODULE Shortener -----------------------------
(***************************************************************************)
(* internal/shortener: the number drawn for a URL, written in the digits of*)
(* the alphabet.  The letters differ, so a digit stands for its letter.    *)
(***************************************************************************)
EXTENDS Naturals, Sequences

CONSTANT AlphabetLen \* letters of the alphabet

ASSUME AlphabetHasTwoLetters == AlphabetLen \in Nat /\ AlphabetLen > 1

\* The loop of Shorten: the lowest digit comes first.
Digits[n \in Nat] ==
    IF n < AlphabetLen THEN <<n>>
    ELSE <<n % AlphabetLen>> \o Digits[n \div AlphabetLen]

Shorten(id) == Digits[id]
=============================================================================
