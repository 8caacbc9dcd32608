-------------------------------- MODULE Words --------------------------------
(* Words and the comparisons of lib/utf8.c that the database modules use.  A *)
(* word is a sequence of code points; two of them are the same letter if     *)
(* utf8_wc_toupper takes both to the same one.                               *)
EXTENDS Integers, Sequences

CONSTANTS
    Letter,           \* code points: c and d are the same letter if c \div 2 = d \div 2
    MaxLen,           \* bound: length of a word
    Word,             \* words of an index
    Key               \* words that are looked for

ASSUME WordAssumption ==
    /\ Letter \subseteq Nat \ {0, 1} /\ MaxLen \in Nat
    /\ Word \cup Key \subseteq Seq(Letter)
    /\ \A w \in Word \cup Key : Len(w) <= MaxLen
-----------------------------------------------------------------------------
\* The i-th letter in upper case, 0 at the end of the string and after it
Char(w, i) == IF i <= Len(w) THEN w[i] \div 2 ELSE 0

\* a comes before b within the first n letters
Before(a, b, n) ==
    \E k \in 1 .. n : /\ Char(a, k) < Char(b, k)
                      /\ \A i \in 1 .. k - 1 : Char(a, i) = Char(b, i)

utf8_strncasecmp(a, b, n) == IF Before(a, b, n) THEN -1 ELSE IF Before(b, a, n) THEN 1 ELSE 0

utf8_strcasecmp(a, b) == utf8_strncasecmp(a, b, MaxLen + 1)

\* The first n letters are the same, whatever their case
SameTo(a, b, n) == \A i \in 1 .. n : Char(a, i) = Char(b, i)
=============================================================================
