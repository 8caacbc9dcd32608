----------------------------- MODULE Levenshtein -----------------------------
(* The strategies lev and dlev: lib/levenshtein.c and dicod/lev.c.           *)
EXTENDS Words

LOCAL INSTANCE SequencesExt
LOCAL INSTANCE FiniteSetsExt

CONSTANTS
    LevDist,          \* levenshtein_distance of lev.c
    Uninit            \* what dist holds when nothing was assigned to it
-----------------------------------------------------------------------------
nrows(damerau) == IF damerau THEN 3 ELSE 2

\* The entry j + 1 of the row idx of the letter i + 1, after the row prev; swap is
\* the row for a transposition
Cell(a, b, rows, i, j, idx, prev, swap) ==
    LET cost == IF Char(a, i + 1) = Char(b, j + 1) THEN 0 ELSE 1
    IN  Min({rows[prev][j + 1] + 1, rows[idx][j] + 1, rows[prev][j] + cost} \cup
            {rows[r][j - 1] + cost :
               r \in {t \in swap : i > 0 /\ j > 0 /\ Char(a, i + 1) = Char(b, j) /\ Char(a, i) = Char(b, j + 1)}})

\* The rows are used in turn, back is how far behind the one for a transposition is
EntryFrom(a, b, damerau, rows, i, j, back) ==
    LET row(r) == r % nrows(damerau)
    IN  Cell(a, b, rows, i, j, row(i + 1), row(i), IF damerau THEN {row(i + 4 - back)} ELSE {})

\* Wrong on purpose: a transposition starts from the row before
Entry_prev(a, b, damerau, rows, i, j) == EntryFrom(a, b, damerau, rows, i, j, 1)

Entry(a, b, damerau, rows, i, j) == EntryFrom(a, b, damerau, rows, i, j, 2)

\* Indices of a loop
UpTo(n) == [i \in 1 .. n |-> i - 1]

Row(a, b, damerau, rows, i) ==
    FoldLeft(LAMBDA rs, j : [rs EXCEPT ![(i + 1) % nrows(damerau)][j + 1] = Entry(a, b, damerau, rs, i, j)],
             [rows EXCEPT ![(i + 1) % nrows(damerau)][0] = i + 1], UpTo(Len(b)))

Rows(a, b, damerau) ==
    FoldLeft(LAMBDA rows, i : Row(a, b, damerau, rows, i),
             [r \in 0 .. nrows(damerau) - 1 |-> [j \in 0 .. Len(b) |-> IF r = 0 THEN j ELSE 0]],
             UpTo(Len(a)))

dico_levenshtein_distance(a, b, damerau) ==
    IF a = <<>> THEN Uninit ELSE Rows(a, b, damerau)[Len(a) % nrows(damerau)][Len(b)]

lev_sel(k, w, damerau) == dico_levenshtein_distance(k, w, damerau) \in 0 .. LevDist
-----------------------------------------------------------------------------
Without(w, i) == [j \in 1 .. Len(w) - 1 |-> IF j < i THEN w[j] ELSE w[j + 1]]
Same(a, b) == SameTo(a, b, MaxLen)
Differ(a, b) == {i \in 1 .. MaxLen : Char(a, i) # Char(b, i)}

\* One edit, or none, takes one word to the other
OneEdit(a, b, damerau) ==
    \/ Same(a, b)
    \/ \E i \in DOMAIN a : Same(Without(a, i), b)
    \/ \E i \in DOMAIN b : Same(a, Without(b, i))
    \/ Len(a) = Len(b) /\ \E i \in DOMAIN a : Differ(a, b) = {i}
    \/ /\ damerau /\ Len(a) = Len(b)
       /\ \E i \in 1 .. Len(a) - 1 : /\ Differ(a, b) = {i, i + 1}
                                     /\ Char(a, i) = Char(b, i + 1) /\ Char(a, i + 1) = Char(b, i)
=============================================================================
