------------------------------- MODULE MCWordAll ------------------------------
EXTENDS WordAll, Levenshtein

\* 2 begins a reserved word, 3 is the same in another case; so are 4 and 5
MCLetter == 2 .. 6
MCWord == {<<2>>, <<5>>, <<4, 6>>, <<6, 4, 6>>}
MCKey == {<<>>, <<2>>, <<3>>, <<4>>, <<4, 6>>, <<6, 4>>}

\* The strategy with a selector is dlev
MCSel(k, w) == lev_sel(k, w, TRUE)
MCStratcl ==
    [exact |-> {[type |-> "length", lengths |-> {2}]},
     suffix |-> {[type |-> "word", word |-> <<3>>]}]

\* Articles are not in the order of their words and share chunks.  In the first
\* table two of them lie in the chunk that is corrupt, the next one does not; in the
\* second the third needs chunks again that the second threw out, and the last lies
\* beyond the text
At(offset, size) == [offset |-> offset, size |-> size]
MCArticles ==
    {<<At(0, 3), At(6, 2), At(5, 2), At(0, 2)>>,
     <<At(3, 3), At(0, 2), At(2, 4), At(9, 1)>>}

\* A match by dlev lists the words of the index that one insertion, deletion,
\* substitution or transposition of adjacent letters takes to the key, and no other;
\* without transpositions, as lev, the rows in turn give the same as the definition.
EditsExact ==
    op = "select" /\ key # <<>> /\ ~RESERVED_WORD(key) /\ pc \in {"done", "none"} =>
      \A i \in 1 .. N :
        /\ lev_sel(key, index[i], FALSE) <=> OneEdit(key, index[i], FALSE)
        /\ ~RESERVED_WORD(index[i]) =>
             (OneEdit(key, index[i], TRUE) <=> \E j \in DOMAIN list : Same(index[list[j]], index[i]))
=============================================================================
