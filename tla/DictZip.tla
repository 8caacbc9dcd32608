------------------------------- MODULE DictZip -------------------------------
(* The text of a dict.org database, compressed in chunks, and the cache of   *)
(* chunks: modules/dict.org/dictstr.c and printdef of dictorg.c.  A byte of  *)
(* the text is its offset.                                                   *)
EXTENDS Integers, Filters

CONSTANTS
    ChunkSize,        \* chunk_size
    CacheChunks,      \* cache_size, 10 in the code
    DictSize,         \* size
    Corrupt,          \* numbers of the chunks that inflate refuses
    Piece             \* size of the buffer of printdef

ASSUME DictZipAssumption ==
    /\ ChunkSize \in Nat \ {0} /\ CacheChunks \in Nat \ {0} /\ DictSize \in Nat
    /\ Piece \in Nat \ {0}

NoByte == -1
Text(first, n) == [i \in 1 .. n |-> first + i - 1]
ChunkLen(num) == LET left == DictSize - num * ChunkSize IN IF left < ChunkSize THEN left ELSE ChunkSize
-----------------------------------------------------------------------------
(* A stream: offset; cache; whether the flags have _STR_ERR and inflate has  *)
(* failed, which it does ever after; the chunks it failed for.               *)
dict_stream_create == [offset |-> 0, cache |-> <<>>, err |-> FALSE, refused |-> {}]

cache_create_chunk == [num |-> -1, buffer |-> [i \in 1 .. ChunkSize |-> NoByte], size |-> 0, refcount |-> 0]

\* What was the last chunk keeps its buffer and size
cache_alloc(cache) ==
    IF Len(cache) < CacheChunks THEN Append(cache, cache_create_chunk)
    ELSE [cache EXCEPT ![Len(cache)].refcount = 0, ![Len(cache)].num = -1]

\* Chunks are in the order of how often they were used
Promote(cache, n, i, cp) ==
    IF i = n THEN [cache EXCEPT ![n] = cp] ELSE [cache EXCEPT ![i] = cp, ![n] = cache[i]]

cache_promote(cache, n) ==
    Promote(cache, n, Least({i \in 1 .. n : \A j \in i .. n - 1 : cache[j].refcount <= cache[n].refcount}),
            [cache[n] EXCEPT !.refcount = @ + 1])

Slot(cache, num) == Least({i \in DOMAIN cache : cache[i].num = num})

\* A new chunk gets its number
cache_enter(cache, num) == cache_promote([cache EXCEPT ![Len(cache)].num = num], Len(cache))

\* It is inflated to its place; it keeps its number if that fails
cache_inflate(str, cache, num, place) ==
    IF num \in Corrupt \/ str.refused # {}
    THEN [ok |-> FALSE, str |-> [str EXCEPT !.cache = cache, !.refused = @ \cup {num}]]
    ELSE [ok |-> TRUE,
          str |-> [str EXCEPT !.cache =
                     [cache EXCEPT ![place].buffer = Text(num * ChunkSize, ChunkLen(num)),
                                   ![place].size = ChunkLen(num)]]]

cache_read(str, cache, num) == cache_inflate(str, cache, num, Slot(cache, num))

cache_get(str, num) ==
    IF \E i \in DOMAIN str.cache : str.cache[i].num = num
    THEN [ok |-> TRUE, str |-> [str EXCEPT !.cache = cache_promote(str.cache, Slot(str.cache, num))]]
    ELSE cache_read(str, cache_enter(cache_alloc(str.cache), num), num)

\* The size is unsigned, and what lies behind the end of a buffer is not text
Copy(rd, str, cp, start) ==
    LET n == IF cp.size < rd.off \/ cp.size - rd.off > rd.size THEN rd.size ELSE cp.size - rd.off
    IN  [str |-> [str EXCEPT !.offset = @ + n], num |-> rd.num + 1, off |-> start, size |-> rd.size - n,
         buf |-> rd.buf \o [i \in 1 .. n |-> IF rd.off + i \in DOMAIN cp.buffer
                                             THEN cp.buffer[rd.off + i] ELSE NoByte],
         ok |-> TRUE]

CopyGot(rd, got, start) ==
    IF got.ok THEN Copy(rd, got.str, got.str.cache[Slot(got.str.cache, rd.num)], start)
    ELSE [rd EXCEPT !.str = got.str, !.ok = FALSE]

\* An iteration of _dict_read_dzip
CopyFrom(rd, start) ==
    IF rd.size = 0 \/ ~rd.ok THEN rd ELSE CopyGot(rd, cache_get(rd.str, rd.num), start)

\* Wrong on purpose: the next chunk is not read from its beginning
CopyChunk_same(rd) == CopyFrom(rd, rd.off)

CopyChunk(rd) == CopyFrom(rd, 0)

\* Each iteration but one that copies nothing, from a chunk that inflate refused,
\* makes size smaller
dict_read_dzip(str, size) ==
    LET num == str.offset \div ChunkSize
        most == size + DictSize \div ChunkSize + 1
        read[i \in 0 .. most] ==
          IF i = 0 THEN [str |-> str, num |-> num, off |-> str.offset - num * ChunkSize, size |-> size,
                         buf |-> <<>>, ok |-> TRUE]
          ELSE CopyChunk(read[i - 1])
    IN  read[most]

\* dico_stream_seek: an offset it refuses is the last thing the stream does
dict_seek(str, offset) ==
    IF str.err THEN str
    ELSE IF offset > DictSize THEN [str EXCEPT !.err = TRUE] ELSE [str EXCEPT !.offset = offset]

\* dico_stream_read without a buffer, of all the bytes or none
AllOrNone(rd) == [str |-> rd.str, buf |-> IF rd.ok THEN rd.buf ELSE <<>>, ok |-> rd.ok]

dict_read(str, size) ==
    IF str.err \/ size = 0 THEN [str |-> str, buf |-> <<>>, ok |-> FALSE]
    ELSE AllOrNone(dict_read_dzip(str, size))

\* A piece follows what has been written, unless a read has failed
PrintPiece(out, size) ==
    LET Behind(got) == [got EXCEPT !.buf = out.buf \o @]
    IN  IF out.ok THEN Behind(dict_read(out.str, size)) ELSE out

\* An article is written as far as it can be read
PrintFrom(str, size) ==
    LET written[i \in 0 .. (size + Piece - 1) \div Piece] ==
          IF i = 0 THEN [str |-> str, buf |-> <<>>, ok |-> ~str.err]
          ELSE PrintPiece(written[i - 1], IF i * Piece > size THEN size % Piece ELSE Piece)
    IN  written[(size + Piece - 1) \div Piece]

printdef(str, article) == PrintFrom(dict_seek(str, article.offset), article.size)

\* find_db_entry looks at the result of the read only
db_entry(str, article) == dict_read(dict_seek(str, article.offset), article.size)

\* The chunks an article is in
ChunksOf(article) == {(article.offset + i) \div ChunkSize : i \in 0 .. article.size - 1}
=============================================================================
