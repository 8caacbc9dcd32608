------------------------------- MODULE Stream -------------------------------
(* The line-buffered streams of lib/stream.c, as operators on one stream.  *)
(* A single buffer serves reading and writing: "buf" is what lies between  *)
(* cur and cur + level, "off" is cur - buffer.  An operator that writes to *)
(* the transport returns the list of those writes in "out".                *)
EXTENDS Naturals, SequencesExt

LF == 10
CR == 13

\* "within" records that no byte has been stored past the end of the buffer
NewStream(size) ==
    [size |-> size, buf |-> <<>>, off |-> 0, dirty |-> FALSE, err |-> FALSE,
     within |-> TRUE]

\* The length of the first line of s, its newline included; 0 if there is none
LineLen(s) == SelectInSeq(s, LAMBDA c : c = LF)

\* s cut after each newline; what follows the last one is not part of the result
RECURSIVE Lines(_)
Lines(s) == IF LineLen(s) = 0 THEN <<>>
            ELSE <<SubSeq(s, 1, LineLen(s))>> \o Lines(SubSeq(s, LineLen(s) + 1, Len(s)))

Unended(s) == SubSeq(s, Len(FlattenSeq(Lines(s))) + 1, Len(s))

BUFFER_FULL_P(s) == s.off + Len(s.buf) = s.size

\* Wrong on purpose: a complete line stays in the buffer
stream_buffer_full_p_late(s) == BUFFER_FULL_P(s)

stream_buffer_full_p(s) == BUFFER_FULL_P(s) \/ LineLen(s.buf) > 0

Sent(s, out, rest, home) ==
    [str |-> [s EXCEPT !.buf = rest, !.off = IF home THEN 0 ELSE @ + Len(s.buf) - Len(rest),
                       !.dirty = rest # <<>>],
     out |-> out]

FlushBuffer(s, all, home) ==
    IF ~s.dirty THEN [str |-> [s EXCEPT !.off = IF home THEN 0 ELSE @], out |-> <<>>]
    ELSE IF Unended(s.buf) = <<>> \/ ~(all \/ BUFFER_FULL_P(s))
    THEN Sent(s, Lines(s.buf), Unended(s.buf), home)
    ELSE Sent(s, Append(Lines(s.buf), Unended(s.buf)), <<>>, home)

\* Wrong on purpose: cur is left where the writes have moved it
stream_flush_buffer_stay(s, all) == FlushBuffer(s, all, FALSE)

\* Complete lines are written one by one, the rest when asked for or when it
\* reaches the end of the buffer; cur is moved to the start of the buffer.  A
\* buffer that is not dirty holds unread input, which is kept.
stream_flush_buffer(s, all) == FlushBuffer(s, all, TRUE)

\* Room is made in a buffer that is full
MakeRoom(s) == IF stream_buffer_full_p(s) THEN stream_flush_buffer(s, FALSE) ELSE [str |-> s, out |-> <<>>]

Store(s, bytes) ==
    [s EXCEPT !.buf = @ \o bytes, !.dirty = TRUE,
              !.within = @ /\ s.off + Len(s.buf) + Len(bytes) <= s.size]

After(out, f) == [f EXCEPT !.out = out \o @]

\* The loop of dico_stream_write: make room, then copy what fits.  The room is
\* computed from the level alone, without the offset of cur.
RECURSIVE stream_write_loop(_, _)
stream_write_loop(f, bytes) ==
    LET n == IF f.str.size - Len(f.str.buf) < Len(bytes) THEN f.str.size - Len(f.str.buf) ELSE Len(bytes)
    IN  IF bytes = <<>> THEN f
        ELSE stream_write_loop(After(f.out, MakeRoom(Store(f.str, SubSeq(bytes, 1, n)))),
                               SubSeq(bytes, n + 1, Len(bytes)))

\* Nothing is stored or written once an error has stuck to the stream
dico_stream_write(s, bytes) ==
    IF s.err THEN [str |-> s, out |-> <<>>] ELSE stream_write_loop(MakeRoom(s), bytes)

dico_stream_flush(s) ==
    IF s.err THEN [str |-> s, out |-> <<>>] ELSE stream_flush_buffer(s, TRUE)
=============================================================================
