------------------------------- MODULE IoStack -------------------------------
(* The streams of a session, as dicod_iostream stacks them: a line-buffered *)
(* stream ("up") over the CRLF translation of lib/crlfstr.c ("crlf") over   *)
(* a line-buffered stream ("lo") over the socket, of which "inp" is what    *)
(* the client has sent and nobody has read, "wire" what has been written.   *)
(* "said" records the bytes the session has handed to the upper stream.     *)
EXTENDS Stream

\* "cr": the last byte written was a carriage return (state_cr); "cb": a
\* carriage return has been read and not passed on
NewStack(size) ==
    [up |-> NewStream(size), lo |-> NewStream(size),
     crlf |-> [cr |-> FALSE, cb |-> FALSE], inp |-> <<>>, wire |-> <<>>, said |-> <<>>]
-----------------------------------------------------------------------------
(* Writing.                                                                *)

CrlfStep(acc, c) ==
    IF c = LF /\ ~acc.cr
    THEN [cr |-> FALSE, seg |-> <<>>,
          out |-> acc.out \o (IF acc.seg = <<>> THEN <<>> ELSE <<acc.seg>>) \o <<<<CR, LF>>>>]
    ELSE [acc EXCEPT !.cr = (c = CR), !.seg = Append(@, c)]

CrlfPieces(cr, bytes) ==
    LET end == FoldLeft(CrlfStep, [cr |-> cr, seg |-> <<>>, out |-> <<>>], bytes)
    IN  [cr |-> end.cr, out |-> end.out \o (IF end.seg = <<>> THEN <<>> ELSE <<end.seg>>)]

\* Wrong on purpose: the state is forgotten between two calls
crlfstr_write_forget(cr, bytes) == CrlfPieces(FALSE, bytes)

\* A newline goes out as CR LF unless a carriage return came before it, be it at
\* the end of an earlier call.  The results of the writes are not looked at.
crlfstr_write(cr, bytes) == CrlfPieces(cr, bytes)

FdWrite(io, bytes) == [io EXCEPT !.wire = @ \o bytes]

\* A stream has taken bytes and written w.out to what lies below it
LoPassed(io, w) == FoldLeft(FdWrite, [io EXCEPT !.lo = w.str], w.out)

LoWrite(io, bytes) == LoPassed(io, dico_stream_write(io.lo, bytes))

CrlfPassed(io, w) == FoldLeft(LoWrite, [io EXCEPT !.crlf.cr = w.cr], w.out)

CrlfWrite(io, bytes) == CrlfPassed(io, crlfstr_write(io.crlf.cr, bytes))

UpPassed(io, w) == FoldLeft(CrlfWrite, [io EXCEPT !.up = w.str], w.out)

UpWrite(io, bytes) == UpPassed([io EXCEPT !.said = @ \o bytes], dico_stream_write(io.up, bytes))

LoFlush(io) == LoPassed(io, dico_stream_flush(io.lo))

UpFlush(io) == LoFlush(UpPassed(io, dico_stream_flush(io.up)))
-----------------------------------------------------------------------------
(* Reading.  A result is [io, got]: the bytes delivered, <<>> for an error. *)

Fill(io, n, rest) == [io EXCEPT !.lo.buf = SubSeq(io.inp, 1, n), !.lo.off = 0, !.inp = rest]

\* How much of the input a line-buffered stream takes
FillLen(s, size) == IF LineLen(s) \in 1 .. size THEN LineLen(s) ELSE IF Len(s) < size THEN Len(s) ELSE size

Beyond(s, n) == SubSeq(s, n + 1, Len(s))

\* Wrong on purpose: input that follows the line is thrown away
stream_fill_buffer_drop(io) ==
    LET n == FillLen(io.inp, io.lo.size)
    IN  Fill(io, n, IF n = LineLen(io.inp) THEN <<>> ELSE Beyond(io.inp, n))

\* read(2) returns 0 or fails when inp has been used up: the client has closed
\* its end.  A line that was begun stays in the buffer and is not delivered.
stream_fill_buffer(io) ==
    LET n == FillLen(io.inp, io.lo.size) IN Fill(io, n, Beyond(io.inp, n))

Nothing(io) == [io |-> io, got |-> <<>>]

LoTake(io) == [io |-> [io EXCEPT !.lo.buf = Tail(@), !.lo.off = @ + 1], got |-> <<Head(io.lo.buf)>>]

LoFilled(io) ==
    IF LineLen(io.lo.buf) > 0 \/ Len(io.lo.buf) = io.lo.size THEN LoTake(io) ELSE Nothing(io)

LoRead(io) == IF io.lo.err THEN Nothing(io)
              ELSE IF io.lo.buf # <<>> THEN LoTake(io) ELSE LoFilled(stream_fill_buffer(io))

\* r: what LoRead has delivered
RECURSIVE CrlfByte(_, _)
CrlfByte(r, cbAfterNewline) ==
    LET c == Head(r.got)
    IN  IF r.got = <<>> THEN r
        ELSE IF c = LF THEN [r EXCEPT !.io.crlf.cb = @ /\ cbAfterNewline]
        ELSE IF r.io.crlf.cb THEN [r EXCEPT !.got = <<CR>>]
        ELSE IF c = CR THEN CrlfByte(LoRead([r.io EXCEPT !.crlf.cb = TRUE]), cbAfterNewline)
        ELSE r

\* Wrong on purpose: a newline does not end the state after a carriage return
crlfstr_read_sticky(io) == CrlfByte(LoRead(io), TRUE)

\* One byte through _crlfstr_read, where p is always the first byte of buf: the
\* byte that follows a lone carriage return is overwritten before it is kept, so
\* that it is lost and another carriage return takes its place.
crlfstr_read(io) == CrlfByte(LoRead(io), FALSE)

\* _stream_fill_buffer for the upper stream: until a newline, the end of the
\* buffer or an error, which is reported although bytes were stored before it
RECURSIVE UpFill(_, _)
UpFill(r, n) ==
    LET s == [r.io EXCEPT !.up.buf = @ \o r.got]
    IN  IF r.got = <<>> THEN Nothing(s)
        ELSE IF r.got = <<LF>> \/ n = 1 THEN [io |-> s, got |-> s.up.buf]
        ELSE UpFill(crlfstr_read(s), n - 1)

UpRead(io) == IF io.up.buf = <<>> THEN UpFill(crlfstr_read([io EXCEPT !.up.off = 0]), io.up.size)
              ELSE [io |-> io, got |-> io.up.buf]

\* dico_stream_getdelim reads byte by byte; a buffer holds a newline only as its
\* last byte, so that what is in the buffer is used up before the next filling.
RECURSIVE GetLineFrom(_, _)
GetLineFrom(f, line) ==
    LET used == [f.io EXCEPT !.up.buf = <<>>, !.up.off = @ + Len(f.got)]
    IN  IF f.got = <<>> THEN [io |-> f.io, line |-> line, ok |-> FALSE]
        ELSE IF Last(f.got) = LF THEN [io |-> used, line |-> line \o f.got, ok |-> TRUE]
        ELSE GetLineFrom(UpRead(used), line \o f.got)

dico_stream_getline(io) == GetLineFrom(UpRead(io), <<>>)
=============================================================================
