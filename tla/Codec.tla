-------------------------------- MODULE Codec --------------------------------
(* The encoding filter streams: lib/fltstream.c with the encoders of         *)
(* lib/base64.c and lib/qp.c.  A filter has no line buffer of its own; "buf" *)
(* holds encoded bytes, "inb" the bytes that wait for a whole group, "col"   *)
(* the length of the line being written.  Operators return the filter and    *)
(* the list of writes to its transport in "out".                             *)
EXTENDS Stream

EQ == 61

NewFilter(enc, size, maxline) ==
    [enc |-> enc, size |-> size, buf |-> <<>>, inb |-> <<>>, col |-> 0, err |-> FALSE,
     min |-> IF enc = "base64" THEN 3 ELSE 4,
     maxline |-> IF enc = "base64" THEN maxline ELSE 0]

Least(m, n) == IF m < n THEN m ELSE n

\* b64tab and _hexdigits
b64tab(v) == IF v < 26 THEN 65 + v ELSE IF v < 52 THEN 71 + v
             ELSE IF v < 62 THEN v - 4 ELSE IF v = 62 THEN 43 ELSE 47
hexdigit(v) == IF v < 10 THEN 48 + v ELSE 55 + v

\* Four characters for one, two or three bytes
Base64Group(b) ==
    LET at(i) == IF i <= Len(b) THEN b[i] ELSE 0
    IN  <<b64tab(at(1) \div 4), b64tab((at(1) * 16 + at(2) \div 16) % 64),
          IF Len(b) < 2 THEN EQ ELSE b64tab((at(2) * 4 + at(3) \div 64) % 64),
          IF Len(b) < 3 THEN EQ ELSE b64tab(at(3) % 64)>>

\* _flt_base64_encode: up to three bytes make one group, padded if need be; of
\* more, the whole groups that fit into the room are encoded
base64_encode(b, room) ==
    LET groups == IF Len(b) <= 3 THEN 1 ELSE Least(Len(b) \div 3, room \div 4)
        used == Least(Len(b), 3 * groups)
    IN  [used |-> used,
         out |-> FlattenSeq([g \in 1 .. groups |->
                               Base64Group(SubSeq(b, 3 * g - 2, Least(3 * g, used)))])]

QpChar(c) ==
    IF (c \in 32 .. 126 /\ c # EQ) \/ c \in {9, LF} THEN <<c>>
    ELSE <<EQ, hexdigit(c \div 16), hexdigit(c % 16)>>

\* dico_qp_encode: as many characters as fit
qp_encode(b, room) ==
    LET text(n) == FlattenSeq([i \in 1 .. n |-> QpChar(b[i])])
        used == Max({n \in 0 .. Len(b) : Len(text(n)) <= room})
    IN  [used |-> used, out |-> text(used)]

xcode(f, b) == IF f.enc = "base64" THEN base64_encode(b, f.size - Len(f.buf))
               ELSE qp_encode(b, f.size - Len(f.buf))

\* The pieces filter_flush cuts the buffer into, a newline after each full line
RECURSIVE CutLines(_, _, _)
CutLines(b, col, maxline) ==
    LET n == Least(maxline - col, Len(b))
    IN  IF b = <<>> THEN [col |-> col, out |-> <<>>]
        ELSE LET more == CutLines(SubSeq(b, n + 1, Len(b)), (col + n) % maxline, maxline)
             IN  [col |-> more.col,
                  out |-> <<SubSeq(b, 1, n)>>
                          \o (IF col + n = maxline THEN <<<<LF>>>> ELSE <<>>) \o more.out]

\* Neither encoder leaves a newline in a buffer that is cut into lines
filter_flush(f) ==
    LET cut == IF f.maxline = 0 THEN [col |-> f.col, out |-> <<f.buf>>]
               ELSE CutLines(f.buf, f.col, f.maxline)
    IN  IF f.buf = <<>> THEN [flt |-> f, out |-> <<>>]
        ELSE [flt |-> [f EXCEPT !.buf = <<>>, !.col = cut.col], out |-> cut.out]

Flushed(f, full) == IF full THEN filter_flush(f) ELSE [flt |-> f, out |-> <<>>]

\* w: the filter and the writes so far
MadeRoom(w, b) == IF xcode(w.flt, b).used = 0 THEN After(w.out, filter_flush(w.flt)) ELSE w

Put(w, x) == [flt |-> [w.flt EXCEPT !.buf = @ \o x.out], out |-> w.out, used |-> x.used]

Encode(w, b) == Put(w, xcode(w.flt, b))

\* Encode at the end of the buffer, which is flushed when it is almost full and
\* when nothing fits
filter_write0(f, b) == Encode(MadeRoom(Flushed(f, Len(f.buf) >= f.size - f.min), b), b)

\* Of the call b, n bytes have completed the group that w has encoded, perhaps in
\* part.  The rest is encoded at once, padded if it is short.
WriteRest(w, group, b, n) ==
    IF w.used < group THEN [w EXCEPT !.flt.err = TRUE, !.used = 0]
    ELSE IF n = Len(b) THEN [w EXCEPT !.flt.inb = <<>>, !.used = n]
    ELSE LET Both(v) == [v EXCEPT !.out = w.out \o @, !.used = n + @]
         IN  Both(filter_write0([w.flt EXCEPT !.inb = <<>>], SubSeq(b, n + 1, Len(b))))

WriteGroup(f, b, n) ==
    IF Len(f.inb) < f.min THEN [flt |-> f, out |-> <<>>, used |-> n]
    ELSE WriteRest(filter_write0(f, f.inb), Len(f.inb), b, n)

Gather(f, b, n) == WriteGroup([f EXCEPT !.inb = @ \o SubSeq(b, 1, n)], b, n)

\* Bytes that make no group are kept until a later call completes it.  It is an
\* error when the group does not fit into the buffer as a whole.
filter_write(f, b) ==
    IF Len(b) < f.min \/ f.inb # <<>> THEN Gather(f, b, Least(f.min - Len(f.inb), Len(b)))
    ELSE filter_write0(f, b)

\* dico_stream_write_unbuffered: call the filter until it has taken everything or
\* fails, which sticks
RECURSIVE CodecWrite(_, _)
CodecWrite(f, b) ==
    LET Rest(w) == After(w.out, CodecWrite(w.flt, SubSeq(b, w.used + 1, Len(b))))
    IN  IF b = <<>> \/ f.err THEN [flt |-> f, out |-> <<>>] ELSE Rest(filter_write(f, b))

NewlineAfter(w, last) == IF last = LF THEN w ELSE [w EXCEPT !.out = Append(@, <<LF>>)]

\* w is what the flush of the buffer has written, v what was held encoded
FlushGroup(w, v) == NewlineAfter(After(w.out \o v.out, filter_flush(v.flt)), Last(v.flt.buf))

FlushHeld(f, w, held) ==
    IF f.buf = <<>> THEN [flt |-> f, out |-> <<>>]
    ELSE IF held = <<>> THEN NewlineAfter(w, Last(f.buf))
    ELSE FlushGroup(w, filter_write0(w.flt, held))

\* Wrong on purpose: bytes that wait for a group are left out
filter_wr_flush_whole(f) == FlushHeld(f, filter_flush(f), <<>>)

\* The bytes that wait for a group are encoded, padded, and stay where they are.
\* Nothing at all happens while the buffer is empty.
filter_wr_flush(f) == FlushHeld(f, filter_flush(f), f.inb)
=============================================================================
