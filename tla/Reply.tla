-------------------------------- MODULE Reply --------------------------------
(* How a command reaches the session and a definition the client: the loop  *)
(* of dicod_loop, print_definitions and the output stream of ostream.c over *)
(* the session's streams.  A status line is one byte and a newline.         *)
EXTENDS IoStack, Codec

CONSTANTS
    BufSize,          \* DICO_MAX_BUFFER, the buffers of the session's streams
    OutSize,          \* 1024, the buffer of an output stream
    FilterSize,       \* FILTER_BSIZE
    MaxLine,          \* 76, the length of a base64 line
    Encoding,         \* Content-Transfer-Encodings of the databases
    Command,          \* lines a client may send, with a token each
    Unfinished,       \* what it may send of a line before it closes its end
    Chunk,            \* what a module may write at a time
    MaxCmd,           \* bound: commands
    MaxDef,           \* bound: definitions of a word
    MaxText,          \* bound: bytes of text in a session
    MaxFault          \* bound: failing writes to the socket

DOT == 46
Count == 48           \* "150 n definitions found"
Found == 49           \* "151 ...", a text follows
Ok == 50              \* "250 ..."
NoMatch == 53         \* "552 No match"

\* Commands and replies share the buffers: where a line of n bytes ends in its
\* buffer it leaves room for a status line, or it ends with the buffer
LeavesRoom(n) == n % BufSize = 0 \/ (n % BufSize) + 3 <= BufSize

ASSUME ReplyAssumption ==
    /\ BufSize \in Nat \ {0} /\ OutSize \in Nat \ {0}
    /\ FilterSize \in Nat \ (0 .. 4) /\ MaxLine \in Nat \ {0}
    /\ Encoding \subseteq {"base64", "quoted-printable"} /\ Encoding # {}
    /\ \A c \in Command : LineLen(c) = Len(c) /\ c # <<>>
    /\ \A c \in Command : \A n \in {Len(c), Len(c) - 1} : n > 0 => LeavesRoom(n)

VARIABLES
    pc,               \* where the session is
    io,               \* its streams
    ost,              \* the output stream of the definition being sent
    mime,             \* option_mime
    closed,           \* the client has closed its end
    sent, got,        \* lines the client has sent, and the session has read
    replies,          \* the replies the session has completed
    text,             \* the definition written so far
    left,             \* definitions still to be sent after it
    faults

vars == <<pc, io, ost, mime, closed, sent, got, replies, text, left, faults>>

\* dicod_ostream_create
NewOstream(enc) == [str |-> NewStream(OutSize), init |-> FALSE, enc |-> FALSE,
                    flt |-> NewFilter(enc, FilterSize, MaxLine)]

NoOstream == NewOstream(CHOOSE e \in Encoding : TRUE)

Init ==
    /\ pc = "read" /\ io = NewStack(BufSize) /\ ost = NoOstream
    /\ mime = FALSE /\ closed = FALSE
    /\ sent = <<>> /\ got = <<>> /\ replies = <<>> /\ text = <<>>
    /\ left = 0 /\ faults = 0
-----------------------------------------------------------------------------
(* The output stream: w is a pair of the session's streams and it.         *)

ThroughCodec(w, c) == [io |-> FoldLeft(UpWrite, w.io, c.out), ost |-> [w.ost EXCEPT !.flt = c.flt]]

TransportWrite(w, bytes) ==
    IF w.ost.enc THEN ThroughCodec(w, CodecWrite(w.ost.flt, bytes))
                 ELSE [w EXCEPT !.io = UpWrite(@, bytes)]

TransportFlush(w) ==
    IF w.ost.enc THEN ThroughCodec(w, filter_wr_flush(w.ost.flt))
                 ELSE [w EXCEPT !.io = UpFlush(@)]

\* Headers and a blank line before the first byte; what follows is encoded
print_headers(w) ==
    [io |-> UpWrite(UpWrite(w.io, <<72, LF>>), <<LF>>), ost |-> [w.ost EXCEPT !.enc = TRUE]]

Headed(w) == IF ~w.ost.init /\ mime THEN print_headers(w) ELSE w

Dotted(w, dot) == IF dot THEN TransportWrite(w, <<DOT>>) ELSE w

Noted(w) == [w EXCEPT !.ost.init = TRUE, !.ost.str.err = w.ost.flt.err]

\* Each call is a line, or a piece of a line that did not fit into the buffer: a
\* dot is doubled where a call begins.  A failing filter stops the output stream.
OstreamPut(w, bytes, stuff) ==
    Noted(TransportWrite(Dotted(Headed(w), stuff /\ Head(bytes) = DOT), bytes))

\* Wrong on purpose: no dot is doubled
ostream_write_plain(w, bytes) == OstreamPut(w, bytes, FALSE)

ostream_write(w, bytes) == OstreamPut(w, bytes, TRUE)

\* The output stream has taken bytes and writes f.out
OstreamPassed(w, f) == FoldLeft(ostream_write, [w EXCEPT !.ost.str = f.str], f.out)

FlushBelow(w) == IF w.ost.str.err THEN w ELSE TransportFlush(w)

OstreamFlush(w) == FlushBelow(OstreamPassed(w, dico_stream_flush(w.ost.str)))
-----------------------------------------------------------------------------
(* The session.                                                            *)

\* What has been handed to the socket is sent, or a write fails and the error
\* sticks to the lower stream, whose buffer nobody looks at any more.  Bound: none
\* of it or all but the last byte went out before.
Transmit(to) ==
    \/ io' = to /\ UNCHANGED faults
    \/ /\ faults < MaxFault /\ faults' = faults + 1
       /\ Len(to.wire) > Len(io.wire)
       /\ \E k \in {Len(io.wire), Len(to.wire) - 1} :
            io' = [to EXCEPT !.wire = SubSeq(to.wire, 1, k), !.lo.err = TRUE]

\* get_input_line: blocks until there is a line, or nothing will come any more
CanRead == pc = "read" /\ (LineLen(io.inp) > 0 \/ closed \/ io.lo.err)

GetLine ==
    /\ CanRead
    /\ \E r \in {dico_stream_getline(io)} :
         /\ io' = r.io
         /\ got' = IF r.ok THEN Append(got, r.line) ELSE got
         /\ pc' = IF r.ok THEN "status" ELSE "ended"
    /\ UNCHANGED <<ost, mime, closed, sent, replies, text, left, faults>>

\* sig_alarm
Timeout ==
    /\ pc = "read"
    /\ pc' = "ended"
    /\ UNCHANGED <<io, ost, mime, closed, sent, got, replies, text, left, faults>>

Line(code) == [code |-> code, text |-> <<>>, enc |-> "none", whole |-> TRUE]

\* A reply of one line; OPTION MIME sets the flag
OneLine(code, setmime) ==
    /\ pc = "status"
    /\ Transmit(UpWrite(io, <<code, LF>>))
    /\ mime' = (mime \/ setmime)
    /\ replies' = Append(replies, Line(code))
    /\ pc' = "read"
    /\ UNCHANGED <<ost, closed, sent, got, text, left>>

\* The number of definitions, and in print_definitions the status line of the
\* first and a new output stream for it
BeginText ==
    /\ pc = "status"
    /\ Transmit(UpWrite(UpWrite(io, <<Count, LF>>), <<Found, LF>>))
    /\ left' \in 0 .. MaxDef - 1
    /\ \E e \in Encoding : ost' = IF mime THEN NewOstream(e) ELSE NoOstream
    /\ replies' = Append(replies, Line(Count))
    /\ pc' = "text"
    /\ UNCHANGED <<mime, closed, sent, got, text>>

Written == FoldLeft(LAMBDA n, r : n + Len(r.text), Len(text), replies)

\* dico_output_result: the module writes to the output stream (bound: no more of
\* it once a write has failed)
PutText(chunk) ==
    /\ pc = "text" /\ Written + Len(chunk) <= MaxText /\ ~io.lo.err
    /\ \E w \in {OstreamPassed([io |-> io, ost |-> ost], dico_stream_write(ost.str, chunk))} :
         Transmit(w.io) /\ ost' = w.ost
    /\ text' = text \o chunk
    /\ UNCHANGED <<pc, mime, closed, sent, got, replies, left>>

CloseText(w, close) == IF close THEN OstreamFlush(w) ELSE w

EndTextWith(close) ==
    /\ pc = "text"
    /\ \E w \in {CloseText(TransportFlush([io |-> io, ost |-> ost]), close)} :
         LET sentText == [code |-> Found, text |-> text, whole |-> ~w.ost.flt.err,
                          enc |-> IF w.ost.enc THEN w.ost.flt.enc ELSE "none"]
             Ended(code) == UpWrite(UpWrite(w.io, <<LF, DOT, LF>>), <<code, LF>>)
         IN  IF left > 0
             THEN /\ Transmit(Ended(Found))
                  /\ replies' = Append(replies, sentText)
                  /\ ost' = NewOstream(ost.flt.enc) /\ left' = left - 1
                  /\ UNCHANGED pc
             ELSE /\ Transmit(Ended(Ok))
                  /\ replies' = replies \o <<sentText, Line(Ok)>>
                  /\ ost' = NoOstream /\ pc' = "read"
                  /\ UNCHANGED left
    /\ text' = <<>>
    /\ UNCHANGED <<mime, closed, sent, got>>

\* Wrong on purpose: the output stream is destroyed without having been closed
EndText_unclosed == EndTextWith(FALSE)

\* dico_stream_bytes_out flushes the transport of the output stream; then the
\* stream is closed and destroyed and the text ended, and the next definition or
\* the end of the command follows.
EndText == EndTextWith(TRUE)

Status == BeginText \/ OneLine(NoMatch, FALSE) \/ OneLine(Ok, TRUE)

-----------------------------------------------------------------------------
(* The client.                                                             *)

Send(cmd) ==
    /\ ~closed /\ Len(sent) < MaxCmd
    /\ sent' = Append(sent, cmd)
    /\ io' = [io EXCEPT !.inp = @ \o cmd]
    /\ UNCHANGED <<pc, ost, mime, closed, got, replies, text, left, faults>>

\* The client closes its end, perhaps within a line
Close(part) ==
    /\ ~closed /\ closed' = TRUE
    /\ io' = [io EXCEPT !.inp = @ \o part]
    /\ UNCHANGED <<pc, ost, mime, sent, got, replies, text, left, faults>>

Next ==
    \/ GetLine \/ Timeout \/ Status \/ EndText
    \/ \E c \in Chunk : PutText(c)
    \/ \E c \in Command : Send(c)
    \/ \E p \in Unfinished : Close(p)

Spec == Init /\ [][Next]_vars

\* The session's process runs, and a module comes to the end of a text: weak
\* fairness of GetLine, of Status and of EndText, in terms of their guards, each of
\* which its action makes false.
FairSpec == Spec /\ []<>~CanRead /\ []<>(pc # "status") /\ []<>(pc # "text")
-----------------------------------------------------------------------------
(* What a client makes of the bytes it receives.                           *)

\* The line without its end
Chomp(line) == LET l == Front(line) IN IF l # <<>> /\ Last(l) = CR THEN Front(l) ELSE l

ClientLines(bytes) == LET ls == Lines(bytes) IN [i \in DOMAIN ls |-> Chomp(ls[i])]

\* The replies in a sequence of lines: a text ends at a line with a single dot
RECURSIVE Seen(_)
Seen(ls) ==
    LET end == IF Head(ls) = <<Found>> THEN SelectInSeq(ls, LAMBDA l : l = <<DOT>>) ELSE 1
    IN  IF ls = <<>> \/ end = 0 THEN <<>>
        ELSE <<[code |-> Head(ls), body |-> SubSeq(ls, 2, end - 1)]>>
             \o Seen(SubSeq(ls, end + 1, Len(ls)))

SeenReplies == Seen(ClientLines(io.wire))

\* A text as the lines of a client's screen: a dot at the head of a line is dropped
Unstuffed(ls) == [i \in DOMAIN ls |-> IF ls[i] # <<>> /\ Head(ls[i]) = DOT THEN Tail(ls[i]) ELSE ls[i]]

\* Every byte of a text that the output stream has passed on line by line
Stuffed(bytes) ==
    LET ls == Lines(bytes)
    IN  FlattenSeq([i \in DOMAIN ls |-> (IF Head(ls[i]) = DOT THEN <<DOT>> ELSE <<>>) \o ls[i]])

\* No line of the text is longer than the buffer of the output stream
Fits(bytes) == LET ls == Lines(bytes \o <<LF>>) IN \A i \in DOMAIN ls : Len(ls[i]) <= OutSize + 1
HexValue(c) == IF c < 65 THEN c - 48 ELSE c - 55

\* RFC 2045 without soft line breaks
RECURSIVE QpDecode(_)
QpDecode(b) ==
    IF b = <<>> THEN <<>>
    ELSE IF Head(b) = EQ /\ Len(b) > 2
    THEN <<16 * HexValue(b[2]) + HexValue(b[3])>> \o QpDecode(SubSeq(b, 4, Len(b)))
    ELSE <<Head(b)>> \o QpDecode(Tail(b))

\* The bytes of the groups of four characters, each decoded by itself
Base64Decode(b) ==
    LET value(c) == IF c = EQ THEN 0 ELSE CHOOSE v \in 0 .. 63 : b64tab(v) = c
        group(g) == LET v == [i \in 1 .. 4 |-> value(b[4 * g - 4 + i])]
                        pad == Cardinality({i \in 1 .. 4 : b[4 * g - 4 + i] = EQ})
                    IN  SubSeq(<<4 * v[1] + v[2] \div 16, (16 * v[2] + v[3] \div 4) % 256,
                                 (64 * v[3] + v[4]) % 256>>, 1, 3 - pad)
    IN  FlattenSeq([g \in 1 .. Len(b) \div 4 |-> group(g)])

\* What a MIME client decodes: all that follows the header and its blank line, but
\* for the newline before the dot
Payload(enc, body) ==
    LET ls == SubSeq(body, 3, Len(body))
    IN  IF enc = "base64" THEN Base64Decode(FlattenSeq(ls))
        ELSE QpDecode(FlattenSeq([i \in 1 .. Len(ls) - 1 |-> Append(ls[i], LF)]))
-----------------------------------------------------------------------------
(* Properties.                                                             *)

\* dico_stream_write takes the room in the buffer from its level alone although
\* the commands read before have moved the start of the data: no byte is stored
\* past the end of a buffer all the same, if the command lines leave room for a
\* status line where they end.  Nor do the encoders write past the end of theirs.
InBuffer ==
    /\ io.up.within /\ io.lo.within /\ ost.str.within
    /\ Len(ost.flt.buf) <= ost.flt.size /\ Len(ost.flt.inb) <= ost.flt.min

\* The bytes with CR LF for every newline that has no carriage return before it
CrlfOf(s) == FlattenSeq([i \in DOMAIN s |->
                IF s[i] = LF /\ (i = 1 \/ s[i - 1] # CR) THEN <<CR, LF>> ELSE <<s[i]>>])

\* What has gone out to the client is, at every moment and whichever write
\* failed, a beginning of what the session has written, with newlines translated:
\* nothing is lost, repeated or overtaken between the two buffers.
InOrder == IsPrefix(io.wire, CrlfOf(io.said))

\* While dicod_loop waits for the next command nothing it has said is left in
\* a buffer: client and server never wait for each other.
AllOut == pc = "read" /\ ~io.lo.err => io.wire = CrlfOf(io.said)

Encoded(r) == r.enc # "none"

\* Not sent through an encoder, or a text that ends with a newline and has gone
\* through it: dico_stream_bytes_out then finds no byte held back before it
Clean(r) == Encoded(r) => r.whole /\ Last(r.text) = LF

Delivered == pc = "read" /\ ~io.lo.err /\ \A i \in DOMAIN replies : Clean(replies[i])

\* A client that reads replies by the rules of the protocol sees as many as the
\* session has given, with their codes, whatever the text: no line of a
\* definition ends the text early and no status line is taken for text.
RepliesInStep ==
    Delivered =>
      LET seen == SeenReplies
      IN  [i \in DOMAIN seen |-> seen[i].code]
            = [i \in DOMAIN replies |-> <<replies[i].code>>]

\* Without MIME the client has the module's text byte for byte, up to the kind of
\* its line ends and with the newline print_definitions adds.
TextExact ==
    Delivered =>
      LET seen == SeenReplies IN
      \A i \in DOMAIN replies :
        replies[i].code = Found /\ ~Encoded(replies[i]) /\ Fits(replies[i].text) =>
          Unstuffed(seen[i].body) = ClientLines(replies[i].text \o <<LF>>)

\* With MIME the client decodes every byte of a text that ends with a newline and
\* is long enough to make a group of the encoder, and only these, however the
\* module cut it into writes; or the output stream has failed.
EncodedExact ==
    Delivered =>
      LET seen == SeenReplies IN
      \A i \in DOMAIN replies :
        LET r == replies[i]
        IN  Encoded(r) /\ Fits(r.text)
              /\ Len(Stuffed(r.text)) >= NewOstream(r.enc).flt.min
            => Payload(r.enc, seen[i].body) = Stuffed(r.text)

\* The encodings of doc/dico.texi are ways to send a text: the client decodes the
\* text that the module wrote to the output stream.
DocEncoded ==
    Delivered =>
      LET seen == SeenReplies IN
      \A i \in DOMAIN replies :
        LET r == replies[i]
        IN  Encoded(r) => Payload(r.enc, seen[i].body) = Stuffed(r.text)

\* A session reads the lines the client has sent, in the order they were sent. A
\* line without a carriage return in its midst is read exactly, with CR LF as a
\* newline, be it longer than the buffers and whatever the line before it held.
LinesIntact ==
    \A i \in DOMAIN got :
      LET line == Chomp(sent[i]) IN ~Contains(line, CR) => got[i] = Append(line, LF)
=============================================================================
