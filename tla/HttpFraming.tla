----------------------------- MODULE HttpFraming -----------------------------
(***************************************************************************)
(* How an HTTP/1 message is delimited: the writer of a request or response *)
(* (request.go, response.go, transferWriter of transfer.go, chunked.go)    *)
(* chooses a framing from the fields of the message and copies the body;   *)
(* the reader of the other end (transferReader, body, chunkedReader) finds *)
(* the end of the body again, while its user reads and closes as it likes. *)
(*                                                                         *)
(* A body is the sequence 1..n of its bytes.  The wire carries the header  *)
(* and then tokens: a byte of data, the line of a chunk's size, CRLF, a    *)
(* trailer, and the message that follows on the same connection.  The      *)
(* connection may be cut after any token.                                  *)
(***************************************************************************)
EXTENDS Integers, Sequences, FiniteSets, SequencesExt

CONSTANTS
  Exchanges,                \* messages to write, and how their bodies behave
  maxPostHandlerReadBytes,  \* what Close drains at most (256 * 1024)
  DrainBuffer               \* the buffer of io.Copy

ASSUME FramingAssumption == maxPostHandlerReadBytes \in Nat /\ DrainBuffer \in Nat \ {0}

VARIABLES
  msg,       \* the message, from Exchanges
  tw,        \* transferWriter and the goroutine that runs it
  header,    \* the header on the wire: lengths, encodings, close, trailer
  wire,      \* tokens that were written and are not delivered
  buffered,  \* tokens in the reader's bufio.Reader
  cut,       \* the connection was cut: nothing more is delivered
  rd,        \* the reader: where it is, how the body is delimited
  call       \* the Read or Close that runs, and what it has

framingVars == <<msg, tw, header, wire, buffered, cut, rd, call>>

Chunked(te) == te # <<>> /\ te[1] = "chunked"
Lesser(a, b) == IF a < b THEN a ELSE b
noResponseBodyExpected(method) == method = "HEAD"
bodyAllowedForStatus(status) == status \notin 100..199 \cup {204, 304}
requestMethodUsuallyLacksBody(method) == method \in {"GET", "HEAD", "DELETE"}
IsRequest == msg.dir = "request"
Data(bytes) == [i \in 1..Len(bytes) |-> [t |-> "data", n |-> bytes[i]]]
Size(n) == [t |-> "size", n |-> n]
CRLF == [t |-> "crlf", n |-> 0]
Trailers == [t |-> "trailer", n |-> 0]
Following == [t |-> "next", n |-> 0]

-----------------------------------------------------------------------------
(* The writer *)

outgoingLength(m) == IF m.body \in {"nil", "NoBody"} THEN 0 ELSE IF m.cl # 0 THEN m.cl ELSE -1

\* The end of newTransferWriter: Body, ContentLength, TransferEncoding and Trailer fit
\* together.
Sanitize(t) ==
  LET head == ~IsRequest /\ noResponseBodyExpected(msg.method)
      body == IF head THEN "nil" ELSE t.body
      te == IF ~head /\ (~msg.http11 \/ t.body = "nil") THEN <<>> ELSE t.te
      cl == IF Chunked(te) THEN -1 ELSE IF ~head /\ body = "nil" THEN 0 ELSE t.cl IN
  [t EXCEPT !.pc = "header", !.body = body, !.te = te, !.cl = cl]

\* newTransferWriter for a request, as far as the probe.  The probe is for methods that
\* usually have no body.
StartRequest ==
  /\ tw.pc = "start" /\ IsRequest
  /\ LET len == outgoingLength(msg)
         t == [tw EXCEPT !.body = msg.body, !.cl = len, !.te = msg.te, !.close = msg.close]
         unknown == len < 0 /\ msg.te = <<>> /\ msg.http11 IN
     tw' = IF ~msg.host \/ (msg.cl # 0 /\ msg.body = "nil") THEN [tw EXCEPT !.pc = "error"]
           ELSE IF unknown /\ requestMethodUsuallyLacksBody(msg.method)
                THEN [t EXCEPT !.pc = "probe", !.probe = "reading"]
           ELSE Sanitize(IF unknown THEN [t EXCEPT !.te = <<"chunked">>] ELSE t)
  /\ UNCHANGED <<msg, header, wire, buffered, cut, rd, call>>

\* The next byte of the user's body, or how it ends.
NextByte == IF tw.pos = msg.failsAt THEN "fail" ELSE IF tw.pos > msg.bytes THEN "EOF" ELSE "byte"

\* The goroutine of probeRequestBody reads one byte and leaves the result in ByteReadCh.
ProbeReads ==
  /\ tw.probe = "reading"
  /\ tw' = [tw EXCEPT !.probe = NextByte, !.pos = IF NextByte = "byte" THEN @ + 1 ELSE @]
  /\ UNCHANGED <<msg, header, wire, buffered, cut, rd, call>>

\* The result comes before the timer: an empty body is none.
Probed(t) ==
  CASE t.probe = "EOF" -> Sanitize([t EXCEPT !.body = "nil", !.cl = 0])
    [] t.probe \in {"byte", "fail"} -> Sanitize([t EXCEPT !.te = <<"chunked">>, !.pending = TRUE])
ProbeAnswers ==
  /\ tw.pc = "probe" /\ tw.probe # "reading"
  /\ tw' = Probed(tw)
  /\ UNCHANGED <<msg, header, wire, buffered, cut, rd, call>>

\* The timer comes first: the byte is read later (finishAsyncByteRead).
ProbeTimer ==
  /\ tw.pc = "probe" /\ msg.slow
  /\ tw' = Sanitize([tw EXCEPT !.te = <<"chunked">>, !.pending = TRUE])
  /\ UNCHANGED <<msg, header, wire, buffered, cut, rd, call>>

\* Response.Write: a length of zero with a body is looked at; without a length the
\* connection is closed after the body.
StartResponse ==
  /\ tw.pc = "start" /\ ~IsRequest
  /\ LET looks == msg.cl = 0 /\ msg.body # "nil"
         first == IF msg.body = "NoBody" THEN "EOF" ELSE NextByte
         body == IF looks /\ first = "EOF" THEN "NoBody" ELSE msg.body
         cl == IF looks /\ first = "byte" THEN -1 ELSE msg.cl
         close == msg.close \/ (cl = -1 /\ msg.http11 /\ ~Chunked(msg.te) /\ ~msg.uncompressed) IN
     tw' = IF looks /\ first = "fail" THEN [tw EXCEPT !.pc = "error"]
           ELSE Sanitize([tw EXCEPT !.body = body, !.cl = cl, !.te = msg.te, !.close = close, !.zero = (cl = 0),
                                    !.probe = IF looks /\ first = "byte" THEN "byte" ELSE "none",
                                    !.pending = (looks /\ first = "byte"),
                                    !.pos = IF looks /\ first = "byte" THEN 2 ELSE 1])
  /\ UNCHANGED <<msg, header, wire, buffered, cut, rd, call>>

shouldSendContentLength(t) ==
  /\ ~Chunked(t.te)
  /\ \/ t.cl > 0
     \/ t.cl = 0 /\ (msg.method \in {"POST", "PUT"} \/ (t.te = <<"identity">> /\ msg.method \notin {"GET", "HEAD"}))

\* WriteHeader, with the Content-Length: 0 that Response.Write adds; then the wait for
\* 100-continue of Request.write.
WriteHeader ==
  /\ tw.pc = "header"
  /\ IF Chunked(tw.te) /\ msg.trailer = "badKey" THEN tw' = [tw EXCEPT !.pc = "error"] /\ UNCHANGED header
     ELSE /\ header' = [sent |-> TRUE,
                        cl |-> IF shouldSendContentLength(tw) THEN <<tw.cl>>
                               ELSE IF ~IsRequest /\ tw.zero /\ ~Chunked(msg.te) /\ bodyAllowedForStatus(msg.status)
                                    THEN <<0>> ELSE <<>>,
                        te |-> IF ~shouldSendContentLength(tw) /\ Chunked(tw.te) THEN <<"chunked">> ELSE <<>>,
                        close |-> tw.close, keepAlive |-> FALSE,
                        trailer |-> Chunked(tw.te) /\ msg.trailer = "keys"]
          /\ tw' = [tw EXCEPT !.pc = IF msg.continue THEN "body" ELSE "noBody"]
  /\ UNCHANGED <<msg, wire, buffered, cut, rd, call>>

\* What one Read of the body returns to io.Copy: the probed byte first.
BodyReads(k) ==
  IF tw.body = "NoBody" THEN "EOF"
  ELSE IF tw.pending THEN tw.probe
  ELSE IF NextByte = "byte" /\ tw.pos + k - 1 > (IF msg.failsAt > 0 THEN msg.failsAt - 1 ELSE msg.bytes) THEN "short"
  ELSE NextByte

\* chunkedWriter.Write, or the plain copy; beyond ContentLength bytes are counted only.
Emit(bytes) ==
  IF Chunked(tw.te) THEN <<Size(Len(bytes))>> \o Data(bytes) \o <<CRLF>>
  ELSE IF tw.cl = -1 THEN Data(bytes) ELSE Data(SubSeq(bytes, 1, Lesser(Len(bytes), tw.cl - Lesser(tw.cl, tw.ncopy))))

CopyBody(k) ==
  /\ tw.pc = "body" /\ tw.body # "nil"
  /\ tw.pending => k = 1 /\ tw.probe # "reading"
  /\ LET got == BodyReads(k)
         bytes == IF got # "byte" THEN <<>> ELSE IF tw.pending THEN <<1>> ELSE [i \in 1..k |-> tw.pos + i - 1] IN
     /\ got # "short"
     /\ wire' = wire \o (IF got = "byte" THEN Emit(bytes) ELSE <<>>)
                     \o (IF got = "EOF" /\ ~tw.pending /\ Chunked(tw.te) THEN <<Size(0)>> ELSE <<>>)
     /\ tw' = [tw EXCEPT !.pending = FALSE, !.ncopy = @ + Len(bytes),
                         !.pos = IF tw.pending \/ got # "byte" THEN @ ELSE @ + k,
                         !.pc = IF got = "fail" THEN "error" ELSE IF got = "EOF" /\ ~tw.pending THEN "end" ELSE @]
  /\ UNCHANGED <<msg, header, buffered, cut, rd, call>>

\* The end of WriteBody: a length that was not kept is an error; the trailer.  The next
\* message follows unless the connection is to be closed.
FinishBody ==
  /\ tw.pc = "end" \/ (tw.pc = "body" /\ tw.body = "nil")
  /\ LET head == ~IsRequest /\ noResponseBodyExpected(msg.method)
         wrong == ~head /\ tw.cl # -1 /\ tw.cl # tw.ncopy IN
     IF wrong THEN tw' = [tw EXCEPT !.pc = "error"] /\ UNCHANGED wire
     ELSE /\ tw' = [tw EXCEPT !.pc = "done"]
          /\ wire' = wire \o (IF ~Chunked(tw.te) THEN <<>>
                              ELSE (IF msg.trailer = "keys" THEN <<Trailers>> ELSE <<>>) \o <<CRLF>>)
                          \o (IF tw.close \/ (tw.cl = -1 /\ ~Chunked(tw.te)) THEN <<>> ELSE <<Following>>)
  /\ UNCHANGED <<msg, header, buffered, cut, rd, call>>

Writer == StartRequest \/ ProbeAnswers \/ ProbeTimer \/ StartResponse \/ WriteHeader
            \/ (\E k \in 1..2 : CopyBody(k)) \/ FinishBody

-----------------------------------------------------------------------------
(* The network *)

\* Whoever wrote the message closes the connection after an error, or because it said so.
WriterClosed == tw.pc = "error" \/ (tw.pc = "done" /\ (tw.close \/ (tw.cl = -1 /\ ~Chunked(tw.te))))
EndOfStream == buffered = <<>> /\ (cut \/ (wire = <<>> /\ WriterClosed))

Deliver ==
  /\ wire # <<>> /\ ~cut
  /\ buffered' = Append(buffered, Head(wire)) /\ wire' = Tail(wire)
  /\ UNCHANGED <<msg, tw, header, cut, rd, call>>

Cut ==
  /\ msg.cuts /\ ~cut /\ tw.pc # "start"
  /\ cut' = TRUE
  /\ UNCHANGED <<msg, tw, header, wire, buffered, rd, call>>

-----------------------------------------------------------------------------
(* The reader: readTransfer *)

shouldClose(h) == IF msg.http11 THEN h.close ELSE h.close \/ ~h.keepAlive

\* fixTransferEncoding: nothing, chunked, or an error.
fixTransferEncoding(h) ==
  LET stops == {i \in 1..Len(h.te) : h.te[i] = "identity"}
      te == IF stops = {} THEN h.te ELSE SubSeq(h.te, 1, Min(stops) - 1) IN
  IF ~msg.http11 THEN [te |-> <<>>, err |-> FALSE]
  ELSE [te |-> te, err |-> Len(te) > 1 \/ \E i \in 1..Len(te) : te[i] # "chunked"]

\* fixLength: a length, -1, or "err".  The lengths of a chunked message are gone by now.
MutFixLength(te, lens) ==
  IF noResponseBodyExpected(msg.method) THEN 0
  ELSE IF ~IsRequest /\ ~bodyAllowedForStatus(msg.status) THEN 0
  ELSE IF Chunked(te) THEN -1
  ELSE IF lens # <<>> THEN lens[Len(lens)]
  ELSE IF IsRequest THEN 0 ELSE -1
fixLength(te, lens) ==
  IF Cardinality(Range(lens)) > 1 THEN -2
  ELSE IF noResponseBodyExpected(msg.method)
       THEN IF IsRequest /\ lens # <<>> /\ lens[1] # 0 THEN -2 ELSE 0
  ELSE IF ~IsRequest /\ ~bodyAllowedForStatus(msg.status) THEN 0
  ELSE IF Chunked(te) THEN -1
  ELSE IF lens # <<>> THEN lens[1]
  ELSE IF IsRequest THEN 0 ELSE -1

\* readTransfer, called by readRequest and ReadResponse when the header is there.
readTransfer ==
  /\ rd.pc = "start" /\ header.sent
  /\ LET f == fixTransferEncoding(header)
         lens == IF f.te # <<>> THEN <<>> ELSE header.cl
         realLength == fixLength(f.te, lens)
         close == \/ shouldClose(header)
                  \/ ~IsRequest /\ realLength = -1 /\ ~Chunked(f.te) /\ bodyAllowedForStatus(msg.status)
         kind == IF Chunked(f.te) THEN IF noResponseBodyExpected(msg.method) THEN "none" ELSE "chunked"
                 ELSE IF realLength = 0 THEN "none" ELSE IF realLength > 0 THEN "limited"
                 ELSE IF close THEN "untilClose" ELSE "none" IN
     rd' = IF f.err \/ realLength = -2 \/ (header.trailer /\ ~Chunked(f.te)) THEN [rd EXCEPT !.pc = "error"]
           ELSE [rd EXCEPT !.pc = "open", !.kind = kind, !.left = realLength, !.hdr = (kind = "chunked"),
                           !.close = close, !.sawEOF = (kind = "none")]
  /\ UNCHANGED <<msg, tw, header, wire, buffered, cut, call>>

\* readRequest and ReadResponse when the connection ends within the header, or the first
\* line or a header line is malformed.
HeaderFails ==
  /\ rd.pc = "start" /\ (cut \/ (tw.pc = "error" /\ ~header.sent) \/ (header.sent /\ msg.malformed))
  /\ rd' = [rd EXCEPT !.pc = "error"]
  /\ UNCHANGED <<msg, tw, header, wire, buffered, cut, call>>
ReadMessage == (~msg.malformed /\ readTransfer) \/ HeaderFails

-----------------------------------------------------------------------------
(* The reader: body.Read, body.Close *)

NoCall == [op |-> "none", want |-> 0, n |-> 0, drained |-> 0]
Calling(op, n) == [NoCall EXCEPT !.op = op, !.want = n]

\* Read, with room for n bytes.
Read(n) ==
  /\ rd.pc = "open" /\ call.op = "none" /\ rd.kind # "none"
  /\ call' = Calling("read", n)
  /\ UNCHANGED <<msg, tw, header, wire, buffered, cut, rd>>

\* The room of a draining read, when so many bytes were drained: io.CopyN on a server.
DrainWant(total) == IF msg.server THEN Lesser(DrainBuffer, maxPostHandlerReadBytes - total) ELSE DrainBuffer

\* Close drains what is left, unless nothing follows or there is too much.
Close ==
  /\ rd.pc = "open" /\ call.op = "none" /\ ~rd.closed /\ rd.kind # "none"
  /\ LET needless == rd.sawEOF \/ (~rd.hdr /\ rd.close)
         giveUp == msg.server /\ rd.kind = "limited" /\ rd.left > maxPostHandlerReadBytes IN
     IF needless \/ giveUp
     THEN rd' = [rd EXCEPT !.closed = TRUE, !.earlyClose = ~needless] /\ UNCHANGED call
     ELSE call' = Calling("drain", DrainWant(0)) /\ UNCHANGED rd
  /\ UNCHANGED <<msg, tw, header, wire, buffered, cut>>

\* How many bytes of data are at the front of the buffer.
Ahead == LET other == {i \in 1..Len(buffered) : buffered[i].t # "data"} IN
         IF other = {} THEN Len(buffered) ELSE Min(other) - 1
FirstIs(t) == buffered # <<>> /\ buffered[1].t = t

\* The first error that the body returned.  (A Read after io.ErrUnexpectedEOF says io.EOF.)
FirstError(err) == IF rd.last = "nil" THEN err ELSE rd.last

\* A read of the body returns n bytes and err: to the user, or to a drain, which goes on
\* until an error, or until it has maxPostHandlerReadBytes on a server.
Return(r, err, n) ==
  LET total == call.drained + n
      full == msg.server /\ total = maxPostHandlerReadBytes IN
  \/ call.op = "read" /\ rd' = [r EXCEPT !.last = FirstError(err)] /\ call' = NoCall
  \/ call.op = "drain" /\ err = "nil" /\ ~full /\ rd' = r
       /\ call' = [Calling("drain", DrainWant(total)) EXCEPT !.drained = total]
  \/ call.op = "drain" /\ (err # "nil" \/ full) /\ call' = NoCall
       /\ rd' = [r EXCEPT !.closed = TRUE, !.last = FirstError(err), !.earlyClose = full]

\* readLocked, when src.Read has returned io.EOF: the trailer is read first.
ReadTrailer ==
  /\ call.op # "none" /\ rd.atEnd
  /\ LET r == [rd EXCEPT !.atEnd = FALSE, !.hdr = FALSE] IN
     \/ /\ FirstIs("crlf") /\ buffered' = Tail(buffered)
        /\ Return([r EXCEPT !.sawEOF = TRUE], "EOF", call.n)
     \/ /\ FirstIs("trailer") /\ Len(buffered) >= 2 /\ buffered' = SubSeq(buffered, 3, Len(buffered))
        /\ Return([r EXCEPT !.sawEOF = TRUE, !.trailer = TRUE], "EOF", call.n)
     \/ /\ EndOfStream \/ (cut /\ FirstIs("trailer") /\ Len(buffered) = 1)
        /\ Return([r EXCEPT !.closed = TRUE], "trailerError", call.n) /\ UNCHANGED buffered
  /\ UNCHANGED <<msg, tw, header, wire, cut>>

\* What readLocked makes of the end of the source.
SourceEnds ==
  /\ EndOfStream /\ UNCHANGED buffered
  /\ IF rd.hdr THEN rd' = [rd EXCEPT !.atEnd = TRUE] /\ UNCHANGED call
     ELSE Return([rd EXCEPT !.sawEOF = TRUE], IF rd.kind = "limited" /\ rd.left > 0 THEN "unexpectedEOF" ELSE "EOF", 0)

\* A Read of a body that is closed or was read to its end.
ReadNothing ==
  /\ call.op # "none" /\ (rd.closed \/ rd.sawEOF) /\ ~rd.atEnd
  /\ Return(rd, IF rd.closed THEN "closed" ELSE "EOF", 0)
  /\ UNCHANGED <<msg, tw, header, wire, buffered, cut>>

Reading == call.op # "none" /\ ~rd.closed /\ ~rd.sawEOF /\ ~rd.atEnd

\* LimitedReader or the connection itself.  The last byte of a declared length comes with
\* io.EOF.
PlainRead ==
  /\ Reading /\ rd.kind \in {"limited", "untilClose"}
  /\ LET n == Lesser(call.want, IF rd.kind = "limited" THEN Lesser(rd.left, Ahead) ELSE Ahead)
         last == rd.kind = "limited" /\ rd.left = n IN
     \/ /\ n > 0 /\ buffered' = SubSeq(buffered, n + 1, Len(buffered))
        /\ Return([rd EXCEPT !.got = @ \o [i \in 1..n |-> buffered[i].n], !.sawEOF = last,
                              !.left = IF rd.kind = "limited" THEN @ - n ELSE @],
                  IF last THEN "EOF" ELSE "nil", n)
     \/ n = 0 /\ SourceEnds
  /\ UNCHANGED <<msg, tw, header, wire, cut>>

\* chunkedReader.Read, one round of its loop.  Between chunks it returns what it has when
\* the rest is not there yet; within a chunk it waits for the rest.  The error of a CRLF
\* that never came is overwritten by beginChunk, which finds the same end of the stream.
CheckEnd ==
  \/ FirstIs("crlf") /\ rd' = [rd EXCEPT !.checkEnd = FALSE] /\ buffered' = Tail(buffered) /\ UNCHANGED call
  \/ buffered = <<>> /\ call.n > 0 /\ Return(rd, "nil", call.n) /\ UNCHANGED buffered
  \/ EndOfStream /\ call.n = 0 /\ UNCHANGED buffered
       /\ Return([rd EXCEPT !.checkEnd = FALSE], "unexpectedEOF", 0)

BeginChunk ==
  \/ /\ FirstIs("size") /\ buffered' = Tail(buffered) /\ UNCHANGED call
     /\ rd' = [rd EXCEPT !.left = buffered[1].n, !.atEnd = (buffered[1].n = 0)]
  \/ FirstIs("data") /\ Return(rd, "malformed", call.n) /\ UNCHANGED buffered
  \/ buffered = <<>> /\ call.n > 0 /\ Return(rd, "nil", call.n) /\ UNCHANGED buffered
  \/ EndOfStream /\ call.n = 0 /\ Return(rd, "unexpectedEOF", 0) /\ UNCHANGED buffered

ChunkData ==
  LET n == Lesser(call.want, Lesser(rd.left, Ahead)) IN
  \/ call.want = 0 /\ Return(rd, "nil", call.n) /\ UNCHANGED buffered
  \/ /\ n > 0 /\ buffered' = SubSeq(buffered, n + 1, Len(buffered))
     /\ rd' = [rd EXCEPT !.got = @ \o [i \in 1..n |-> buffered[i].n], !.left = @ - n, !.checkEnd = (rd.left = n)]
     /\ call' = [call EXCEPT !.n = @ + n, !.want = @ - n]
  \/ call.want > 0 /\ SourceEnds

ChunkedRead ==
  /\ Reading /\ rd.kind = "chunked"
  /\ IF rd.checkEnd THEN CheckEnd ELSE IF rd.left <= 0 THEN BeginChunk ELSE ChunkData
  /\ UNCHANGED <<msg, tw, header, wire, cut>>

ReadStep == ReadTrailer \/ ReadNothing \/ PlainRead \/ ChunkedRead
Reader == ReadMessage \/ ReadStep

-----------------------------------------------------------------------------
FramingInit ==
  /\ msg \in Exchanges
  /\ tw = [pc |-> msg.start, body |-> "nil", cl |-> 0, te |-> <<>>, close |-> FALSE, zero |-> FALSE, pos |-> 1,
           probe |-> "none", pending |-> FALSE, ncopy |-> 0]
  /\ header = [sent |-> FALSE, cl |-> <<>>, te |-> <<>>, close |-> FALSE, keepAlive |-> FALSE, trailer |-> FALSE]
  /\ wire = <<>> /\ buffered = <<>> /\ cut = FALSE
  /\ rd = [pc |-> "start", kind |-> "none", left |-> 0, hdr |-> FALSE, close |-> FALSE, sawEOF |-> FALSE,
           closed |-> FALSE, earlyClose |-> FALSE, atEnd |-> FALSE, checkEnd |-> FALSE, trailer |-> FALSE,
           got |-> <<>>, last |-> "nil"]
  /\ call = NoCall

\* A message of some other writer: any header, with a body that its sender thinks it has.
ForeignMessage ==
  /\ tw.pc = "foreign" /\ ~header.sent
  /\ header' = [sent |-> TRUE, cl |-> msg.lens, te |-> msg.te, close |-> msg.close, keepAlive |-> msg.keepAlive, trailer |-> FALSE]
  /\ wire' = Data([i \in 1..msg.bytes |-> i]) \o <<Following>>
  /\ UNCHANGED <<msg, tw, buffered, cut, rd, call>>

FramingNext ==
  \/ Writer \/ ProbeReads \/ ForeignMessage \/ Deliver \/ Cut \/ Reader
  \/ (\E n \in 1..2 : Read(n)) \/ Close

-----------------------------------------------------------------------------
(* Properties *)

Remaining == buffered \o (IF cut THEN <<>> ELSE wire)
Whole == [i \in 1..msg.bytes |-> i]
AtEnd == rd.pc = "open" /\ rd.sawEOF

\* The records keep their shape.
FramingTypeOK ==
  /\ rd.left >= -1 /\ tw.ncopy \in 0..msg.bytes /\ call.n >= 0 /\ call.want >= 0
  /\ \A i \in DOMAIN header.cl : header.cl[i] >= 0
  /\ rd.kind \in {"none", "chunked", "limited", "untilClose"}

\* The reader gets the bytes of the body in order, none twice and none left out, the byte
\* that probeRequestBody took included; and is told that the body ended only when it has
\* all of it.  (A body that ends with its connection cannot be told from a cut one.)
BodyArrives ==
  /\ IsPrefix(rd.got, Whole)
  /\ AtEnd /\ rd.last = "EOF" /\ rd.kind = "limited" => Len(rd.got) = header.cl[1]
  /\ AtEnd /\ rd.last = "EOF" /\ rd.kind = "chunked" =>
       tw.pc = "done" /\ rd.got = Whole /\ rd.trailer = header.trailer

\* After the body, or after Close if it did not give up, the next thing on a connection
\* that is kept is the next message.  (Response.Write ends the answer to a HEAD request
\* that says it is chunked with an empty line, which nobody reads.)
NextMessageFound ==
  AtEnd /\ ~rd.close /\ Remaining # <<>>
    /\ ~(~IsRequest /\ msg.method = "HEAD" /\ msg.te = <<"chunked">>) =>
       Remaining[1] = Following

\* Between two chunks a Read that has data returns it without waiting for the network.
\* (Within a chunk, and for the end of the trailer, it does wait.)
NeverWaitsWithData ==
  call.op = "read" /\ call.n > 0 /\ rd.left <= 0 /\ ~rd.atEnd => ENABLED ReadStep

\* Close on a server reads no more than it may; and it says that it gave up unless the
\* end of the body was reached or the body is broken.
CloseIsBounded ==
  /\ msg.server => call.drained + call.n <= maxPostHandlerReadBytes
  /\ rd.closed /\ ~rd.sawEOF /\ ~rd.earlyClose =>
       rd.close \/ rd.last \in {"trailerError", "unexpectedEOF", "malformed", "closed"}
=============================================================================
