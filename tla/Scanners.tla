------------------------------ MODULE Scanners ------------------------------
(***************************************************************************)
(* How ZGrab's scanners read a peer: util.ReadUntilRegex and the patterns  *)
(* that end a reply, the Telnet negotiation and banner, the Modbus         *)
(* response, the S7 packet and the BACnet queries.  A connection delivers  *)
(* the peer's bytes in pieces of any size, whatever the peer wrote in one  *)
(* piece, and then ends: with EOF, a reset, or silence until the deadline. *)
(* BACnet runs over UDP: answers come whole, and may come twice or late.   *)
(*                                                                         *)
(* A behaviour is one scan.  `rest' is what the connection still holds,    *)
(* `got' what the scanner has in its buffer.                               *)
(***************************************************************************)
EXTENDS Integers, Sequences, FiniteSets, SequencesExt

CONSTANTS
  ScanCases,           \* the scans: what is asked, what the peer sends, how it ends
  ReplyBuffer,         \* the length of the buffer of a reply (512, 1024 or 65536)
  READ_BUFFER_LENGTH,  \* telnet.go (8192)
  ModbusBuffer,        \* the room for a response after its header (1017)
  BACNetQueries,       \* the queries of BACNetVendorQuery (9)
  MaxDuplicates        \* BOUND: datagrams that the network doubles

ASSUME ScanAssumption ==
  /\ ReplyBuffer \in Nat \ {0} /\ READ_BUFFER_LENGTH \in Nat \ {0} /\ ModbusBuffer \in Nat \ {0}
  /\ BACNetQueries \in Nat /\ MaxDuplicates \in Nat

VARIABLES
  scase,   \* the scan: [op, stream, end, max]
  spc,     \* the loop it is in
  rest,    \* bytes, or answers, that the scanner has not read
  got,     \* what it has read: the buffer
  count,   \* GetTelnetBanner's count; BACnet: datagrams doubled
  slog,    \* the record: [banner, slice, offers, sent, split, objects]
  serr     \* the error, "none" so far

scanVars == <<scase, spc, rest, got, count, slog, serr>>

From(s, n) == SubSeq(s, n + 1, Len(s))
Least(a, b) == IF a < b THEN a ELSE b
BigEndian(b) == b[1] * 256 + b[2]
EmptyRecord == [banner |-> <<>>, slice |-> <<>>, offers |-> <<>>, sent |-> <<>>, split |-> FALSE, objects |-> {}]

\* One Read into `room' bytes: some of what has arrived.
Delivered(room, n) == n \in 1..Least(room, Len(rest)) /\ rest' = From(rest, n)
\* One Read when nothing more will arrive.
Drained == rest = <<>> /\ UNCHANGED rest
Piece(n) == SubSeq(rest, 1, n)
EndScan(e) == spc' = "done" /\ serr' = e

-----------------------------------------------------------------------------
(* Replies.  A byte of a reply is one of these; a code comes in one piece. *)

Text == 0
Newline == 1
Code == 2        \* three digits and a space at the start of a line
CodeMore == 3    \* three digits and a hyphen

LastLine(t) ==
  LET starts == {i \in 1..Len(t) : i = 1 \/ t[i - 1] = Newline} IN
  From(t, (CHOOSE i \in starts : \A j \in starts : j <= i) - 1)
EndsLine(t) == t # <<>> /\ Last(t) = Newline
\* ftpEndRegex: the last line starts with a code.
\* smtpEndRegex: one such line alone, or, after a first line with a hyphen, as the last.
\* pop3EndRegex and imapStatusEndRegex: any line.
Matches(proto, t) ==
  /\ EndsLine(t)
  /\ proto = "ftp" => Head(LastLine(t)) = Code
  /\ proto = "smtp" => Head(LastLine(t)) = Code /\ (Head(t) = CodeMore \/ LastLine(t) = t)

BufferFull(length) == length = ReplyBuffer

ReadUntilRegex ==
  /\ scase.op \in {"ftp", "smtp", "pop3", "imap"} /\ spc = "read"
  /\ UNCHANGED <<scase, count, slog>>
  /\ \/ \E n \in 1..ReplyBuffer :
          /\ Delivered(ReplyBuffer - Len(got), n)
          /\ got' = got \o Piece(n)
          /\ IF BufferFull(Len(got')) THEN EndScan("space")
             ELSE IF Matches(scase.op, got') THEN EndScan("none")
             ELSE UNCHANGED <<spc, serr>>
     \/ Drained /\ UNCHANGED got /\ EndScan(scase.end)

-----------------------------------------------------------------------------
(* Telnet *)

IAC == 255
DONT == 254
DO == 253
WONT == 252
WILL == 251
GO_AHEAD == 249
OptionTypes == {DONT, DO, WONT, WILL}

Refusal(t) == IF t \in {WILL, WONT} THEN DONT ELSE WONT

MutAfterCommand(pos) == pos + 1
AfterCommand(pos) == pos + 2

\* The commands in a buffer of which `base' bytes are dealt with; numData is the code's
\* count of data bytes, negative when the last command was cut.
RECURSIVE Options(_, _, _, _, _)
Options(b, base, numData, offers, ret) ==
  LET found == {i \in (base + 1)..Len(b) : b[i] = IAC}
      at == CHOOSE i \in found : \A j \in found : i <= j
      is(o) == [outcome |-> o, base |-> base, numData |-> numData, offers |-> offers, ret |-> ret] IN
  IF found = {} THEN is("ok")
  ELSE IF at + 2 > Len(b) THEN is("panic")
  ELSE IF b[at + 1] = GO_AHEAD THEN is("ok")
  ELSE IF b[at + 1] \notin OptionTypes THEN is("unsupported")
  ELSE Options(b, AfterCommand(at), numData - (AfterCommand(at) - base),
               Append(offers, <<b[at + 1], b[at + 2]>>), ret \o <<IAC, Refusal(b[at + 1]), b[at + 2]>>)

Padded(b) == b \o [i \in 1..(READ_BUFFER_LENGTH - Len(b)) |-> 0]
\* A piece ends in the middle of a command.
RECURSIVE CutIn(_)
CutIn(b) ==
  /\ IAC \in Range(b)
  /\ LET i == CHOOSE i \in 1..Len(b) : b[i] = IAC /\ \A j \in 1..(i - 1) : b[j] # IAC IN
     i + 2 > Len(b) \/ CutIn(From(b, i + 2))

FullRead(n) == n = READ_BUFFER_LENGTH

Rounds == (scase.max + READ_BUFFER_LENGTH - 1) \div READ_BUFFER_LENGTH

\* NegotiateOptions: commands are refused until a read holds anything else.
NegotiateOptions ==
  /\ scase.op = "telnet" /\ spc = "negotiate" /\ UNCHANGED <<scase, count>>
  /\ \/ \E n \in 1..READ_BUFFER_LENGTH, written \in BOOLEAN :
          LET b == Padded(Piece(n))
              o == Options(b, 0, n, <<>>, <<>>)
              heard == [slog EXCEPT !.offers = @ \o o.offers, !.split = @ \/ CutIn(Piece(n))]
              told == [heard EXCEPT !.sent = @ \o o.ret] IN
          /\ Delivered(READ_BUFFER_LENGTH, n)
          /\ IF FullRead(n) THEN EndScan("space") /\ UNCHANGED <<got, slog>>
             ELSE IF o.outcome # "ok" THEN EndScan(o.outcome) /\ slog' = heard /\ got' = b
             ELSE IF ~written THEN EndScan("write") /\ slog' = heard /\ got' = b
             ELSE IF o.numData = 0 THEN slog' = told /\ UNCHANGED <<spc, got, serr>>
             ELSE /\ slog' = [told EXCEPT !.banner = SubSeq(b, o.base + 1, o.base + o.numData)]
                  /\ spc' = "banner" /\ got' = Padded(<<>>) /\ UNCHANGED serr
     \/ Drained /\ EndScan(scase.end) /\ UNCHANGED <<got, slog>>

LastRound(n) == scase.max % READ_BUFFER_LENGTH

\* The rest of GetTelnetBanner: the loop goes on after a read that filled the buffer.
\* A buffer with a command in it, also one left by an earlier read, is passed over.
GetTelnetBanner ==
  /\ scase.op = "telnet" /\ spc = "banner" /\ UNCHANGED scase
  /\ \/ /\ count >= Rounds /\ EndScan("none")
        /\ slog' = [slog EXCEPT !.banner = @ \o slog.slice] /\ UNCHANGED <<rest, got, count>>
     \/ \E n \in 0..READ_BUFFER_LENGTH :
          LET b == Piece(n) \o From(got, n)
              skip == IAC \in Range(b)
              more == IF skip THEN <<>>
                      ELSE SubSeq(b, 1, IF count = Rounds - 1 THEN LastRound(n) ELSE n)
              slice == slog.slice \o more IN
          /\ count < Rounds
          /\ Delivered(READ_BUFFER_LENGTH, n) \/ (n = 0 /\ Drained /\ scase.end = "eof")
          /\ got' = b /\ count' = IF skip THEN count ELSE count + 1
          /\ IF n = READ_BUFFER_LENGTH
             THEN slog' = [slog EXCEPT !.slice = slice, !.split = @ \/ skip] /\ UNCHANGED <<spc, serr>>
             ELSE /\ slog' = [slog EXCEPT !.slice = slice, !.banner = @ \o slice, !.split = @ \/ skip]
                  /\ EndScan("none")
     \/ /\ count < Rounds /\ Drained /\ scase.end # "eof" /\ UNCHANGED <<got, count>>
        /\ IF scase.end = "timeout" /\ slog.banner # <<>>
           THEN EndScan("none") /\ slog' = [slog EXCEPT !.banner = @ \o slog.slice]
           ELSE EndScan(scase.end) /\ UNCHANGED slog

-----------------------------------------------------------------------------
(* Modbus *)

HeaderLength == 7
ModbusHeaderBytes == <<19, 55, 0, 0>>
FunctionCodeMEI == 43

\* ReadMin of the header, and its check.
ReadHeader ==
  /\ scase.op = "modbus" /\ spc = "header" /\ UNCHANGED <<scase, count, slog>>
  /\ \/ \E n \in 1..HeaderLength :
          /\ Delivered(HeaderLength - Len(got), n) /\ got' = got \o Piece(n)
          /\ IF Len(got') < HeaderLength THEN UNCHANGED <<spc, serr>>
             ELSE IF SubSeq(got', 1, 4) # ModbusHeaderBytes THEN EndScan("notModbus")
             ELSE spc' = "body" /\ UNCHANGED serr
     \/ Drained /\ EndScan(scase.end) /\ UNCHANGED got

DeclaredLength == BigEndian(SubSeq(got, 5, 6))
\* One of the bytes that the length counts is in the header.
BodyWanted == Least(DeclaredLength, ModbusBuffer) - 1

\* How far an object reaches, and its identifier and value; none when it is cut.
parseMEIObject(b) ==
  IF Len(b) < 2 \/ Len(b) < 2 + b[2] THEN [n |-> Len(b), obj |-> <<>>]
  ELSE [n |-> 2 + b[2], obj |-> <<b[1], SubSeq(b, 3, 2 + b[2])>>]

\* make([]MEIObject, objectCount) and its loop: entries after a cut one stay zero.
RECURSIVE MEIObjects(_, _)
MEIObjects(b, n) ==
  IF n = 0 THEN <<>>
  ELSE LET p == parseMEIObject(b) IN
       IF p.obj = <<>> THEN [i \in 1..n |-> <<0, <<>> >>]
       ELSE <<p.obj>> \o MEIObjects(From(b, p.n), n - 1)

\* MEIObjectSet.MarshalJSON: a map by identifier, in which a later object wins.
Recorded(objects) ==
  {objects[i] : i \in {i \in 1..Len(objects) : \A j \in (i + 1)..Len(objects) : objects[j][1] # objects[i][1]}}

\* ParseSelf of an event that is no exception.
parseReponse(function, data) ==
  IF function # FunctionCodeMEI \/ Len(data) < 6 \/ data[1] # 14 \/ data[2] # 1 THEN {}
  ELSE Recorded(MEIObjects(From(data, 6), data[6]))

Body == From(got, HeaderLength)
ModbusRecord(body) ==
  LET function == IF body = <<>> THEN 0 ELSE body[1] IN
  [slog EXCEPT !.objects = IF function >= 128 THEN {} ELSE parseReponse(function, From(body, 1))]

\* The loop of GetModbusResponse, and what SendModbusEcho makes of the response, whole
\* or not.  A read may bring more than the length says.
GetModbusResponse ==
  /\ scase.op = "modbus" /\ spc = "body" /\ UNCHANGED <<scase, count>>
  /\ \/ /\ Len(Body) >= BodyWanted
        /\ slog' = ModbusRecord(Body) /\ EndScan("none") /\ UNCHANGED <<rest, got>>
     \/ /\ Len(Body) < BodyWanted
        /\ \/ \E n \in 1..ModbusBuffer :
                /\ Delivered(ModbusBuffer - Len(Body), n) /\ got' = got \o Piece(n)
                /\ UNCHANGED <<spc, slog, serr>>
           \/ Drained /\ slog' = ModbusRecord(Body) /\ EndScan(scase.end) /\ UNCHANGED got

-----------------------------------------------------------------------------
(* S7: one read, taken for one packet *)

S7_PROTOCOL_ID == 50
S7Acknowledges == {2, 3}
S7Requests == {1, 7}
S7Fails(e) == [err |-> e, params |-> <<>>, data |-> <<>>]

Fits(b, end) == end <= Len(b)

\* S7Packet.Unmarshal.  The second byte is indexed before the length is known; the other
\* fields are slices, which reach past the packet into the rest of the fresh buffer.
UnmarshalS7(b) ==
  IF b = <<>> THEN S7Fails("invalid")
  ELSE IF b[1] # S7_PROTOCOL_ID THEN S7Fails("notS7")
  ELSE IF Len(b) < 2 THEN S7Fails("panic")
  ELSE IF b[2] \notin S7Acknowledges \cup S7Requests THEN S7Fails("unknownType")
  ELSE LET header == IF b[2] \in S7Acknowledges THEN 12 ELSE 10
           buffer == b \o [i \in 1..header |-> 0]
           p == BigEndian(SubSeq(buffer, 7, 8))
           d == BigEndian(SubSeq(buffer, 9, 10)) IN
       IF ~Fits(b, header + p + d) THEN S7Fails("invalid")
       ELSE [err |-> "none", params |-> SubSeq(buffer, header + 1, header + p),
             data |-> SubSeq(buffer, header + p + 1, header + p + d)]
\* COTPDataPacket.Unmarshal: the size of the header is a byte, and so is one more.
UnmarshalCOTP(b) ==
  IF b = <<>> THEN S7Fails("invalid")
  ELSE LET skip == (b[1] + 1) % 256 IN
       IF skip > Len(b) THEN S7Fails("invalid") ELSE UnmarshalS7(From(b, skip))
unmarshalReadResponse(b) == IF Len(b) < 4 THEN S7Fails("short") ELSE UnmarshalCOTP(From(b, 4))

\* sendRequestReadResponse and what readRequest makes of it.
ReadS7 ==
  /\ scase.op = "s7" /\ spc = "read" /\ UNCHANGED <<scase, count, slog>>
  /\ \/ \E n \in 1..Len(rest) :
          /\ Delivered(Len(rest), n) /\ got' = Piece(n)
          /\ EndScan(unmarshalReadResponse(Piece(n)).err)
     \/ Drained /\ EndScan(scase.end) /\ UNCHANGED got

-----------------------------------------------------------------------------
(* BACnet: answers are taken in the order in which they come *)

\* A query is sent when the answer to the one before it was taken.
SendVLC ==
  /\ scase.op = "bacnet" /\ spc = "query" /\ UNCHANGED <<scase, got, count, slog>>
  /\ IF Len(got) = BACNetQueries THEN EndScan("none") /\ UNCHANGED rest
     ELSE rest' = Append(rest, Len(got) + 1) /\ spc' = "answer" /\ UNCHANGED serr
\* (external) The network doubles a datagram.
Duplicate ==
  /\ scase.op = "bacnet" /\ spc # "done" /\ count < MaxDuplicates
  /\ \E i \in 1..Len(rest) : rest' = Append(rest, rest[i])
  /\ count' = count + 1 /\ UNCHANGED <<scase, spc, got, slog, serr>>
MutAfterSilence(e) == spc' = "query" /\ got' = Append(got, 0) /\ UNCHANGED serr
AfterSilence(e) == EndScan(e) /\ UNCHANGED got
\* ReadVLC: some datagram, or the deadline.  The property it names is not looked at; one
\* that is no answer, an error of the device's among them, ends the queries.
ReadVLC ==
  /\ scase.op = "bacnet" /\ spc = "answer" /\ UNCHANGED <<scase, count, slog>>
  /\ \/ \E i \in 1..Len(rest) :
          /\ rest' = RemoveAt(rest, i)
          /\ \/ got' = Append(got, rest[i]) /\ spc' = "query" /\ UNCHANGED serr
             \/ EndScan("invalid") /\ UNCHANGED got
     \/ AfterSilence("timeout") /\ UNCHANGED rest

-----------------------------------------------------------------------------
ScanStart == [telnet |-> "negotiate", modbus |-> "header", bacnet |-> "query"]
ScanInit ==
  /\ spc = IF scase.op \in DOMAIN ScanStart THEN ScanStart[scase.op] ELSE "read"
  /\ rest = scase.stream /\ got = <<>> /\ count = 0 /\ slog = EmptyRecord /\ serr = "none"

ScanNext ==
  \/ ReadUntilRegex \/ NegotiateOptions \/ GetTelnetBanner
  \/ ReadHeader \/ GetModbusResponse \/ ReadS7
  \/ SendVLC \/ Duplicate \/ ReadVLC

ScanReturned == spc = "done" /\ UNCHANGED scanVars

-----------------------------------------------------------------------------
(* Properties *)

Scanned(op) == scase.op = op /\ spc = "done"
Consumed == SubSeq(scase.stream, 1, Len(scase.stream) - Len(rest))

\* The buffers hold no more than they can, and the Telnet loop no more than its rounds.
ScanTypeOK ==
  /\ serr \in {"none", "space", "eof", "timeout", "reset", "unsupported", "panic", "write",
               "notModbus", "invalid", "notS7", "unknownType", "short"}
  /\ scase.op \in {"ftp", "smtp", "pop3", "imap"} => Len(got) <= ReplyBuffer
  /\ scase.op = "telnet" => got = <<>> \/ Len(got) = READ_BUFFER_LENGTH
  /\ scase.op = "modbus" => Len(got) <= HeaderLength + ModbusBuffer

\* ReadUntilRegex (util.go:18): a reply that no earlier part of it matches and that the
\* buffer has a byte to spare for is returned whole and without error, in whatever
\* pieces it comes; of any other, what is returned is the beginning.
ReplyWhole ==
  scase.op \in {"ftp", "smtp", "pop3", "imap"} =>
    /\ got = Consumed
    /\ spc = "done" /\ serr = "none" => Matches(scase.op, got)
    /\ LET s == scase.stream
           one == Matches(scase.op, s) /\ \A n \in 1..(Len(s) - 1) : ~Matches(scase.op, SubSeq(s, 1, n)) IN
       spc = "done" /\ one /\ Len(s) < ReplyBuffer => serr = "none" /\ got = s

\* The offers in a stretch of the stream, by the protocol: whole commands.
RECURSIVE OffersIn(_)
OffersIn(s) ==
  IF Len(s) < 3 THEN <<>>
  ELSE IF s[1] = IAC THEN (IF s[2] \in OptionTypes THEN <<Tail(SubSeq(s, 1, 3))>> ELSE <<>>) \o OffersIn(From(s, 3))
  ELSE OffersIn(Tail(s))
GoesAhead(s) == \E i \in 1..(Len(s) - 1) : s[i] = IAC /\ s[i + 1] \notin OptionTypes

\* NegotiateOptions (telnet.go:119): as long as no command is cut by the pieces and the
\* peer sends nothing but options, every offer that was read is recorded, once and in
\* order, and every one that is recorded has been refused when the next read starts.
EveryOfferRefused ==
  scase.op = "telnet" =>
    /\ serr \in {"none", "eof", "timeout", "reset"} =>
         slog.sent = FlattenSeq([i \in 1..Len(slog.offers) |->
                                  <<255, IF slog.offers[i][1] \in {251, 252} THEN 254 ELSE 252, slog.offers[i][2]>>])
    /\ spc = "negotiate" /\ ~slog.split /\ ~GoesAhead(Consumed) => slog.offers = OffersIn(Consumed)

\* The bytes of the stream after its last command.
RECURSIVE DataAfter(_)
DataAfter(s) ==
  IF IAC \notin Range(s) THEN s
  ELSE LET i == CHOOSE i \in 1..Len(s) : s[i] = IAC /\ \A j \in (i + 1)..Len(s) : s[j] # IAC IN From(s, i + 2)

\* GetTelnetBanner (telnet.go:74): when no command is cut, no go-ahead was sent and no read of
\* the banner holds a command (which drops that read), the banner is the data that was read
\* after the last command, all of it: what came with the last commands, whatever the limit, and
\* what the loop read up to its last round.  Only a loop that comes to its last round keeps
\* another number of bytes, and exactly this one: the limit, filled up with bytes of earlier
\* reads when fewer were read (telnet.go:107), or, when the limit is a multiple of the buffer as
\* the default is, the limit less a buffer, since nothing is kept of that round.  That the limit
\* is one on the loop alone is less than the flag says, "Max bytes to read for telnet banner"
\* (main.go:130), and the dropped round is no more than the code does.
BannerAsSent ==
  Scanned("telnet") /\ serr = "none" /\ ~slog.split /\ ~GoesAhead(scase.stream) =>
    LET data == DataAfter(Consumed)
        early == Len(slog.banner) - Len(slog.slice)
        looped == IF scase.max % READ_BUFFER_LENGTH = 0 THEN scase.max - READ_BUFFER_LENGTH ELSE scase.max
        limited == count > 0 /\ count = Rounds IN
    /\ early \in 0..(READ_BUFFER_LENGTH - 1)
    /\ Len(slog.banner) = IF limited THEN early + looped ELSE Len(data)
    /\ \A i \in 1..Least(Len(slog.banner), Len(data)) : slog.banner[i] = data[i]

\* Index out of range in the negotiation (telnet.go:144), which ends the process, needs a
\* read that fills all of the buffer but one byte and ends in IAC.
PanicsAtEdge ==
  scase.op = "telnet" /\ serr = "panic" =>
    Len(Consumed) >= READ_BUFFER_LENGTH - 1 /\ Last(Consumed) = IAC /\ Last(got) = 0

\* GetModbusResponse (modbus.go:226): a response of the length it declares is read whole
\* in whatever pieces it comes, and every object it holds completely is recorded, unless
\* it announces more objects than it holds; nothing else is recorded.
RECURSIVE ObjectsIn(_)
ObjectsIn(b) == IF Len(b) < 2 \/ Len(b) < 2 + b[2] THEN <<>>
                ELSE <<<<b[1], SubSeq(b, 3, 2 + b[2])>>>> \o ObjectsIn(From(b, 2 + b[2]))
ObjectsRecorded ==
  Scanned("modbus") =>
    LET s == scase.stream
        body == From(s, HeaderLength)
        sent == ObjectsIn(From(body, 7))
        inFull == Len(s) >= 8 /\ BigEndian(SubSeq(s, 5, 6)) = Len(body) + 1 /\ Len(body) <= ModbusBuffer
        mei == Len(body) >= 7 /\ SubSeq(body, 1, 3) = <<43, 14, 1>>
        last(i) == \A j \in (i + 1)..Len(sent) : sent[j][1] # sent[i][1] IN
    /\ inFull /\ SubSeq(s, 1, 4) = ModbusHeaderBytes => serr = "none" /\ got = s
    /\ inFull /\ mei /\ serr = "none" /\ body[7] = Len(sent) =>
         slog.objects = {sent[i] : i \in {i \in 1..Len(sent) : last(i)}}

\* unmarshalReadResponse (s7.go:211): a response that arrives whole is taken apart as it
\* was sent; one that is cut is refused, unless it is cut after the first byte of the S7
\* packet, where the code indexes past the end.
S7CutRefused ==
  Scanned("s7") /\ got # <<>> =>
    LET s == scase.stream
        cotp == (s[5] + 1) % 256
        packet == From(s, 4 + cotp)
        header == IF packet[2] \in {2, 3} THEN 12 ELSE 10 IN
    /\ got # s => serr # "none"
    /\ serr = "panic" => Len(got) = 4 + cotp + 1
    /\ got = s => /\ serr = "none"
                  /\ unmarshalReadResponse(got).params \o unmarshalReadResponse(got).data = From(packet, header)

\* BACNetVendorQuery (conn.go:523): what is recorded for a query answers it or an earlier
\* one, and no more answers are missing than datagrams came twice.  So without any, each
\* field holds the answer to its own query.
AnswersMatch ==
  scase.op = "bacnet" =>
    /\ \A i \in 1..Len(got) : got[i] \in 1..i
    /\ Cardinality((1..Len(got)) \ Range(got)) <= count

\* What the scanners record of a reply, a negotiation, a response or a packet does not depend
\* on the pieces in which TCP delivers it, with the exceptions that its parts name.
ReadInPieces ==
  /\ ScanTypeOK
  /\ ReplyWhole
  /\ EveryOfferRefused /\ BannerAsSent /\ PanicsAtEdge
  /\ ObjectsRecorded /\ S7CutRefused
=============================================================================
