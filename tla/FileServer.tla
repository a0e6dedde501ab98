----------------------------- MODULE FileServer -----------------------------
(***************************************************************************)
(* The file server of the HTTP library (http/fs.go): redirects to the      *)
(* canonical path, preconditions and ranges of serveContent, and the       *)
(* goroutine that writes a multipart answer into a pipe.                   *)
(*                                                                         *)
(* The client (external) asks for a file it has no copy of, asks whether   *)
(* its copy is still good, or asks for the rest of a copy it has half of,  *)
(* with the validators of its copy.  The file may be replaced by a new     *)
(* version between requests, and be cut short while it is sent; the client *)
(* may go away.  Time is in half seconds; headers carry whole seconds.  A  *)
(* byte is its position and the version it is from.                        *)
(***************************************************************************)
EXTENDS Integers, Sequences, FiniteSets, SequencesExt

CONSTANTS
  FileCases,      \* [etag, jump, asks, path...]: how the file is tagged and changes, what the client asks
  FileSize,       \* the size of the file
  FileChanges     \* bound on its changes

ASSUME FileAssumption == FileSize \in Nat /\ FileChanges \in Nat

VARIABLES
  fcase,     \* the case
  file,      \* the version of the file, its time, its size
  copy,      \* what the client has: a version, its validators, how many bytes
  freq,       \* the request that is served
  fresp,      \* the response: status, declared length, parts that are sent, body so far
  handler,   \* serveContent: where it is
  parts,     \* the goroutine of a multipart answer: where it is, the part, its pipe
  path       \* the path that is asked for, and the redirects so far

fileVars == <<fcase, file, copy, freq, fresp, handler, parts, path>>

NoTime == -1      \* a header that is not there
NoTag == [kind |-> "none", v |-> 0]
Seconds(t) == t \div 2
Fewer(a, b) == IF a < b THEN a ELSE b
NoReq == [method |-> "GET", inm |-> <<>>, im |-> <<>>, ims |-> NoTime, ius |-> NoTime, ifRange |-> NoTag,
          ifDate |-> NoTime, range |-> <<>>]
NoResp == [status |-> 0, size |-> 0, length |-> 0, ranges |-> <<>>, body |-> <<>>, etag |-> NoTag, time |-> NoTime]

\* The ETag that the caller of ServeContent has set: strong, weak, or none.
Tag(v) == IF fcase.etag = "none" THEN NoTag ELSE [kind |-> fcase.etag, v |-> v]
etagStrongMatch(a, b) == a = b /\ a.kind = "strong"
etagWeakMatch(a, b) == a.v = b.v

\* If-Match and If-None-Match are lists of tags.  What may stand in one besides tags: a comma
\* with and without a space after it, the star, and text that is not a tag.
Comma == [kind |-> "comma", v |-> 0]
CommaSpace == [kind |-> "commaSpace", v |-> 0]
Star == [kind |-> "star", v |-> 0]
NotATag == [kind |-> "text", v |-> 0]
IsTag(t) == t.kind \in {"strong", "weak"}
IsComma(t) == t.kind \in {"comma", "commaSpace"}
Listed(t) == IF t = NoTag THEN <<>> ELSE <<t>>
Panicked == -1    \* the status of a handler that panicked: the client gets no answer

-----------------------------------------------------------------------------
(* Preconditions *)

\* The list is read up to the first thing in it that is neither a tag nor a comma.
checkIfMatch(r) ==
  IF r.im = <<>> THEN "condNone"
  ELSE IF \E i \in 1..Len(r.im) : /\ r.im[i] = Star \/ etagStrongMatch(r.im[i], Tag(file.v))
                                  /\ \A j \in 1..(i - 1) : IsTag(r.im[j]) \/ IsComma(r.im[j])
       THEN "condTrue" ELSE "condFalse"
checkIfUnmodifiedSince(r) ==
  IF r.ius = NoTime \/ file.time = 0 THEN "condNone" ELSE IF file.time < r.ius + 2 THEN "condTrue" ELSE "condFalse"
\* Here the loop takes one comma and looks at what follows it without a look at the length.
\* A star after a space is not seen.
checkIfNoneMatch(r) ==
  LET s == r.inm
      from[i \in 1..(Len(s) + 1)] ==
        IF i > Len(s) THEN "condTrue"
        ELSE LET k == IF IsComma(s[i]) THEN i + 1 ELSE i IN
             IF k > Len(s) THEN "panic"
             ELSE IF s[k] = Star /\ s[i] # CommaSpace THEN "condFalse"
             ELSE IF ~IsTag(s[k]) THEN "condTrue"
             ELSE IF etagWeakMatch(s[k], Tag(file.v)) THEN "condFalse" ELSE from[k + 1] IN
  IF s = <<>> THEN "condNone" ELSE from[1]
checkIfModifiedSince(r) ==
  IF r.method \notin {"GET", "HEAD"} \/ r.ims = NoTime \/ file.time = 0 THEN "condNone"
  ELSE IF file.time < r.ims + 2 THEN "condFalse" ELSE "condTrue"
MutCheckIfRange(r) == "condNone"
checkIfRange(r) ==
  IF r.method # "GET" \/ (r.ifRange = NoTag /\ r.ifDate = NoTime) THEN "condNone"
  ELSE IF r.ifRange # NoTag THEN IF etagStrongMatch(r.ifRange, Tag(file.v)) THEN "condTrue" ELSE "condFalse"
  ELSE IF Seconds(r.ifDate) = Seconds(file.time) THEN "condTrue" ELSE "condFalse"

\* checkPreconditions: a status that ends the request, or 0 and the ranges to look at.
checkPreconditions(r) ==
  LET ch == IF checkIfMatch(r) = "condNone" THEN checkIfUnmodifiedSince(r) ELSE checkIfMatch(r)
      inm == checkIfNoneMatch(r) IN
  IF ch = "condFalse" THEN [status |-> 412, range |-> <<>>]
  ELSE IF inm = "panic" THEN [status |-> Panicked, range |-> <<>>]
  ELSE IF inm = "condFalse" THEN [status |-> IF r.method \in {"GET", "HEAD"} THEN 304 ELSE 412, range |-> <<>>]
  ELSE IF inm = "condNone" /\ checkIfModifiedSince(r) = "condFalse" THEN [status |-> 304, range |-> <<>>]
  ELSE [status |-> 0, range |-> IF checkIfRange(r) = "condFalse" THEN <<>> ELSE r.range]

-----------------------------------------------------------------------------
(* Ranges *)

\* A range-spec: a first byte and a last (-1: none), or a suffix when the first is -1.
\* parseRange gives the ranges, or "invalid", or "noOverlap".
RangeOf(s, size) ==
  IF s.first = -1 THEN LET n == Fewer(s.last, size) IN [start |-> size - n, length |-> n]
  ELSE [start |-> s.first, length |-> IF s.last = -1 THEN size - s.first ELSE Fewer(s.last, size - 1) - s.first + 1]
parseRange(specs, size) ==
  LET in == SelectSeq(specs, LAMBDA s : s.first < size) IN
  IF \E i \in 1..Len(in) : in[i].first >= 0 /\ in[i].last >= 0 /\ in[i].first > in[i].last
  THEN [err |-> "invalid", ranges |-> <<>>]
  ELSE IF in = <<>> /\ specs # <<>> THEN [err |-> "noOverlap", ranges |-> <<>>]
  ELSE [err |-> "nil", ranges |-> [i \in 1..Len(in) |-> RangeOf(in[i], size)]]
sumRangesSize(rs) == FoldLeft(LAMBDA n, r : n + r.length, 0, rs)

\* The bytes of a multipart body: a part's header and the last boundary count one each.
rangesMIMESize(rs) == sumRangesSize(rs) + Len(rs) + 1

-----------------------------------------------------------------------------
(* serveFile: the canonical path.  A path is what it names, and whether it ends in "/". *)

Answer(status) == [NoResp EXCEPT !.status = status]

\* What localRedirect sends the client to.
Redirected(p) ==
  CASE p.names = "indexFile" /\ ~p.slash -> [names |-> "dirWithIndex", slash |-> TRUE]
    [] p.names \in {"dir", "dirWithIndex"} /\ ~p.slash -> [p EXCEPT !.slash = TRUE]
    [] p.names \in {"file", "indexFile"} /\ p.slash -> [p EXCEPT !.slash = FALSE]
    [] OTHER -> p
serveFile ==
  /\ handler = "path"
  /\ LET p == [names |-> path.names, slash |-> path.slash] IN
     \/ /\ Redirected(p) # p
        /\ path' = [names |-> Redirected(p).names, slash |-> Redirected(p).slash, hops |-> path.hops + 1]
        /\ UNCHANGED <<fresp, handler>>
     \/ /\ Redirected(p) = p /\ p.names \in {"missing", "forbidden"}
        /\ fresp' = Answer(IF p.names = "missing" THEN 404 ELSE 403)
        /\ handler' = "done" /\ UNCHANGED path
     \/ /\ Redirected(p) = p /\ p.names = "dir"
        /\ fresp' = Answer(IF checkIfModifiedSince(freq) = "condFalse" THEN 304 ELSE 200)
        /\ handler' = "done" /\ UNCHANGED path
     \/ /\ Redirected(p) = p /\ p.names \in {"file", "dirWithIndex"}
        /\ handler' = "content" /\ UNCHANGED <<fresp, path>>
  /\ UNCHANGED <<fcase, file, copy, freq, parts>>

-----------------------------------------------------------------------------
(* serveContent *)

PartHeader == <<0, 1>>
LastBoundary == <<0, 2>>
Bytes(r, size) == [i \in 1..Fewer(r.length, size - Fewer(r.start, size)) |-> <<file.v, r.start + i>>]

\* As far as the header.  The size is the one that Stat returned when the file was opened.
serveContent ==
  /\ handler = "content"
  /\ LET pre == checkPreconditions(freq)
         p == parseRange(pre.range, file.size)
         rs == IF sumRangesSize(p.ranges) > file.size THEN <<>> ELSE p.ranges
         ok == [NoResp EXCEPT !.status = IF rs = <<>> THEN 200 ELSE 206, !.size = file.size, !.ranges = rs,
                              !.etag = Tag(file.v), !.time = IF file.time = 0 THEN NoTime ELSE Seconds(file.time) * 2,
                              !.length = IF rs = <<>> THEN file.size
                                         ELSE IF Len(rs) = 1 THEN rs[1].length ELSE rangesMIMESize(rs)] IN
     IF pre.status # 0 THEN fresp' = Answer(pre.status) /\ handler' = "done" /\ UNCHANGED parts
     ELSE IF p.err # "nil" THEN fresp' = Answer(416) /\ handler' = "done" /\ UNCHANGED parts
     ELSE /\ fresp' = ok
          /\ handler' = IF freq.method = "HEAD" THEN "close" ELSE "copy"
          /\ parts' = IF Len(rs) > 1 THEN [parts EXCEPT !.pc = "header", !.i = 1] ELSE parts
  /\ UNCHANGED <<fcase, file, copy, freq, path>>

\* io.CopyN from the file itself; a file that was cut short ends it early.
CopyFile ==
  /\ handler = "copy" /\ Len(fresp.ranges) <= 1
  /\ fresp' = [fresp EXCEPT !.body = Bytes(IF fresp.ranges = <<>> THEN [start |-> 0, length |-> fresp.length]
                                         ELSE fresp.ranges[1], file.size)]
  /\ handler' = "done"
  /\ UNCHANGED <<fcase, file, copy, freq, parts, path>>

\* The goroutine: a part's header, then its bytes, then the closing boundary; every write
\* waits until the handler has read it, and fails when the handler has closed the pipe.
PartWrites ==
  /\ parts.pc \in {"header", "bytes", "last"} /\ parts.pipe = <<>> /\ handler # "done"
  /\ LET r == fresp.ranges[parts.i]
         b == Bytes(r, file.size) IN
     parts' = CASE parts.pc = "header" -> [parts EXCEPT !.pc = "bytes", !.pipe = <<PartHeader>>]
                [] parts.pc = "bytes" -> IF Len(b) < r.length THEN [parts EXCEPT !.pc = "ended", !.pipe = b]
                                         ELSE IF parts.i = Len(fresp.ranges) THEN [parts EXCEPT !.pc = "last", !.pipe = b]
                                         ELSE [parts EXCEPT !.pc = "header", !.i = parts.i + 1, !.pipe = b]
                [] parts.pc = "last" -> [parts EXCEPT !.pc = "ended", !.pipe = <<LastBoundary>>]
  /\ UNCHANGED <<fcase, file, copy, freq, fresp, handler, path>>
PartFails ==
  /\ parts.pc \in {"header", "bytes", "last"} /\ handler = "done"
  /\ parts' = [parts EXCEPT !.pc = "ended", !.pipe = <<>>]
  /\ UNCHANGED <<fcase, file, copy, freq, fresp, handler, path>>

\* io.CopyN from the pipe, until the declared length or the end of the pipe; then the
\* deferred close of the reader.
CopyPipe ==
  /\ handler = "copy" /\ Len(fresp.ranges) > 1
  /\ \/ /\ parts.pipe # <<>> /\ Len(fresp.body) < fresp.length
        /\ fresp' = [fresp EXCEPT !.body = @ \o SubSeq(parts.pipe, 1, Fewer(Len(parts.pipe), fresp.length - Len(@)))]
        /\ parts' = [parts EXCEPT !.pipe = <<>>]
        /\ UNCHANGED handler
     \/ /\ Len(fresp.body) = fresp.length \/ (parts.pipe = <<>> /\ parts.pc = "ended")
        /\ handler' = "close" /\ UNCHANGED <<fresp, parts>>
  /\ UNCHANGED <<fcase, file, copy, freq, path>>

\* The client goes away: the write to it fails.
WriteFails ==
  /\ handler = "copy" /\ fcase.aborts
  /\ handler' = "close"
  /\ UNCHANGED <<fcase, file, copy, freq, fresp, parts, path>>

CloseReader ==
  /\ handler = "close"
  /\ handler' = "done"
  /\ UNCHANGED <<fcase, file, copy, freq, fresp, parts, path>>

-----------------------------------------------------------------------------
(* The client and the file *)

\* What the client may ask for, with the validators of its copy.
Asks(a) ==
  CASE a = "get" -> NoReq
    [] a = "head" -> [NoReq EXCEPT !.method = "HEAD"]
    [] a = "revalidate" -> [NoReq EXCEPT !.inm = Listed(copy.etag), !.ims = copy.time]
    [] a = "guarded" -> [NoReq EXCEPT !.im = Listed(copy.etag), !.ius = copy.time]
    [] a = "put" -> [NoReq EXCEPT !.method = "PUT", !.inm = Listed(copy.etag)]
    [] a = "resume" -> [NoReq EXCEPT !.ifRange = copy.etag, !.ifDate = IF copy.etag = NoTag THEN copy.time ELSE NoTime,
                                     !.range = <<[first |-> copy.bytes, last |-> -1]>>]

Ask(a) ==
  /\ handler = "idle" /\ a \in fcase.asks
  /\ a \in {"revalidate", "guarded", "put", "resume"} => copy.v > 0 /\ (copy.etag # NoTag \/ copy.time # NoTime)
  /\ a = "resume" => copy.bytes < FileSize
  /\ freq' = Asks(a) /\ handler' = "path"
  /\ UNCHANGED <<fcase, file, copy, fresp, parts, path>>
AskList(list) ==
  /\ handler = "idle" /\ "lists" \in fcase.asks /\ copy.v > 0
  /\ \/ freq' = [NoReq EXCEPT !.inm = list, !.method = fcase.method]
     \/ freq' = [NoReq EXCEPT !.im = list, !.method = fcase.method]
  /\ handler' = "path"
  /\ UNCHANGED <<fcase, file, copy, fresp, parts, path>>
AskRanges(specs) ==
  /\ handler = "idle" /\ "ranges" \in fcase.asks
  /\ freq' = [NoReq EXCEPT !.range = specs, !.method = fcase.method] /\ handler' = "path"
  /\ UNCHANGED <<fcase, file, copy, fresp, parts, path>>

\* The client has the response: a new copy, half of one, or a copy that is now whole.
Receive ==
  /\ handler = "done" /\ parts.pc \in {"none", "ended"}
  /\ copy' = IF fresp.status = 200 /\ Len(fresp.body) > 0
             THEN [v |-> fresp.body[1][1], etag |-> fresp.etag, time |-> fresp.time, bytes |-> Len(fresp.body) \div 2]
             ELSE IF fresp.status = 206 /\ (freq.ifRange # NoTag \/ freq.ifDate # NoTime)
                  THEN [copy EXCEPT !.bytes = FileSize] ELSE copy
  /\ freq' = NoReq /\ fresp' = NoResp /\ handler' = "idle"
  /\ parts' = [pc |-> "none", i |-> 0, pipe |-> <<>>]
  /\ path' = [path EXCEPT !.hops = 0]
  /\ UNCHANGED <<fcase, file>>

\* The file is replaced: a file that is being served stays what it is.
Change ==
  /\ handler = "idle" /\ file.v <= FileChanges
  /\ file' = [file EXCEPT !.v = @ + 1, !.time = IF @ = 0 THEN 0 ELSE @ + fcase.jump]
  /\ UNCHANGED <<fcase, copy, freq, fresp, handler, parts, path>>

Shrink ==
  /\ handler = "copy" /\ fcase.shrinks /\ file.size = FileSize
  /\ file' = [file EXCEPT !.size = FileSize - 1]
  /\ UNCHANGED <<fcase, copy, freq, fresp, handler, parts, path>>

RangeSpecs ==
  LET one == {[first |-> a, last |-> b] : a \in -1..(FileSize + 1), b \in -1..(FileSize + 1)} \ {[first |-> -1, last |-> -1]}
      some == {[first |-> 0, last |-> 0], [first |-> 1, last |-> -1], [first |-> -1, last |-> 1], [first |-> FileSize, last |-> -1]} IN
  {<<s>> : s \in one} \cup {<<s, t>> : s \in some, t \in some}

\* Lists with the client's tag, another that no version has, and what else may be in them.
TagLists ==
  LET mine == copy.etag
      other == [kind |-> "strong", v |-> 99] IN
  {<<mine>>, <<other, Comma, mine>>, <<mine, CommaSpace, other>>, <<Comma, mine>>, <<other, Comma, Comma, mine>>,
   <<NotATag, Comma, mine>>, <<Star>>, <<other, CommaSpace, Star>>, <<mine, Comma>>, <<other, Comma>>, <<Comma>>}

FileInit ==
  /\ fcase \in FileCases
  /\ file = [v |-> 1, time |-> fcase.time, size |-> FileSize]
  /\ copy = [v |-> 0, etag |-> NoTag, time |-> NoTime, bytes |-> 0]
  /\ freq = NoReq /\ fresp = NoResp /\ handler = "idle"
  /\ parts = [pc |-> "none", i |-> 0, pipe |-> <<>>]
  /\ path = fcase.path

Handler == serveFile \/ serveContent \/ CopyFile \/ PartWrites \/ PartFails \/ CopyPipe \/ CloseReader
FileNext ==
  \/ Handler \/ WriteFails \/ Receive \/ Change \/ Shrink
  \/ (\E a \in {"get", "head", "revalidate", "guarded", "put", "resume"} : Ask(a))
  \/ (\E s \in RangeSpecs : AskRanges(s))
  \/ (\E l \in TagLists : AskList(l))

-----------------------------------------------------------------------------
(* Properties *)

\* The bytes that a request asked for and the file has, in the order asked.
WantedBytes(specs, size) ==
  FoldLeft(LAMBDA b, s : b \o SelectSeq([i \in 1..size |-> i],
             LAMBDA i : IF s.first = -1 THEN i > size - s.last
                        ELSE i > s.first /\ (s.last = -1 \/ i <= s.last + 1)), <<>>, specs)

\* The records keep their shape, and every range lies within the file.
FileTypeOK ==
  /\ fresp.status \in {Panicked, 0, 200, 206, 304, 403, 404, 412, 416} /\ fresp.length >= 0
  /\ \A i \in DOMAIN fresp.ranges : fresp.ranges[i].start >= 0 /\ fresp.ranges[i].length >= 0

\* A complete answer is what was asked for: the bytes of the ranges that exist, or the
\* whole file when there is no range or their sum is larger.  (A suffix with two signs,
\* which ParseInt accepts, is outside.)
AnswersRanges ==
  handler = "done" /\ fresp.status \in {200, 206} /\ Len(fresp.body) = fresp.length /\ path.names # "dir" =>
    LET bytes == [i \in 1..Len(fresp.body) |-> fresp.body[i]]
        data == SelectSeq(bytes, LAMBDA b : b \notin {PartHeader, LastBoundary})
        got == [i \in 1..Len(data) |-> data[i][2]] IN
    freq.method # "HEAD" =>
      got = IF fresp.status = 206 THEN WantedBytes(freq.range, fresp.size) ELSE [i \in 1..fresp.size |-> i]

\* The declared length is what the handler sends, unless the file was cut or the client
\* went away: also for a multipart answer, whose length is computed beforehand and which
\* is sent to its last boundary.
LengthHonest ==
  handler \in {"close", "done"} /\ fresp.status \in {200, 206} /\ freq.method # "HEAD" /\ ~fcase.shrinks
    /\ ~fcase.aborts /\ path.names # "dir" =>
    /\ Len(fresp.body) = fresp.length
    /\ Len(fresp.ranges) > 1 => Last(fresp.body) = LastBoundary

\* A client that resumes never puts two versions together, when the validator is a strong
\* tag or the file changes less than once a second (checkIfRange).
ResumeSafe ==
  handler = "done" /\ fresp.status = 206 /\ (freq.ifRange # NoTag \/ freq.ifDate # NoTime) /\ fresp.body # <<>>
    /\ (fcase.etag = "strong" \/ (fcase.etag = "none" /\ fcase.jump >= 2)) =>
       fresp.body[1][1] = copy.v

\* Not Modified means that the client's copy is the current version, unless it asked with a
\* star; a tag that stands in a proper list is found there; and an answer to If-Match
\* without a star is of the version that the client has.
Proper(list) == \A i \in 1..Len(list) : IF i % 2 = 1 THEN IsTag(list[i]) ELSE IsComma(list[i]) /\ i < Len(list)
NotModifiedHonest ==
  handler = "done" /\ path.names # "dir" =>
    /\ fresp.status = 304 /\ (fcase.etag # "none" \/ fcase.jump >= 2) /\ freq.inm # <<Star>> => copy.v = file.v
    /\ Proper(freq.inm) /\ Tag(file.v) \in ToSet(freq.inm) => fresp.status \in {304, 412}
    /\ fresp.status \in {200, 206} /\ freq.im # <<>> /\ Star \notin ToSet(freq.im) => copy.v = file.v

\* Every request is answered, but for one whose If-None-Match ends in a comma before any of
\* its tags matched: checkIfNoneMatch then looks at a byte that is not there, and panics.
PanicsOnComma ==
  handler = "done" =>
    (fresp.status = Panicked <=> /\ freq.inm # <<>> /\ path.names \notin {"dir", "missing", "forbidden"}
                                /\ IsComma(Last(freq.inm)) /\ Tag(file.v) \notin ToSet(freq.inm))

\* The handler and the goroutine of a multipart answer do not wait for each other for
\* ever, nor does the goroutine outlive the handler (pr.Close).
NobodyStuck ==
  (handler \notin {"idle", "done"} \/ parts.pc \in {"header", "bytes", "last"}) => ENABLED Handler

\* Redirects to the canonical path end.
RedirectsEnd == path.hops <= 2

\* A client gets the bytes it asked for, of one version, with an honest length, or is told
\* truly that its copy is good; no goroutine is left behind and no redirect goes round.
\* The one request that is not answered is a list of tags that ends in a comma.
FilesSound == /\ FileTypeOK /\ AnswersRanges /\ LengthHonest /\ ResumeSafe
              /\ NotModifiedHonest /\ PanicsOnComma /\ NobodyStuck /\ RedirectsEnd
=============================================================================
