------------------------------ MODULE MCParts ------------------------------
(***************************************************************************)
(* Small instances of the parts that ZGrab's scans are built on and that   *)
(* run by themselves: the HTTP grab and its redirects, the framing of HTTP *)
(* messages, the file server, cookies, the client's redirects and          *)
(* timeouts, persistent connections driven by hand, the scanner and codec  *)
(* of Certificate Transparency logs, certificate chains and DER.  The      *)
(* parts share no state; a behaviour exercises one, and the others rest.   *)
(***************************************************************************)
EXTENDS HttpGrab, HttpFraming, FileServer, CookieJar, CTScan, CTCodec, Persist, HttpClient, X509Verify, ASN1

VARIABLE part   \* the part that runs

bigVars == <<vars, framingVars, fileVars, jarVars, ctVars>>
partsVars == <<part, bigVars, codecVars, persistVars, clientVars, x509Vars, derVars>>

-----------------------------------------------------------------------------
(* The HTTP grab: each setting on and off (NoSNI only changes the name that is sent) *)

MCSettings == {{}, {"TLS"}, {"FollowLocalhostRedirects", "NoSNI"}}
RestingTarget == [host |-> CHOOSE h \in Hosts : TRUE, domain |-> "known"]

-----------------------------------------------------------------------------
(* Messages: what library users may write, and what foreign peers send *)

M0 == [start |-> "start", dir |-> "request", method |-> "POST", status |-> 200, http11 |-> TRUE, body |-> "reader",
       bytes |-> 2, cl |-> 0, te |-> <<>>, lens |-> <<>>, close |-> FALSE, keepAlive |-> FALSE, trailer |-> "none",
       slow |-> FALSE, failsAt |-> 0, uncompressed |-> FALSE, continue |-> TRUE, host |-> TRUE, server |-> TRUE,
       cuts |-> FALSE, malformed |-> FALSE]
R0 == [M0 EXCEPT !.dir = "response", !.method = "GET", !.server = FALSE]
RestingMessage == [M0 EXCEPT !.start = "rest"]
Written ==
  {[M0 EXCEPT !.method = m, !.slow = s, !.trailer = t, !.cuts = c] :
     m \in {"POST", "GET"}, s \in BOOLEAN, t \in {"none", "keys"}, c \in BOOLEAN}
  \cup {[M0 EXCEPT !.cl = n, !.bytes = b] : n \in 1..3, b \in {2, 3}}
  \cup {[M0 EXCEPT !.bytes = 3]}
  \cup {[M0 EXCEPT !.body = b, !.method = m, !.bytes = 0] : b \in {"nil", "NoBody", "reader"}, m \in {"POST", "GET", "HEAD"}}
  \cup {[M0 EXCEPT !.failsAt = n, !.method = m] : n \in 1..2, m \in {"POST", "GET"}}
  \cup {[M0 EXCEPT !.host = FALSE], [M0 EXCEPT !.body = "nil", !.cl = 1], [M0 EXCEPT !.trailer = "badKey"],
        [M0 EXCEPT !.continue = FALSE], [M0 EXCEPT !.malformed = TRUE]}
Answered ==
  {[R0 EXCEPT !.cl = n, !.te = t, !.close = c, !.http11 = v, !.cuts = k] :
     n \in {-1, 0, 2}, t \in {<<>>, <<"chunked">>}, c \in BOOLEAN, v \in BOOLEAN, k \in BOOLEAN}
  \cup {[R0 EXCEPT !.method = "HEAD", !.cl = n, !.te = t] : n \in {-1, 2}, t \in {<<>>, <<"chunked">>}}
  \cup {[R0 EXCEPT !.status = s, !.body = b, !.bytes = 0] : s \in {100, 204, 304, 200}, b \in {"nil", "NoBody"}}
  \cup {[R0 EXCEPT !.cl = -1, !.uncompressed = TRUE], [R0 EXCEPT !.failsAt = 1],
        [R0 EXCEPT !.te = <<"chunked">>, !.trailer = "keys"]}
Foreign ==
  {[M0 EXCEPT !.start = "foreign", !.lens = l, !.te = t, !.http11 = v, !.keepAlive = v] :
     l \in {<<2>>, <<2, 2>>, <<2, 1>>}, v \in BOOLEAN,
     t \in {<<>>, <<"chunked">>, <<"identity">>, <<"chunked", "identity">>, <<"gzip">>, <<"chunked", "chunked">>}}
  \cup {[M0 EXCEPT !.start = "foreign", !.method = "HEAD", !.lens = l, !.bytes = 0] : l \in {<<0>>, <<2>>, <<>>}}
  \cup {[R0 EXCEPT !.start = "foreign", !.status = s, !.lens = <<2>>, !.bytes = 0] : s \in {204, 304}}
MCExchanges == {RestingMessage} \cup Written \cup Answered \cup Foreign

-----------------------------------------------------------------------------
(* Files *)

C0 == [etag |-> "strong", jump |-> 1, time |-> 2, asks |-> {}, aborts |-> FALSE, shrinks |-> FALSE, method |-> "GET",
       path |-> [names |-> "file", slash |-> FALSE, hops |-> 0]]
MCFiles ==
  {C0}
  \cup {[C0 EXCEPT !.etag = e, !.jump = j, !.asks = {"get", "revalidate", "resume"}] :
          e \in {"strong", "weak", "none"}, j \in 1..2}
  \cup {[C0 EXCEPT !.etag = e, !.time = t, !.asks = {"get", "guarded", "put", "head"}] : e \in {"strong", "weak"}, t \in {0, 2}}
  \cup {[C0 EXCEPT !.etag = e, !.asks = {"get", "lists"}, !.method = m] : e \in {"strong", "weak"}, m \in {"GET", "PUT"}}
  \cup {[C0 EXCEPT !.asks = {"ranges"}, !.aborts = a, !.shrinks = s, !.method = m] :
          a \in BOOLEAN, s \in BOOLEAN, m \in {"GET", "HEAD"}}
  \cup {[C0 EXCEPT !.asks = {"get"}, !.path = [names |-> n, slash |-> s, hops |-> 0]] :
          n \in {"file", "indexFile", "dir", "dirWithIndex", "missing", "forbidden"}, s \in BOOLEAN}

-----------------------------------------------------------------------------
(* Cookies *)

HostA == <<"a", "com">>
HostW == <<"w", "a", "com">>
HostB == <<"b", "com">>
HostIP == <<"ip">>
Ck(n, d, p, age, ex, sec) ==
  [name |-> n, value |-> <<>>, domain |-> d, path |-> p, maxAge |-> age, expires |-> ex, secure |-> sec]
Sets(host, p, c) == [host |-> host, path |-> p, cookie |-> c]
MCHosts == {HostA, HostW, HostB, HostIP, <<"com">>}
MCPaths == {<<"/">>, <<"/", "a">>, <<"/", "a", "b">>, <<"/", "a", "/", "b">>}
AbPath == <<"/", "a", "/", "b">>
ByDomain == {Sets(h, AbPath, Ck("n", d, <<>>, age, -1, FALSE)) :
               h \in {HostA, HostW}, d \in {<<>>, HostA, <<"com">>}, age \in {-1, 0, 1}}
ByPath == {Sets(HostA, AbPath, Ck("n", <<"">> \o HostA, p, 0, ex, FALSE)) :
             p \in {<<>>, <<"/">>, <<"/", "a", "b">>, <<"/", "a", "/">>}, ex \in {-1, 1, 2}}
Elsewhere == {Sets(h, <<"/">>, Ck("m", d, <<"/", "a">>, 0, 2, TRUE)) :
                h \in {HostA, HostW, HostB, HostIP}, d \in {<<>>, HostW, HostB, <<"a", "com", "">>}}
             \cup {Sets(HostA, <<"/">>, Ck("m", <<"a", "", "com">>, <<"/">>, 0, -1, FALSE))}
J0 == [psl |-> {}, sets |-> {}, value |-> <<"x">>]
MCJars ==
  {[J0 EXCEPT !.psl = l, !.sets = s] : l \in {{}, {<<"com">>}, {<<"com">>, HostA}}, s \in {ByDomain, ByPath, Elsewhere}}
  \cup {[J0 EXCEPT !.value = v, !.sets = {Sets(HostA, <<"/">>, Ck("n", <<>>, <<"/", "a">>, 0, -1, FALSE))}] :
          v \in UNION {[1..k -> {"x", " ", ",", "quote", ";"}] : k \in 0..3}}
  \cup {J0}

-----------------------------------------------------------------------------
(* Logs of three entries *)

Log(a, b, c) == [i \in 0..2 |-> IF i = 0 THEN a ELSE IF i = 1 THEN b ELSE c]
L0 == [kind |-> Log("cert", "cert", "cert"), treeSize |-> 3, startIndex |-> 0, maximumIndex |-> 0, batchSize |-> 2,
       faults |-> 0, ticks |-> 0, matches |-> {0, 1, 2}, precertOnly |-> FALSE, reads |-> TRUE, runs |-> TRUE, adds |-> FALSE,
       workers |-> CTMatchers]
RestingLog == [L0 EXCEPT !.runs = FALSE]
MCLogs ==
  {RestingLog, [RestingLog EXCEPT !.adds = TRUE], [L0 EXCEPT !.startIndex = 3, !.ticks = 1],
   [L0 EXCEPT !.kind = Log("precert", "precert", "badCert"), !.faults = 1, !.matches = {0}],
   [L0 EXCEPT !.kind = Log("oddPrecert", "oddPrecert", "badCert"), !.ticks = 2, !.workers = {"m1"}],
   [L0 EXCEPT !.kind = Log("oddPrecert", "precert", "oddCert"), !.startIndex = 1, !.precertOnly = TRUE, !.workers = {"m2"}],
   [L0 EXCEPT !.kind = Log("cert", "oddCert", "badPrecert"), !.startIndex = 1, !.batchSize = 1],
   [L0 EXCEPT !.kind = Log("oddCert", "precert", "cert"), !.maximumIndex = 2, !.precertOnly = TRUE, !.ticks = 1, !.reads = FALSE],
   [L0 EXCEPT !.kind = Log("cert", "undecodable", "precert"), !.faults = 1]}

-----------------------------------------------------------------------------
(* The codec: short byte strings *)

Strings(n) == UNION {[1..k -> 0..(ByteBase - 1)] : k \in 0..n}
Ones(n) == [i \in 1..n |-> 1]
LeafHeads == {<<>>, <<0>>, <<1, 0>>, <<0, 1>>, <<0, 0>>, <<0, 0, 1>>, <<0, 0, 1, 0>>, <<0, 0, 1, 1>>, <<0, 0, 1, 2>>}
Signed(t, h, c, x) == [version |-> V1, leafType |-> 0, timestamp |-> 1, type |-> t, hash |-> h, cert |-> c, ext |-> x]
RestingCall == [op |-> "chain", bytes |-> <<>>]
MCCodec ==
  {[op |-> o, bytes |-> b] : o \in {"chain", "precertChain"}, b \in Strings(5)}
  \cup {[op |-> "leaf", bytes |-> h \o b] : h \in LeafHeads, b \in Strings(4)}
  \cup {[op |-> "sct", sct |-> [version |-> v, id |-> 1, timestamp |-> 2, ext |-> x,
                                signature |-> [hash |-> 1, alg |-> 2, sig |-> s]]] :
          v \in 0..1, x \in {<<>>, <<1>>, <<0, 0>>, Ones(9)}, s \in {<<>>, <<2, 0>>, Ones(8), Ones(9)}}
  \cup {[op |-> "sign", entry |-> e] : e \in {Signed(0, 0, c, x) : c \in Strings(2), x \in Strings(1)}
                                           \cup {Signed(1, h, c, x) : h \in 0..1, c \in Strings(2), x \in Strings(1)}
                                           \cup {[Signed(t, 0, <<1>>, <<>>) EXCEPT !.version = v, !.leafType = l] :
                                                    t \in 0..2, v \in 0..1, l \in 0..1}}
  \cup {[op |-> "signHead", head |-> [version |-> v, timestamp |-> 1, size |-> n, root |-> r]] :
          v \in 0..1, n \in 0..2, r \in 0..2}

-----------------------------------------------------------------------------
(* Persistent connections driven by hand: two clients' requests in flight *)

P0 == [reqBody |-> {}, respBody |-> {}, reqClose |-> 0, respClose |-> 0, closes |-> {}, reads |-> FALSE, runs |-> TRUE]
RestingPersist == [P0 EXCEPT !.runs = FALSE]
MCPersist ==
  {RestingPersist, [P0 EXCEPT !.reqBody = {1}, !.respBody = {1, 2}, !.reads = TRUE],
   [P0 EXCEPT !.reqBody = {1}, !.respBody = {1}, !.respClose = 1]}
  \cup {[P0 EXCEPT !.reqClose = 1, !.closes = c] : c \in {{"client"}, {"server"}}}

-----------------------------------------------------------------------------
(* The client: redirects, cookies, cancellation and the timeout *)

UrlOf(h, s) == [host |-> h, https |-> s]
K0 == [method |-> "GET", body |-> "none", url |-> UrlOf("a", TRUE), timed |-> FALSE, cancels |-> FALSE, jar |-> FALSE,
       cookies |-> {}, auth |-> FALSE, useLast |-> FALSE, replies |-> {}, runs |-> TRUE]
RestingClient == [K0 EXCEPT !.runs = FALSE]
Told(st, l, u, c) == [status |-> st, location |-> l, url |-> u, sets |-> c]
Ends == {Told(st, "missing", UrlOf("a", TRUE), {}) : st \in {200, 301}}
Moves == {Told(st, "url", UrlOf(h, TRUE), c) : st \in {302, 308}, h \in {"w.a", "b"}, c \in {{}, {"n"}}}
MCClients ==
  {RestingClient,
   [K0 EXCEPT !.cancels = TRUE, !.useLast = TRUE,
              !.replies = Ends \cup {Told(307, "bad", UrlOf("a", TRUE), {"n"}), Told(302, "url", UrlOf("b", TRUE), {})}]}
  \cup {[K0 EXCEPT !.timed = TRUE, !.cancels = c, !.method = "POST", !.body = b,
                   !.replies = Ends \cup {Told(308, "url", UrlOf("b", FALSE), {})}] : c \in BOOLEAN, b \in {"replayable", "failing", "once"}}
  \cup {[K0 EXCEPT !.jar = j, !.cookies = {"n", "m"}, !.auth = TRUE, !.replies = Ends \cup Moves] : j \in BOOLEAN}
MCBelow == {<<"w.a", "a">>}

-----------------------------------------------------------------------------
(* Certificates: a leaf, three intermediates and a root *)

X0 == [subject |-> "L", issuer |-> "A", key |-> "l", signer |-> "a", skid |-> "l", akid |-> "a", ca |-> "no", version |-> 3,
       mayCertSign |-> TRUE, current |-> TRUE, maxPathLen |-> -1, ekus |-> {}, unknownEku |-> FALSE, permits |-> {},
       dns |-> {}, ips |-> {}, cn |-> <<>>]
CA(s, k, by) ==
  [X0 EXCEPT !.subject = s, !.key = k, !.skid = k, !.issuer = by[1], !.signer = by[2], !.akid = by[2], !.ca = "yes"]
World(a1, a2, b, r) == [L |-> X0, A1 |-> a1, A2 |-> a2, B |-> b, R |-> r]
Case509(w, us) ==
  [certs |-> w, leaf |-> "L", roots |-> <<"R">>, intermediates |-> <<"A1", "A2", "B", "A1">>, usages |-> us, host |-> <<>>]
ByR == <<"R", "r">>
ByB == <<"B", "b">>
ByA == <<"A", "a">>
Forged == <<"R", "x">>
Bare(w) == [c \in DOMAIN w |-> [w[c] EXCEPT !.skid = "none", !.akid = "none"]]
RootCA == CA("R", "r", ByR)
\* Two certificates of one intermediate, signed by the root and by each other's issuer, in a circle too.
Crossed ==
  {World(CA("A", "a", i), [CA("A", "a", j) EXCEPT !.current = t, !.maxPathLen = m], [CA("B", "b", k) EXCEPT !.ca = ca],
         [RootCA EXCEPT !.maxPathLen = n]) :
     i \in {ByR, ByB, Forged}, j \in {ByR, ByB}, k \in {ByR, ByA}, t \in BOOLEAN, m \in {-1, 0}, n \in -1..1,
     ca \in {"yes", "no", "absent"}}
PlainWorld == World(CA("A", "a", ByR), CA("A", "a", ByB), CA("B", "b", ByR), RootCA)
MayNotSign == {[PlainWorld EXCEPT !.R.mayCertSign = r, !.A1.mayCertSign = a, !.B.mayCertSign = ~a] : r \in BOOLEAN, a \in BOOLEAN}
\* An intermediate with the broken key of Entrust, below a root that is an authority or not.
Entrust ==
  {[PlainWorld EXCEPT !.L.signer = "entrustBroken", !.L.akid = "entrustBroken", !.A1.key = "entrustBroken",
                      !.A1.skid = "entrustBroken", !.R.ca = ca] : ca \in {"yes", "no", "absent"}}
Used ==
  {[PlainWorld EXCEPT !.L.ekus = e, !.A1.ekus = f, !.B.ekus = g, !.A1.unknownEku = u] :
     e \in {{}, {"server"}, {"client", "server"}, {"any"}}, f \in {{}, {"gated"}, {"client"}}, g \in {{}, {"client"}}, u \in BOOLEAN}
Named509 ==
  {[PlainWorld EXCEPT !.L.dns = d, !.L.cn = <<"c", "com">>, !.L.ips = {<<"ip", "1">>}, !.A1.permits = p] :
     d \in {{}, {<<"*", "com">>}, {<<"a", "com">>, <<"w", "*">>}}, p \in {{}, {<<"com">>}, {<<"a", "com">>, <<"org">>}}}
MCVerify ==
  {Case509(w, {"any"}) : w \in Crossed \cup Entrust \cup MayNotSign} \cup {Case509(Bare(w), {"any"}) : w \in Crossed}
  \cup {Case509(w, us) : w \in Used, us \in {{}, {"client"}, {"client", "server"}, {"any"}}}
  \cup {[Case509(w, {"any"}) EXCEPT !.host = h] : w \in Named509,
          h \in {<<"a", "com">>, <<"c", "com">>, <<"b", "a", "com">>, <<"ip", "1">>, <<"ip", "2">>, <<"w", "org">>}}
RestingVerify == Case509(PlainWorld, {"any"})

-----------------------------------------------------------------------------
(* DER: values at the limits of their types, and encodings cut or changed in a byte *)

Prim(k) == [kind |-> k, fields |-> <<>>, set |-> FALSE]
Field(t, p) == [type |-> t, params |-> p]
Struct(fs) == [kind |-> "struct", fields |-> fs, set |-> FALSE]
SliceType(t, set) == [kind |-> "slice", fields |-> <<Field(t, TopLevel)>>, set |-> set]
Numbers == {0, 1, 127, 128, 255, 256, 32767, 32768, -1, -128, -129, -256, -32768, -32769}
Optional == [TopLevel EXCEPT !.optional = TRUE]
Tagged(t) == [TopLevel EXCEPT !.tag = t]
Explicit(t) == [TopLevel EXCEPT !.tag = t, !.explicit = TRUE]
Bits(b, n) == [bytes |-> b, n |-> n]
S1 == Struct(<<Field(Prim("int64"), TopLevel), Field(Prim("int32"), [Explicit(0) EXCEPT !.optional = TRUE, !.default = 1]),
               Field(Prim("bool"), Optional), Field(Prim("bytes"), [Tagged(1) EXCEPT !.omitEmpty = TRUE, !.optional = TRUE])>>)
S2 == Struct(<<Field(Prim("oid"), TopLevel), Field(Prim("bits"), Tagged(33)),
               Field(SliceType(Prim("int64"), FALSE), TopLevel)>>)
S3 == Struct(<<Field(Prim("string"), [TopLevel EXCEPT !.stringType = 22]), Field(Prim("string"), Tagged(0)),
               Field(Prim("raw"), Optional)>>)
S4 == Struct(<<Field(Prim("flag"), [Explicit(2) EXCEPT !.optional = TRUE]),
               Field(Prim("enum"), [TopLevel EXCEPT !.optional = TRUE, !.default = 2]), Field(Prim("big"), Tagged(3))>>)
S5 == Struct(<<Field(SliceType(Prim("string"), TRUE), TopLevel), Field(Struct(<<Field(Prim("time"), TopLevel)>>), Explicit(0))>>)
S6 == Struct(<<Field(SliceType(Prim("int64"), FALSE), [TopLevel EXCEPT !.set = TRUE]),
               Field(Prim("int64"), [Tagged(3) EXCEPT !.application = TRUE])>>)
Vals1 == {<<n, m, b, s>> : n \in Numbers, m \in {0, 1, -129}, b \in BOOLEAN, s \in {<<>>, <<0, 0>>}}
Vals2 == {<<o, b, s>> : o \in {<<1, 2>>, <<2, 999, 128>>, <<1, 40>>, <<0, 39, 16384>>},
                        b \in {Bits(<<>>, 0), Bits(<<128>>, 1), Bits(<<1, 254>>, 15)}, s \in {<<>>, <<1, -200>>}}
Vals3 == {<<s, t, r>> : s \in {<<65>>, <<64>>, <<195, 169>>}, t \in {<<65, 42>>, <<64>>, <<195>>},
                        r \in {ZeroOf(Prim("raw")), [class |-> 1, compound |-> TRUE, tag |-> 40, bytes |-> <<2, 1, 1>>]}}
Vals4 == {<<f, e, b>> : f \in BOOLEAN, e \in {0, 2, 3}, b \in Numbers}
Vals5 == {<<s, <<[year |-> y, zone |-> 60]>> >> : s \in {<<>>, <<<<65>>, <<66>>>>}, y \in {1949, 1950, 1999, 2049, 2050}}
Long == [i \in 1..130 |-> 7]
Changed == {0, 1, 2, 3, 4, 5, 9, 31, 48, 127, 128, 129, 130, 160, 161, 162, 255}
\* A sample's encoding cut short, with one byte changed, and cut with the length set to match.
Damaged(b) ==
  {SubSeq(b, 1, n) : n \in 0..Len(b)} \cup {[b EXCEPT ![i] = c] : i \in 1..Len(b), c \in Changed}
  \cup {SubSeq([b EXCEPT ![2] = n - 2], 1, n) : n \in 2..Len(b)}
Case690(ty, vals, sample) == [type |-> ty, values |-> vals, encodings |-> Damaged(marshalField(ty, sample, TopLevel).val)]
Only690(ty, vals) == [type |-> ty, values |-> vals, encodings |-> {}]
AnyBodies ==
  {<<>>} \cup {<<c>> : c \in {0, 5, 7, 35, 65, 126, 127, 160, 200, 255}}
  \cup {<<c, d>> : c \in {0, 65, 127, 135}, d \in {0, 65, 170}}
MCDER == <<
  Case690(S1, Vals1, <<300, -129, TRUE, <<0, 0>> >>),
  Case690(S2, Vals2, <<<<2, 999, 3>>, Bits(<<1, 254>>, 15), <<1>> >>),
  Case690(S3, Vals3, <<<<65>>, <<65>>, [class |-> 1, compound |-> TRUE, tag |-> 40, bytes |-> <<2, 1, 1>>]>>),
  Case690(S4, Vals4, <<TRUE, 2, 256>>), Case690(S5, Vals5, <<<<<<65>>>>, <<[year |-> 2049, zone |-> 60]>> >>),
  Only690(S6, {<<<<1>>, 2>>}), Only690(Prim("bytes"), {Long}), Only690(Prim("big"), Numbers),
  Only690(Prim("int64"), {8388607, -8388608, 65535}),
  Only690(Prim("any"), {[kind |-> "string", val |-> <<65>>], [kind |-> "nil", val |-> <<>>]}),
  Only690(Prim("any"), {[kind |-> "int64", val |-> 0]}),
  [type |-> Prim("any"), values |-> {},
   encodings |-> {<<t, Len(s)>> \o s : t \in {2, 3, 4, 5, 6, 12, 19, 20, 22, 23, 48}, s \in AnyBodies}]>>
RestingDER == [op |-> "marshal", type |-> Prim("int64"), value |-> 0]

-----------------------------------------------------------------------------
Chosen(p, all, resting) == IF part = p THEN all ELSE {resting}

PartsInit ==
  /\ part \in {"grab", "framing", "files", "cookies", "log", "codec", "persist", "client", "verify", "der"}
  /\ config \in Chosen("grab", Configs, {})
  /\ msg \in Chosen("framing", Exchanges, RestingMessage)
  /\ fcase \in Chosen("files", FileCases, C0)
  /\ jcase \in Chosen("cookies", JarCases, J0)
  /\ scan \in Chosen("log", CTScenarios, RestingLog)
  /\ target \in Chosen("grab", [host : Hosts, domain : {"known", "unknown"}], RestingTarget)
  /\ ctCall \in Chosen("codec", CTInputs, RestingCall)
  /\ pscript \in Chosen("persist", PersistScripts, RestingPersist)
  /\ ccase \in Chosen("client", ClientCases, RestingClient)
  /\ xcase \in Chosen("verify", VerifyCases, RestingVerify)
  /\ Init /\ FramingInit /\ FileInit /\ JarInit /\ CTInit /\ PersistInit /\ ClientInit
  /\ ctResult = Err("notYet") /\ xresult = Fails("notYet")
  /\ IF part = "der" THEN DERInit ELSE derCall = RestingDER /\ derResult = <<>>

PartsNext ==
  \/ part = "grab" /\ Next
     /\ UNCHANGED <<part, framingVars, fileVars, jarVars, ctVars, codecVars, persistVars, clientVars, x509Vars, derVars>>
  \/ part = "framing" /\ FramingNext
     /\ UNCHANGED <<part, vars, fileVars, jarVars, ctVars, codecVars, persistVars, clientVars, x509Vars, derVars>>
  \/ part = "files" /\ FileNext
     /\ UNCHANGED <<part, vars, framingVars, jarVars, ctVars, codecVars, persistVars, clientVars, x509Vars, derVars>>
  \/ part = "cookies" /\ JarNext
     /\ UNCHANGED <<part, vars, framingVars, fileVars, ctVars, codecVars, persistVars, clientVars, x509Vars, derVars>>
  \/ part = "log" /\ CTNext
     /\ UNCHANGED <<part, vars, framingVars, fileVars, jarVars, codecVars, persistVars, clientVars, x509Vars, derVars>>
  \/ part = "codec" /\ CodecNext /\ UNCHANGED <<part, bigVars, persistVars, clientVars, x509Vars, derVars>>
  \/ part = "persist" /\ PersistNext /\ UNCHANGED <<part, bigVars, codecVars, clientVars, x509Vars, derVars>>
  \/ part = "client" /\ ClientNext /\ UNCHANGED <<part, bigVars, codecVars, persistVars, x509Vars, derVars>>
  \/ part = "verify" /\ X509Next /\ UNCHANGED <<part, bigVars, codecVars, persistVars, clientVars, derVars>>
  \/ part = "der" /\ DERNext /\ UNCHANGED <<part, bigVars, codecVars, persistVars, clientVars, x509Vars>>

\* A part that rests has no step that a fairness condition asks for.
PartsSpec == PartsInit /\ [][PartsNext]_partsVars /\ CTFairness /\ ClientFairness

-----------------------------------------------------------------------------
(* What the modules promise, put together where they work on the same things *)

\* A body is delimited by its writer so that its reader finds its end and the next message
\* (transfer.go, chunked.go) but for a chunked answer to HEAD, and requests in flight on one connection get their own
\* responses, also from several goroutines (persist.go).
MessagesSound ==
  /\ FramingTypeOK /\ BodyArrives /\ NextMessageFound /\ NeverWaitsWithData /\ CloseIsBounded
  /\ PersistTypeOK /\ ResponsesPair /\ MessagesFound /\ PendingCounts /\ PersistCallsReturn

\* A client follows redirects with the request, the cookies and the deadline that it should
\* (client.go), and its jar sends a server the cookies that were meant for it (jar.go).
ClientSound ==
  /\ [](ClientTypeOK /\ TimeoutTold /\ ReplacedCookies /\ RepeatsRequest)
  /\ CancelReaches /\ WatchersEnd
  /\ [](JarTypeOK /\ SentAsMeant /\ StaysInDomain /\ ValueComesBack)

\* A scan of a log processes every entry once, whatever the log leaves out, and returns
\* (scanner.go); entries and timestamps are read as they were written, and signed as one
\* thing only (serialization.go).
CTSound ==
  /\ [](CTTypeOK /\ EveryEntryOnce /\ CountersBounded /\ ProgressHonest /\ SubmissionTold)
  /\ NoSendOnClosedJobs /\ ScanReturns
  /\ [](ChainAsSent /\ LeafAsSent /\ SCTRoundTrip /\ SignedOnce)

\* Chains of certificates are sound and are found if there are any, but for a short one whose
\* intermediate was first met on a way that was too long; they are good for the usage that
\* was asked for, where a certificate's "any" counts for nothing (verify.go).  Values come
\* back from DER as they were; damaged DER is refused, or panics if it ends within an
\* explicit tag (asn1.go, marshal.go).
CertificatesSound ==
  /\ ChainsSound /\ ChainFound /\ UsageNested /\ HostNamed
  /\ DERRoundTrip /\ UnmarshalTotal /\ GuessedText /\ ParsedValue
=============================================================================
