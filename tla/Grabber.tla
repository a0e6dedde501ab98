------------------------------ MODULE Grabber ------------------------------
(***************************************************************************)
(* One call of zlib.GrabBanner, from the command line to the Grab it       *)
(* returns: the choice between the SSH, HTTP and dialogue modes and, in    *)
(* the dialogue, every stage of makeGrabber in its order on one Conn       *)
(* (zlib/grabber.go, zlib/conn.go), with what the scanners it calls do to  *)
(* the connection (ztools/ftp, ztools/scada/siemens, ztools/smb, ...).     *)
(*                                                                         *)
(* The peer is external: a server that may greet, that answers a request   *)
(* at most once, positively or not, and that may stop answering at any     *)
(* time.  A read that hits the deadline, a reset and a protocol error are  *)
(* all the same failure.                                                   *)
(***************************************************************************)
EXTENDS Flags, Naturals, Sequences

CONSTANT ArgSets      \* the command lines to consider, sets of Flags

ASSUME ArgSetsAssumption == ArgSets \subseteq SUBSET Flags

\* The stages of makeGrabber, with the branches GrabBanner takes before them
\* and the two steps the FTP and S7 stages are split into.
Stages == {"tls", "banner", "ftp", "authtls", "authssl", "fox", "telnet", "s7",
           "s7retry",
           "dnp3", "smb", "write", "ehlo", "smtp_help", "starttls", "quit",
           "modbus", "bacnet", "heartbleed"}
PCs == Stages \cup {"init", "fatal", "dispatch", "close", "done"}

\* c.erroredComponent and Grab.ErrorComponent.
Components == (Stages \ {"authssl", "s7retry"}) \cup {"none", "connect", "read"}

\* The fields of GrabData.
Fields == {"tls", "banner", "ftp", "authtls", "fox", "telnet", "s7", "dnp3",
           "smb", "write", "read", "ehlo", "smtp_help", "starttls", "modbus",
           "bacnet", "heartbleed", "http", "xssh"}

\* What the peer can be answering, and its answers.
Requests == {"greeting", "probe", "EHLO", "HELP", "STARTTLS", "QUIT", "AUTH"}
Codes == {"positive", "negative"}
Replies == [to : Requests, code : Codes]

\* A field is absent, holds a log or an incomplete read, or holds the text of
\* a reply (then it is named by the request that the reply answers).
Values == {"absent", "log"} \cup Requests

VARIABLES
  args,        \* the command line
  config,      \* zlib.Config after init
  server,      \* external: whether the peer speaks first
  pc,          \* the stage makeGrabber is at
  dialed,      \* the host and port the grab connects to
  open,        \* the connections that are open
  line,        \* "up", "eof" (reads fail), or reads and writes fail: "closed"
               \* locally, or "abandoned" in the middle of a TLS handshake
  layer,       \* Conn.isTls: what getUnderlyingConn returns
  handshakes,  \* TLS handshakes started on the connection
  inbox,       \* replies sent by the peer and not yet read
  sent,        \* what was sent, on which connection and layer (history)
  data,        \* Conn.grabData
  err,         \* the Error of the Grab
  component    \* its ErrorComponent

peerVars == <<line, layer, handshakes>>
wireVars == <<inbox, sent>>
resultVars == <<err, component>>
setupVars == <<args, config, server, dialed>>

vars == <<setupVars, pc, open, peerVars, wireVars, data, resultVars>>

Messages == [on : {"main", "s7"}, over : {"plain", "tls"}, msg : Requests]
NotDialed == [host |-> "none", port |-> "none"]

Init ==
  /\ args \in ArgSets /\ config = {}
  /\ server \in {"greets", "silent"}
  /\ pc = "init" /\ dialed = NotDialed /\ open = {}
  /\ line = "up" /\ layer = "plain" /\ handshakes = 0
  /\ inbox = <<>> /\ sent = {}
  /\ data = [f \in Fields |-> "absent"]
  /\ err = "none" /\ component = "none"

-----------------------------------------------------------------------------
(* The peer and the connection.                                            *)

Greeting ==
  IF server = "greets" THEN <<[to |-> "greeting", code |-> "positive"]>> ELSE <<>>

\* The inbox after request q: one answer or none.
Answered(q) ==
  {inbox} \cup {Append(inbox, [to |-> q, code |-> c]) : c \in Codes}

Writable == line \in {"up", "eof"}
Readable == line = "up"

Send(q) == sent' = sent \cup {[on |-> "main", over |-> layer, msg |-> q]}

Goto(s) == pc' = s /\ UNCHANGED resultVars
Fail(c) == pc' = "close" /\ err' = "error" /\ component' = c

\* Mutant: a stage that names its component on a read error and does not return.
MutReadReplyNoReturn(d, inb, f, next, c) ==
  \/ /\ Readable /\ inb # <<>>
     /\ data' = [d EXCEPT ![f] = Head(inb).to]
     /\ inbox' = Tail(inb)
     /\ Goto(next)
  \/ /\ data' = [d EXCEPT ![f] = "log"]
     /\ inbox' = inb
     /\ pc' = next /\ component' = c /\ UNCHANGED err

\* util.ReadUntilRegex into field f of d: a whole reply, or an error and
\* whatever had arrived.
ReadReply(d, inb, f, next, c) ==
  \/ /\ Readable /\ inb # <<>>
     /\ data' = [d EXCEPT ![f] = Head(inb).to]
     /\ inbox' = Tail(inb)
     /\ Goto(next)
  \/ /\ data' = [d EXCEPT ![f] = "log"]
     /\ inbox' = inb
     /\ Fail(c)

\* A single Read of the connection, which may return a part of a reply only.
ReadSome(d, inb, f, next, c) ==
  \/ ReadReply(d, inb, f, next, c)
  \/ /\ Readable /\ inb # <<>>
     /\ data' = [d EXCEPT ![f] = "log"]
     /\ inbox' = inb
     /\ Goto(next)

\* Mutant: no check of isTls.
MutTLSHandshakeRepeats(d, inb, greeting, next, c) ==
  \/ /\ layer = "tls"
     /\ data' = d /\ inbox' = inb /\ Fail(c)
     /\ UNCHANGED peerVars
  \/ /\ layer' = "tls" /\ handshakes' = handshakes + 1
     /\ data' = [d EXCEPT !["tls"] = "log"]
     /\ \/ inbox' = inb /\ Fail(c) /\ UNCHANGED line
        \/ /\ line = "up" /\ inb = <<>>
           /\ inbox' = greeting /\ Goto(next) /\ UNCHANGED line
        \/ /\ line = "up" /\ inb = <<>>
           /\ config \cap {"TLSCertsOnly", "SafariOnly"} # {}
           /\ line' = "abandoned" /\ inbox' = inb /\ Goto(next)

\* Conn.TLSHandshake, with d the data and inb the inbox so far: it refuses a
\* second handshake; it fails when the peer's next bytes are not a ServerHello;
\* and it reports an abandoned handshake (-tls-certs-only, -safari-ciphers) as
\* a success, after which the TLS library fails every read and write.
TLSHandshake(d, inb, greeting, next, c) ==
  \/ /\ layer = "tls"
     /\ data' = d /\ inbox' = inb /\ Fail(c)
     /\ UNCHANGED peerVars
  \/ /\ layer = "plain"
     /\ layer' = "tls" /\ handshakes' = handshakes + 1
     /\ data' = [d EXCEPT !["tls"] = "log"]
     /\ \/ inbox' = inb /\ Fail(c) /\ UNCHANGED line
        \/ /\ line = "up" /\ inb = <<>>
           /\ inbox' = greeting /\ Goto(next) /\ UNCHANGED line
        \/ /\ line = "up" /\ inb = <<>>
           /\ config \cap {"TLSCertsOnly", "SafariOnly"} # {}
           /\ line' = "abandoned" /\ inbox' = inb /\ Goto(next)

-----------------------------------------------------------------------------
(* main's init and the three branches of GrabBanner.                       *)

\* Flag validation, and everything else that ends init early: a file that
\* cannot be opened, a host name that cannot be found.
ParseFlags ==
  /\ pc = "init"
  /\ config' = Implied(args)
  /\ IF Refused(Implied(args))
     THEN pc' = "fatal"
     ELSE pc' \in {"dispatch", "fatal"}
  /\ UNCHANGED <<args, server, dialed, open, peerVars, wireVars, data, resultVars>>

\* target.Addr is nil when the input holds domain names only.
Host == IF "LookupDomain" \in config THEN "domain" ELSE "addr"

\* -xssh: the target's address is dialled whatever -lookup-domain says, and a
\* client whose handshake succeeded is never closed.
GrabXSSH ==
  /\ pc = "dispatch" /\ "XSSH" \in config
  /\ dialed' = [host |-> IF Host = "addr" THEN "addr" ELSE "nil", port |-> "flag"]
  /\ data' = [data EXCEPT !["xssh"] = "log"]
  /\ pc' = "done"
  /\ \/ err' = "error" /\ UNCHANGED open
     \/ Host = "addr" /\ open' = {"ssh"} /\ UNCHANGED err
  /\ UNCHANGED <<args, config, server, peerVars, wireVars, component>>

\* -http: with -lookup-domain the URL is built from the bare domain, so the
\* port is the scheme's.  The requests themselves are external here.
GrabHTTP ==
  /\ pc = "dispatch" /\ "XSSH" \notin config /\ "HTTP" \in config
  /\ dialed' = [host |-> Host, port |-> IF Host = "addr" THEN "flag" ELSE "scheme"]
  /\ data' = [data EXCEPT !["http"] = "log"]
  /\ pc' = "done"
  /\ err' \in {"none", "error"}
  /\ UNCHANGED <<args, config, server, open, peerVars, wireVars, component>>

\* The dialogue: makeDialer.  A server that speaks TLS from the start greets
\* after the handshake.
Dial ==
  /\ pc = "dispatch" /\ config \cap {"XSSH", "HTTP"} = {}
  /\ dialed' = [host |-> Host, port |-> "flag"]
  /\ \/ /\ open' = {"main"} /\ Goto("tls")
        /\ inbox' = IF "TLS" \in config THEN <<>> ELSE Greeting
     \/ /\ pc' = "done" /\ err' = "error" /\ component' = "connect"
        /\ UNCHANGED <<open, inbox>>
  /\ UNCHANGED <<args, config, server, peerVars, sent, data>>

-----------------------------------------------------------------------------
(* The stages of makeGrabber.                                              *)

\* The configuration fields that call for a stage, and the stage after it.
StageFlags ==
  [tls |-> {"TLS"}, banner |-> {"Banners"}, ftp |-> {"FTP"}, fox |-> {"Fox"},
   telnet |-> {"Telnet"}, s7 |-> {"S7"}, dnp3 |-> {"DNP3"}, smb |-> {"SMB"},
   write |-> {"SendData"}, ehlo |-> {"EHLO"}, smtp_help |-> {"SMTPHelp"},
   starttls |-> {"StartTLS"}, quit |-> {"SMTP", "POP3", "IMAP"},
   modbus |-> {"Modbus"}, bacnet |-> {"BACNet"}, heartbleed |-> {"Heartbleed"}]
NextStage ==
  [tls |-> "banner", banner |-> "ftp", ftp |-> "fox", fox |-> "telnet",
   telnet |-> "s7", s7 |-> "dnp3", dnp3 |-> "smb", smb |-> "write",
   write |-> "ehlo", ehlo |-> "smtp_help", smtp_help |-> "starttls",
   starttls |-> "quit", quit |-> "modbus", modbus |-> "bacnet",
   bacnet |-> "heartbleed", heartbleed |-> "close"]

At(s) == pc = s /\ config \cap StageFlags[s] # {}

Skip ==
  /\ \E s \in DOMAIN StageFlags :
       pc = s /\ config \cap StageFlags[s] = {} /\ pc' = NextStage[s]
  /\ UNCHANGED <<setupVars, open, peerVars, wireVars, data, resultVars>>

TLS ==
  /\ At("tls")
  /\ TLSHandshake(data, inbox, Greeting, "banner", "tls")
  /\ UNCHANGED <<setupVars, open, sent>>

\* SMTPBanner, POP3Banner and IMAPBanner read a whole reply, BasicBanner does
\* one Read.
Banner ==
  /\ At("banner")
  /\ IF config \cap {"SMTP", "POP3", "IMAP"} # {}
     THEN ReadReply(data, inbox, "banner", "ftp", "banner")
     ELSE ReadSome(data, inbox, "banner", "ftp", "banner")
  /\ UNCHANGED <<setupVars, open, peerVars, sent>>

\* ftp.GetFTPBanner: only a 2xx banner is followed by AUTH.
FTP ==
  /\ At("ftp")
  /\ LET auth == /\ "FTPAuthTLS" \in config
                 /\ inbox # <<>> /\ Head(inbox).code = "positive"
     IN  ReadReply(data, inbox, "ftp", IF auth THEN "authtls" ELSE "fox", "ftp")
  /\ UNCHANGED <<setupVars, open, peerVars, sent>>

\* Conn.GetFTPSCertificates: AUTH TLS, then AUTH SSL when the first is refused.
\* Write errors are ignored (the read then fails) and a refusal is no error.
Auth(refused) ==
  /\ Send("AUTH")
  /\ \E inb \in Answered("AUTH") :
       LET d == [data EXCEPT !["authtls"] = Head(inb).to] IN
       \/ inbox' = inb /\ Fail("authtls") /\ UNCHANGED <<data, peerVars>>
       \/ /\ Readable /\ inb # <<>> /\ Head(inb).code = "positive"
          /\ TLSHandshake(d, Tail(inb), <<>>, "fox", "authtls")
       \/ /\ Readable /\ inb # <<>> /\ Head(inb).code = "negative"
          /\ data' = d /\ inbox' = Tail(inb) /\ Goto(refused)
          /\ UNCHANGED peerVars
  /\ UNCHANGED <<setupVars, open>>

AuthTLS == pc = "authtls" /\ Auth("authssl")
AuthSSL == pc = "authssl" /\ Auth("fox")

\* A scanner that sends requests, reads the answers and logs whatever happens.
\* It fails when a write fails, when no answer comes or when the answer is not
\* one of its protocol.  Some scanners read as much as the answer announces,
\* others do single reads and may leave a part of the answer.
Probe(s, leftovers) ==
  /\ data' = [data EXCEPT ![s] = "log"]
  /\ \/ Fail(s) /\ UNCHANGED wireVars
     \/ Writable /\ Send("probe") /\ Fail(s) /\ UNCHANGED inbox
     \/ /\ Writable /\ Send("probe") /\ Readable
        /\ \E inb \in Answered("probe") :
             inb # <<>> /\ inbox' \in {Tail(inb)} \cup (IF leftovers THEN {inb} ELSE {})
        /\ Goto(NextStage[s])

Fox ==
  /\ At("fox") /\ Probe("fox", TRUE)
  /\ UNCHANGED <<setupVars, open, peerVars>>

\* GetTelnetBanner takes the end of the stream, and a deadline that passes once
\* some banner was read, for the end of the banner.
Telnet ==
  /\ At("telnet") /\ Probe("telnet", TRUE)
  /\ line' \in {line} \cup (IF line = "up" THEN {"eof"} ELSE {})
  /\ UNCHANGED <<setupVars, open, layer, handshakes>>

\* siemens.GetS7Banner: when the first request gets no answer the connection is
\* closed and the address dialled again, without TLS and with a deadline of its
\* own.  Nothing ever closes the second connection.  Errors after IsS7 are
\* masked, so the stage may succeed with a part of the log.
S7 ==
  /\ At("s7")
  /\ data' = [data EXCEPT !["s7"] = "log"]
  /\ \/ /\ Writable /\ Send("probe") /\ Readable
        /\ \E inb \in Answered("probe") : inb # <<>> /\ inbox' \in {inb, Tail(inb)}
        /\ Goto("dnp3") \/ Fail("s7")
        /\ line' \in {"up", "eof"} /\ UNCHANGED open
     \/ /\ (Writable /\ Send("probe")) \/ UNCHANGED sent
        /\ open' = open \ {"main"} /\ line' = "closed"
        /\ Goto("s7retry") /\ UNCHANGED inbox
  /\ UNCHANGED <<setupVars, layer, handshakes>>

S7Retry ==
  /\ pc = "s7retry"
  /\ \/ Fail("s7") /\ UNCHANGED <<open, sent>>
     \/ /\ open' = open \cup {"s7"}
        /\ sent' = sent \cup {[on |-> "s7", over |-> "plain", msg |-> "probe"]}
        /\ Goto("dnp3") \/ Fail("s7")
  /\ UNCHANGED <<setupVars, peerVars, inbox, data>>

\* The error of GetDNP3Banner is dropped.  The deadline is absolute, so a
\* connection whose read failed gives no later answer either.
DNP3 ==
  /\ At("dnp3")
  /\ data' = [data EXCEPT !["dnp3"] = "log"]
  /\ \/ /\ Writable /\ Send("probe") /\ Readable
        /\ \E inb \in Answered("probe") : inb # <<>> /\ inbox' \in {inb, Tail(inb)}
        /\ UNCHANGED line
     \/ /\ (Writable /\ Send("probe")) \/ UNCHANGED sent
        /\ line' = IF line = "up" THEN "eof" ELSE line
        /\ UNCHANGED inbox
  /\ Goto("smb")
  /\ UNCHANGED <<setupVars, open, layer, handshakes>>

\* A complete SMB negotiation closes the connection.
SMB ==
  /\ At("smb") /\ Probe("smb", FALSE)
  /\ \/ UNCHANGED <<open, line>>
     \/ pc' = "write" /\ open' = open \ {"main"} /\ line' = "closed"
  /\ UNCHANGED <<setupVars, layer, handshakes>>

SendData ==
  /\ At("write")
  /\ LET d == [data EXCEPT !["write"] = "log"] IN
     \/ data' = d /\ Fail("write") /\ UNCHANGED wireVars
     \/ /\ Writable /\ Send("probe")
        /\ \E inb \in Answered("probe") : ReadSome(d, inb, "read", "ehlo", "read")
  /\ UNCHANGED <<setupVars, open, peerVars>>

\* Mutant: the answer to EHLO is not read.
MutEHLOUnread ==
  /\ At("ehlo")
  /\ \/ Fail("ehlo") /\ UNCHANGED <<data, wireVars>>
     \/ /\ Writable /\ Send("EHLO")
        /\ \E inb \in Answered("EHLO") :
             inbox' = inb /\ Goto("smtp_help") /\ UNCHANGED data
  /\ UNCHANGED <<setupVars, open, peerVars>>

EHLO ==
  /\ At("ehlo")
  /\ \/ Fail("ehlo") /\ UNCHANGED <<data, wireVars>>
     \/ /\ Writable /\ Send("EHLO")
        /\ \E inb \in Answered("EHLO") :
             ReadReply(data, inb, "ehlo", "smtp_help", "ehlo")
  /\ UNCHANGED <<setupVars, open, peerVars>>

SMTPHelp ==
  /\ At("smtp_help")
  /\ \/ /\ data' = [data EXCEPT !["smtp_help"] = "log"]
        /\ Fail("smtp_help") /\ UNCHANGED wireVars
     \/ /\ Writable /\ Send("HELP")
        /\ \E inb \in Answered("HELP") :
             ReadReply(data, inb, "smtp_help", "starttls", "smtp_help")
  /\ UNCHANGED <<setupVars, open, peerVars>>

\* A 2xx code, a "+", or for IMAP an OK that carries the command's tag.
Accepts(r) ==
  /\ r.code = "positive"
  /\ "IMAP" \in config => r.to # "greeting"

\* Mutant: sendStartTLSCommand without its check of isTls.
MutStartTLSUnchecked ==
  /\ At("starttls")
  /\ \/ /\ Fail("starttls") /\ UNCHANGED <<data, wireVars, peerVars>>
     \/ /\ Writable
        /\ sent' = sent \cup {[on |-> "main", over |-> "plain", msg |-> "STARTTLS"]}
        /\ \E inb \in Answered("STARTTLS") :
             LET d == [data EXCEPT !["starttls"] = Head(inb).to] IN
             \/ /\ data' = [data EXCEPT !["starttls"] = "log"]
                /\ inbox' = inb /\ Fail("starttls") /\ UNCHANGED peerVars
             \/ /\ Readable /\ inb # <<>> /\ ~Accepts(Head(inb))
                /\ data' = d /\ inbox' = Tail(inb)
                /\ Fail("starttls") /\ UNCHANGED peerVars
             \/ /\ Readable /\ inb # <<>> /\ Accepts(Head(inb))
                /\ TLSHandshake(d, Tail(inb), <<>>, "quit", "starttls")
  /\ UNCHANGED <<setupVars, open>>

\* sendStartTLSCommand writes to the TCP connection itself.
StartTLS ==
  /\ At("starttls")
  /\ \/ /\ Fail("starttls") /\ UNCHANGED <<data, wireVars, peerVars>>
     \/ /\ layer = "plain" /\ Writable
        /\ sent' = sent \cup {[on |-> "main", over |-> "plain", msg |-> "STARTTLS"]}
        /\ \E inb \in Answered("STARTTLS") :
             LET d == [data EXCEPT !["starttls"] = Head(inb).to] IN
             \/ /\ data' = [data EXCEPT !["starttls"] = "log"]
                /\ inbox' = inb /\ Fail("starttls") /\ UNCHANGED peerVars
             \/ /\ Readable /\ inb # <<>> /\ ~Accepts(Head(inb))
                /\ data' = d /\ inbox' = Tail(inb)
                /\ Fail("starttls") /\ UNCHANGED peerVars
             \/ /\ Readable /\ inb # <<>> /\ Accepts(Head(inb))
                /\ TLSHandshake(d, Tail(inb), <<>>, "quit", "starttls")
  /\ UNCHANGED <<setupVars, open>>

\* The answer to QUIT (or to IMAP's CLOSE) is not read.
Quit ==
  /\ At("quit")
  /\ \/ Fail("quit") /\ UNCHANGED wireVars
     \/ /\ Writable /\ Send("QUIT")
        /\ inbox' \in Answered("QUIT") /\ Goto("modbus")
  /\ UNCHANGED <<setupVars, open, peerVars, data>>

Modbus ==
  /\ At("modbus") /\ Probe("modbus", FALSE)
  /\ UNCHANGED <<setupVars, open, peerVars>>

BACNet ==
  /\ At("bacnet") /\ Probe("bacnet", FALSE)
  /\ UNCHANGED <<setupVars, open, peerVars>>

\* Refused without TLS.  The library's HeartbleedError is the result of the
\* check, and without the heartbeat extension nothing is sent.
Heartbleed ==
  /\ At("heartbleed")
  /\ \/ layer = "plain" /\ Fail("heartbleed") /\ UNCHANGED <<data, sent>>
     \/ /\ layer = "tls" /\ data' = [data EXCEPT !["heartbleed"] = "log"]
        /\ \/ Fail("heartbleed") /\ UNCHANGED sent
           \/ line # "abandoned" /\ Goto("close") /\ UNCHANGED sent
           \/ Writable /\ Send("probe") /\ Goto("close")
  /\ UNCHANGED <<setupVars, open, peerVars, inbox>>

\* The wrapper around the dialogue closes the connection whatever happened.
Close ==
  /\ pc = "close"
  /\ open' = open \ {"main"}
  /\ pc' = "done"
  /\ UNCHANGED <<setupVars, peerVars, wireVars, data, resultVars>>

Returned == pc \in {"done", "fatal"} /\ UNCHANGED vars

Next ==
  \/ ParseFlags \/ GrabXSSH \/ GrabHTTP \/ Dial \/ Skip
  \/ TLS \/ Banner \/ FTP \/ AuthTLS \/ AuthSSL \/ Fox \/ Telnet
  \/ S7 \/ S7Retry \/ DNP3 \/ SMB \/ SendData \/ EHLO \/ SMTPHelp
  \/ StartTLS \/ Quit \/ Modbus \/ BACNet \/ Heartbleed
  \/ Close \/ Returned

Spec == Init /\ [][Next]_vars

-----------------------------------------------------------------------------
(* Properties.                                                             *)

\* Types of the command line, the connection and the grab.
TypeSetup ==
  /\ args \in SUBSET Flags /\ config \in SUBSET Config
  /\ server \in {"greets", "silent"}
  /\ pc \in PCs
  /\ dialed \in [host : {"none", "addr", "domain", "nil"},
                 port : {"none", "flag", "scheme"}]
TypeConn ==
  /\ open \in SUBSET {"main", "s7", "ssh"}
  /\ line \in {"up", "eof", "closed", "abandoned"}
  /\ layer \in {"plain", "tls"}
  /\ handshakes \in Nat
TypeWire == inbox \in Seq(Replies) /\ sent \in SUBSET Messages
TypeGrab ==
  /\ data \in [Fields -> Values]
  /\ err \in {"none", "error"} /\ component \in Components

\* Every variable has its type: no stage invents a component, a field or a
\* connection that the program does not have (Config, Conn, Grab).
TypeOK == TypeSetup /\ TypeConn /\ TypeWire /\ TypeGrab

Dialogue == config \cap {"XSSH", "HTTP"} = {}

\* No command line and no answer of the peer makes Conn start a second TLS
\* handshake on a connection: -tls, STARTTLS and FTP's AUTH TLS exclude each
\* other by flag checks, by stage order or by the checks in conn.go.
OneHandshake == handshakes <= 1

\* Once the TLS handshake of the connection has begun, nothing is sent on it in
\* the clear any more: sendStartTLSCommand, which writes to the TCP connection,
\* is never reached on a TLS connection (conn.go, getUnderlyingConn).
NoPlaintextAfterTLS ==
  [][layer = "tls" =>
       \A m \in sent' \ sent : m.on = "main" => m.over = "tls"]_vars

\* With -tls every stage of the dialogue speaks over TLS on the connection that
\* GrabBanner dialled, whatever else the command line asks for.
TLSFirst ==
  "TLS" \in config => \A m \in sent : m.on = "main" => m.over = "tls"

\* A dialogue that gets as far as the Heartbleed check has a TLS connection:
\* what init refuses and the early returns of the tls and starttls stages make
\* the "Must perform TLS handshake" error of CheckHeartbleed unreachable.
HeartbleedReady == At("heartbleed") => layer = "tls"

\* When GrabBanner has returned, the connection it dialled is closed on every
\* path, also when a stage failed or closed it early; what may stay open is
\* S7's second connection and an SSH client.
MainClosed == pc = "done" => open \subseteq {"s7", "ssh"}

\* The order of the components a dialogue can fail in, of the steps it goes
\* through, and of the fields it fills.
Rank ==
  [tls |-> 1, banner |-> 2, ftp |-> 3, authtls |-> 4, authssl |-> 5, fox |-> 6,
   telnet |-> 7, s7 |-> 8, s7retry |-> 9, dnp3 |-> 10, smb |-> 11, write |-> 12,
   read |-> 13, ehlo |-> 14, smtp_help |-> 15, starttls |-> 16, quit |-> 17,
   modbus |-> 18, bacnet |-> 19, heartbleed |-> 20, close |-> 21, done |-> 22]
Before(a, b) == a \in DOMAIN Rank /\ b \in DOMAIN Rank /\ Rank[a] < Rank[b]
StageFields == DOMAIN StageFlags \ {"tls", "quit"}
Wanted(f) == config \cap StageFlags[f] # {}

\* What the grab says when component c ended the dialogue.
EndedIn(c) ==
  \A f \in StageFields :
    /\ data[f] # "absent" => Wanted(f) /\ ~Before(c, f)
    /\ Wanted(f) /\ Before(f, c) => data[f] # "absent"

\* While no stage has failed, the grab holds data of exactly the stages asked
\* for that makeGrabber has passed; and a stage that fails is the last.
RecordSoFar ==
  /\ (err = "none") <=> (component = "none")
  /\ component # "none" => pc \in {"close", "done"}
  /\ component = "connect" => pc = "done"
  /\ component = "none" =>
       \A f \in StageFields :
         data[f] # "absent" <=> Wanted(f) /\ Before(f, pc)
  /\ component \notin {"none", "connect"} => EndedIn(component)

\* The grab of a dialogue says how far the dialogue got: it has an error iff it
\* names a component, it holds data of every stage asked for before that
\* component, and none of a stage after it or not asked for.
RecordTellsHowFar ==
  Dialogue =>
    /\ RecordSoFar
    /\ pc = "done" /\ component # "connect" =>
         \A f \in StageFields :
           /\ data[f] # "absent" => Wanted(f) /\ ~Before(component, f)
           /\ Wanted(f) /\ (component = "none" \/ Before(f, component)) =>
                data[f] # "absent"

\* Every reply that a mail dialogue records is the reply to the command it is
\* recorded under.
Matched ==
  /\ data["banner"] \in {"absent", "log", "greeting"}
  /\ data["ehlo"] \in {"absent", "log", "EHLO"}
  /\ data["smtp_help"] \in {"absent", "log", "HELP"}
  /\ data["starttls"] \in {"absent", "log", "STARTTLS"}
Mail == config \cap {"SMTP", "POP3", "IMAP"} # {}

\* With -banners, and without scanners in between that read less than a whole
\* answer, the replies of a mail dialogue are attributed to the right commands
\* (SMTPBanner, EHLO, SMTPHelp, the three STARTTLS methods).
MailAnswersMatch ==
  /\ Mail /\ "Banners" \in config
  /\ config \cap {"Fox", "S7", "DNP3", "SendData"} = {}
  => Matched

\* TLS is spoken as the command line says, whatever the peer answers: one handshake on a
\* connection, before everything else with -tls, and before the Heartbleed check.
TLSDiscipline == TypeOK /\ OneHandshake /\ TLSFirst /\ HeartbleedReady

\* However a dialogue goes, its connection is closed in the end, and the replies that a mail
\* dialogue recorded are the answers to the commands they are recorded for.
DialogueKept == MainClosed /\ MailAnswersMatch
=============================================================================
