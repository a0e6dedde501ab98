--------------------------- MODULE GrabberProofs ---------------------------
(***************************************************************************)
(* Proofs about Grabber, for every command line and every peer.            *)
(***************************************************************************)
EXTENDS Grabber, SequenceTheorems, TLAPS

LEMMA TypeInit == Init => TypeOK
  BY ArgSetsAssumption DEF Init, TypeOK, TypeSetup, TypeConn, TypeWire, TypeGrab, PCs,
     NotDialed, Fields, Values, Components

LEMMA TypeSetupNext == TypeOK /\ [Next]_vars => TypeSetup'
<1> SUFFICES ASSUME TypeSetup, [Next]_vars PROVE TypeSetup'
  BY DEF TypeOK
<1> USE DEF TypeSetup, PCs, Stages, setupVars
<1>1. CASE ParseFlags
  BY <1>1 DEF ParseFlags, Implied, Config, Flags
<1>2. CASE GrabXSSH \/ GrabHTTP \/ Dial
  BY <1>2 DEF GrabXSSH, GrabHTTP, Dial, Host, Goto
<1>3. CASE Skip
  BY <1>3 DEF Skip, StageFlags, NextStage
<1>4. CASE TLS \/ AuthTLS \/ AuthSSL \/ StartTLS
  BY <1>4 DEF TLS, AuthTLS, AuthSSL, StartTLS, Auth, TLSHandshake, Goto, Fail
<1>5. CASE Banner \/ FTP \/ SendData \/ EHLO \/ SMTPHelp
  BY <1>5 DEF Banner, FTP, SendData, EHLO, SMTPHelp, ReadSome, ReadReply, Goto, Fail
<1>6. CASE Fox \/ Telnet \/ SMB \/ Modbus \/ BACNet
  BY <1>6 DEF Fox, Telnet, SMB, Modbus, BACNet, Probe, NextStage, Goto, Fail
<1>7. CASE S7 \/ S7Retry \/ DNP3 \/ Quit \/ Heartbleed
  BY <1>7 DEF S7, S7Retry, DNP3, Quit, Heartbleed, Goto, Fail
<1>8. CASE Close \/ Returned \/ UNCHANGED vars
  BY <1>8 DEF Close, Returned, vars
<1> QED
  BY <1>1, <1>2, <1>3, <1>4, <1>5, <1>6, <1>7, <1>8 DEF Next

LEMMA TypeConnNext == TypeOK /\ [Next]_vars => TypeConn'
<1> SUFFICES ASSUME TypeConn, [Next]_vars PROVE TypeConn'
  BY DEF TypeOK
<1> USE DEF TypeConn
<1>1. CASE TLS \/ AuthTLS \/ AuthSSL \/ StartTLS
  <2>1. open' = open
    BY <1>1 DEF TLS, AuthTLS, AuthSSL, StartTLS, Auth
  <2>2. line' \in {line, "abandoned"}
    BY <1>1 DEF TLS, AuthTLS, AuthSSL, StartTLS, Auth, TLSHandshake, peerVars
  <2>3. \/ UNCHANGED <<layer, handshakes>>
        \/ layer' = "tls" /\ handshakes' = handshakes + 1
    BY <1>1 DEF TLS, AuthTLS, AuthSSL, StartTLS, Auth, TLSHandshake, peerVars
  <2> QED
    BY <2>1, <2>2, <2>3
<1>2. CASE S7 \/ S7Retry \/ DNP3 \/ SMB \/ Telnet
  BY <1>2 DEF S7, S7Retry, DNP3, SMB, Telnet, peerVars
<1>3. CASE GrabXSSH \/ Dial \/ Close
  BY <1>3 DEF GrabXSSH, Dial, Close, peerVars
<1>4. CASE UNCHANGED <<open, peerVars>>
  BY <1>4 DEF peerVars
<1> QED
  BY <1>1, <1>2, <1>3, <1>4 DEF Next, vars, ParseFlags, GrabHTTP, Skip, Banner, FTP, Fox, SendData,
   EHLO, SMTPHelp, Quit, Modbus, BACNet, Heartbleed, Returned

\* The replies waiting after a request are replies, and so is what is read.
LEMMA AnsweredReplies ==
  ASSUME TypeWire, NEW q \in Requests, NEW inb \in Answered(q)
  PROVE  /\ inb \in Seq(Replies)
         /\ inb # <<>> => Head(inb).to \in Requests /\ Tail(inb) \in Seq(Replies)
<1>1. inbox \in Seq(Replies) /\ \A c \in Codes : [to |-> q, code |-> c] \in Replies
  BY DEF TypeWire, Replies
<1>2. \A r \in Replies : Append(inbox, r) \in Seq(Replies)
  BY <1>1, AppendProperties
<1>3. inb \in Seq(Replies)
  BY <1>1, <1>2 DEF Answered
<1>4. ASSUME inb # <<>> PROVE Head(inb) \in Replies /\ Tail(inb) \in Seq(Replies)
  BY <1>3, <1>4, HeadTailProperties
<1> QED
  BY <1>3, <1>4 DEF Replies

LEMMA InboxReplies ==
  ASSUME TypeWire, inbox # <<>>
  PROVE  Head(inbox).to \in Requests /\ Tail(inbox) \in Seq(Replies)
<1>1. Head(inbox) \in Replies /\ Tail(inbox) \in Seq(Replies)
  BY HeadTailProperties DEF TypeWire
<1> QED
  BY <1>1 DEF Replies

LEMMA GreetingReplies == Greeting \in Seq(Replies)
<1>1. [to |-> "greeting", code |-> "positive"] \in Replies
  BY DEF Replies, Requests, Codes
<1> HIDE DEF Replies
<1> QED
  BY <1>1 DEF Greeting

LEMMA SentMessages == TypeOK /\ [Next]_vars => sent' \in SUBSET Messages
<1> SUFFICES ASSUME sent \in SUBSET Messages, layer \in {"plain", "tls"}, [Next]_vars
             PROVE  sent' \in SUBSET Messages
  BY DEF TypeOK, TypeConn, TypeWire
<1> USE DEF Messages, Requests
<1>1. CASE Fox \/ Telnet \/ SMB \/ Modbus \/ BACNet
  BY <1>1 DEF Fox, Telnet, SMB, Modbus, BACNet, Probe, Send, wireVars
<1>2. CASE S7 \/ S7Retry \/ DNP3 \/ Heartbleed
  BY <1>2 DEF S7, S7Retry, DNP3, Heartbleed, Send
<1>3. CASE SendData \/ EHLO \/ SMTPHelp \/ Quit
  BY <1>3 DEF SendData, EHLO, SMTPHelp, Quit, Send, wireVars
<1>4. CASE StartTLS \/ AuthTLS \/ AuthSSL
  BY <1>4 DEF StartTLS, AuthTLS, AuthSSL, Auth, Send, wireVars
<1>5. CASE UNCHANGED sent
  BY <1>5
<1> QED
  BY <1>1, <1>2, <1>3, <1>4, <1>5 DEF Next, vars, wireVars, ParseFlags, GrabXSSH, GrabHTTP, Dial, Skip, TLS,
   Banner, FTP, Close, Returned

LEMMA TypeInboxNext == TypeOK /\ [Next]_vars => inbox' \in Seq(Replies)
<1> SUFFICES ASSUME TypeWire, [Next]_vars PROVE inbox' \in Seq(Replies)
  BY DEF TypeOK
<1>0. inbox \in Seq(Replies) /\ <<>> \in Seq(Replies)
  BY DEF TypeWire
<1>1. CASE Dial
  BY <1>0, <1>1, GreetingReplies DEF Dial
<1>2. CASE TLS
  BY <1>0, <1>2, GreetingReplies DEF TLS, TLSHandshake
<1>3. CASE Banner \/ FTP
  BY <1>0, <1>3, InboxReplies DEF Banner, FTP, ReadSome, ReadReply
<1>4. CASE AuthTLS \/ AuthSSL
  <2>1. PICK inb \in Answered("AUTH") : inbox' \in {inb, <<>>} \/ (inb # <<>> /\ inbox' = Tail(inb))
    BY <1>4 DEF AuthTLS, AuthSSL, Auth, TLSHandshake
  <2> QED
    BY <1>0, <2>1, AnsweredReplies DEF Requests
<1>5. CASE Fox \/ Telnet \/ SMB \/ Modbus \/ BACNet
  <2>1. CASE inbox' = inbox
    BY <1>0, <2>1
  <2>2. CASE inbox' # inbox
    <3>1. PICK inb \in Answered("probe") : inb # <<>> /\ inbox' \in {inb, Tail(inb)}
      BY <1>5, <2>2 DEF Fox, Telnet, SMB, Modbus, BACNet, Probe, wireVars
    <3> QED
      BY <3>1, AnsweredReplies DEF Requests
  <2> QED
    BY <2>1, <2>2
<1>6. CASE S7 \/ DNP3
  <2>1. CASE inbox' = inbox
    BY <1>0, <2>1
  <2>2. CASE inbox' # inbox
    <3>1. PICK inb \in Answered("probe") : inb # <<>> /\ inbox' \in {inb, Tail(inb)}
      BY <1>6, <2>2 DEF S7, DNP3
    <3> QED
      BY <3>1, AnsweredReplies DEF Requests
  <2> QED
    BY <2>1, <2>2
<1>7. CASE SendData \/ EHLO \/ SMTPHelp
  <2>1. CASE inbox' = inbox
    BY <1>0, <2>1
  <2>2. CASE inbox' # inbox
    <3>1. PICK inb \in Answered("probe") \cup Answered("EHLO") \cup Answered("HELP") :
            inbox' = inb \/ (inb # <<>> /\ inbox' = Tail(inb))
      BY <1>7, <2>2 DEF SendData, EHLO, SMTPHelp, ReadSome, ReadReply, wireVars
    <3> QED
      BY <3>1, AnsweredReplies DEF Requests
  <2> QED
    BY <2>1, <2>2
<1>8. CASE StartTLS
  <2>1. CASE inbox' = inbox
    BY <1>0, <2>1
  <2>2. CASE inbox' # inbox
    <3>1. PICK inb \in Answered("STARTTLS") :
            inbox' \in {inb, <<>>} \/ (inb # <<>> /\ inbox' = Tail(inb))
      BY <1>8, <2>2 DEF StartTLS, TLSHandshake, wireVars
    <3> QED
      BY <1>0, <3>1, AnsweredReplies DEF Requests
  <2> QED
    BY <2>1, <2>2
<1>9. CASE Quit
  BY <1>0, <1>9, AnsweredReplies DEF Quit, wireVars, Requests
<1>10. CASE UNCHANGED inbox
  BY <1>0, <1>10
<1> QED
  BY <1>1, <1>2, <1>3, <1>4, <1>5, <1>6, <1>7, <1>8, <1>9, <1>10 DEF Next, vars, wireVars, ParseFlags,
   GrabXSSH, GrabHTTP, Skip, S7Retry, Heartbleed, Close, Returned

LEMMA TypeGrabNext == TypeOK /\ [Next]_vars => TypeGrab'
<1> SUFFICES ASSUME TypeWire, TypeGrab, [Next]_vars PROVE TypeGrab'
  BY DEF TypeOK
<1> USE DEF TypeGrab, Components, Stages, Values, Fields
<1>1. CASE ParseFlags \/ GrabXSSH \/ GrabHTTP \/ Dial
  BY <1>1 DEF ParseFlags, GrabXSSH, GrabHTTP, Dial, Goto, resultVars
<1>2. CASE Skip \/ Close \/ Returned \/ UNCHANGED vars
  BY <1>2 DEF Skip, Close, Returned, vars, resultVars
<1>3. CASE TLS
  BY <1>3 DEF TLS, TLSHandshake, Goto, Fail, resultVars
<1>4. CASE Banner \/ FTP
  BY <1>4, InboxReplies DEF Banner, FTP, ReadSome, ReadReply, Goto, Fail, resultVars
<1>5. CASE AuthTLS \/ AuthSSL
  BY <1>5, AnsweredReplies DEF AuthTLS, AuthSSL, Auth, TLSHandshake, Goto, Fail, resultVars, Requests
<1>6. CASE Fox \/ Telnet \/ SMB \/ Modbus \/ BACNet
  BY <1>6 DEF Fox, Telnet, SMB, Modbus, BACNet, Probe, Goto, Fail, resultVars
<1>7. CASE S7 \/ S7Retry \/ DNP3 \/ Quit \/ Heartbleed
  BY <1>7 DEF S7, S7Retry, DNP3, Quit, Heartbleed, Goto, Fail, resultVars
<1>8. CASE SendData \/ EHLO \/ SMTPHelp
  BY <1>8, AnsweredReplies DEF SendData, EHLO, SMTPHelp, ReadSome, ReadReply, Goto, Fail, resultVars, Requests
<1>9. CASE StartTLS
  BY <1>9, AnsweredReplies DEF StartTLS, TLSHandshake, Goto, Fail, resultVars, Requests
<1> QED
  BY <1>1, <1>2, <1>3, <1>4, <1>5, <1>6, <1>7, <1>8, <1>9 DEF Next

LEMMA TypeNext == TypeOK /\ [Next]_vars => TypeOK'
  BY TypeSetupNext, TypeConnNext, SentMessages, TypeInboxNext, TypeGrabNext DEF TypeOK, TypeWire

\* The types of the command line, the connection and the grab, for every
\* command line and every peer.
THEOREM TypeCorrect == Spec => []TypeOK
  BY TypeInit, TypeNext, PTL DEF Spec

-----------------------------------------------------------------------------

\* The TLS state of the connection: a plain connection has seen no handshake.
TLSOnce ==
  /\ layer \in {"plain", "tls"} /\ handshakes \in {0, 1}
  /\ layer = "plain" => handshakes = 0

LEMMA TLSOnceInit == Init => TLSOnce
  BY DEF Init, TLSOnce

LEMMA TLSOnceNext == TLSOnce /\ [Next]_vars => TLSOnce'
<1> SUFFICES ASSUME TLSOnce, [Next]_vars PROVE TLSOnce'
  OBVIOUS
<1> USE DEF TLSOnce
<1>1. CASE TLS
  BY <1>1 DEF TLS, TLSHandshake, peerVars
<1>2. CASE AuthTLS \/ AuthSSL
  BY <1>2 DEF AuthTLS, AuthSSL, Auth, TLSHandshake, peerVars
<1>3. CASE StartTLS
  BY <1>3 DEF StartTLS, TLSHandshake, peerVars
<1>4. CASE UNCHANGED <<layer, handshakes>>
  BY <1>4
<1> QED
  BY <1>1, <1>2, <1>3, <1>4 DEF Next, vars, peerVars, ParseFlags, GrabXSSH, GrabHTTP, Dial, Skip, Banner, FTP,
   Fox, Telnet, S7, S7Retry, DNP3, SMB, SendData, EHLO, SMTPHelp, Quit, Modbus, BACNet, Heartbleed, Close, Returned

\* No command line and no peer makes a second TLS handshake start on a
\* connection (TLSHandshake's check of isTls).
THEOREM HandshakeOnce == Spec => []OneHandshake
<1>1. TLSOnce => OneHandshake
  BY DEF TLSOnce, OneHandshake
<1> QED
  BY <1>1, TLSOnceInit, TLSOnceNext, PTL DEF Spec

-----------------------------------------------------------------------------

\* What a step adds to the messages sent on the dialled connection.
Sends == \A m \in sent' \ sent : m.on = "main" => m.over = layer

LEMMA SendsOverLayer == [Next]_vars => Sends
<1> SUFFICES ASSUME [Next]_vars PROVE Sends
  OBVIOUS
<1> USE DEF Sends
<1>1. CASE Fox \/ Telnet \/ SMB \/ Modbus \/ BACNet
  BY <1>1 DEF Fox, Telnet, SMB, Modbus, BACNet, Probe, Send, wireVars
<1>2. CASE S7 \/ DNP3
  BY <1>2 DEF S7, DNP3, Send
<1>3. CASE S7Retry
  BY <1>3 DEF S7Retry
<1>4. CASE SendData \/ EHLO \/ SMTPHelp \/ Quit
  BY <1>4 DEF SendData, EHLO, SMTPHelp, Quit, Send, wireVars
<1>5. CASE StartTLS
  BY <1>5 DEF StartTLS, wireVars
<1>6. CASE Heartbleed
  BY <1>6 DEF Heartbleed, Send
<1>7. CASE AuthTLS \/ AuthSSL
  BY <1>7 DEF AuthTLS, AuthSSL, Auth, Send
<1>8. CASE UNCHANGED sent
  BY <1>8
<1> QED
  BY <1>1, <1>2, <1>3, <1>4, <1>5, <1>6, <1>7, <1>8 DEF Next, vars, wireVars, ParseFlags, GrabXSSH, GrabHTTP,
   Dial, Skip, TLS, Banner, FTP, Close, Returned

\* Once the handshake has begun nothing is sent in the clear on the connection,
\* sendStartTLSCommand's direct write included.
THEOREM NeverBackToPlaintext == Spec => NoPlaintextAfterTLS
<1>1. [Next]_vars =>
        [layer = "tls" => \A m \in sent' \ sent : m.on = "main" => m.over = "tls"]_vars
  BY SendsOverLayer DEF Sends
<1> QED
  BY <1>1, PTL DEF Spec, NoPlaintextAfterTLS

-----------------------------------------------------------------------------

\* Where the dialogue has passed the tls stage, and the starttls stage.
PastTLS == Stages \ {"tls"}
PastStartTLS == {"quit", "modbus", "bacnet", "heartbleed"}

\* The accepted command lines, and the layer the passed stages leave behind.
Layered ==
  /\ layer \in {"plain", "tls"}
  /\ pc \notin {"init", "fatal"} => ~Refused(config)
  /\ pc \in {"init", "fatal", "dispatch", "tls"} => sent = {}
  /\ "TLS" \in config /\ pc \in PastTLS => layer = "tls"
  /\ "StartTLS" \in config /\ pc \in PastStartTLS => layer = "tls"
  /\ TLSFirst

LEMMA LayeredInit == Init => Layered
  BY DEF Init, Layered, TLSFirst, PastTLS, PastStartTLS, Stages

LEMMA LayeredNext == Layered /\ [Next]_vars => Layered'
<1> SUFFICES ASSUME Layered, [Next]_vars PROVE Layered'
  OBVIOUS
<1> USE DEF Layered, TLSFirst, PastTLS, PastStartTLS, Stages, setupVars
<1>1. CASE ParseFlags
  BY <1>1 DEF ParseFlags, peerVars, wireVars
<1>2. CASE GrabXSSH \/ GrabHTTP \/ Dial
  BY <1>2 DEF GrabXSSH, GrabHTTP, Dial, Goto, peerVars, wireVars
<1>3. CASE Skip
  BY <1>3 DEF Skip, StageFlags, NextStage, peerVars, wireVars
<1>4. CASE TLS
  BY <1>4 DEF TLS, At, TLSHandshake, Goto, Fail, peerVars
<1>5. CASE Banner \/ FTP
  BY <1>5 DEF Banner, FTP, At, ReadSome, ReadReply, Goto, Fail, peerVars
<1>6. CASE AuthTLS \/ AuthSSL
  BY <1>6 DEF AuthTLS, AuthSSL, Auth, Send, TLSHandshake, Goto, Fail, peerVars
<1>7. CASE Fox \/ Telnet \/ SMB \/ Modbus \/ BACNet
  BY <1>7 DEF Fox, Telnet, SMB, Modbus, BACNet, At, Probe, NextStage, Send, Goto, Fail, peerVars, wireVars
<1>8. CASE S7 \/ S7Retry \/ DNP3
  BY <1>8 DEF S7, S7Retry, DNP3, At, Send, Goto, Fail, peerVars
<1>9. CASE SendData \/ EHLO \/ SMTPHelp \/ Quit
  BY <1>9 DEF SendData, EHLO, SMTPHelp, Quit, At, ReadSome, ReadReply, Send, Goto, Fail, peerVars, wireVars
<1>10. CASE StartTLS
  BY <1>10 DEF StartTLS, At, TLSHandshake, Goto, Fail, peerVars, wireVars
<1>11. CASE Heartbleed
  BY <1>11 DEF Heartbleed, At, Send, Goto, Fail, peerVars
<1>12. CASE Close \/ Returned \/ UNCHANGED vars
  BY <1>12 DEF Close, Returned, vars, peerVars, wireVars
<1> QED
  BY <1>1, <1>2, <1>3, <1>4, <1>5, <1>6, <1>7, <1>8, <1>9, <1>10, <1>11, <1>12 DEF Next

\* With -tls the whole dialogue on the dialled connection is over TLS.
THEOREM TLSBeforeEverything == Spec => []TLSFirst
<1>1. Layered => TLSFirst
  BY DEF Layered
<1> QED
  BY <1>1, LayeredInit, LayeredNext, PTL DEF Spec

\* The Heartbleed check is only ever reached on a TLS connection.
THEOREM HeartbleedNeverRefused == Spec => []HeartbleedReady
<1>1. Layered => HeartbleedReady
  BY DEF Layered, HeartbleedReady, At, StageFlags, PastTLS, PastStartTLS, Stages, Refused
<1> QED
  BY <1>1, LayeredInit, LayeredNext, PTL DEF Spec

-----------------------------------------------------------------------------

\* Nothing is open before GrabBanner dials, and only known connections are.
OpenKnown ==
  /\ open \subseteq {"main", "s7", "ssh"}
  /\ pc \in {"init", "fatal", "dispatch"} => open = {}
  /\ MainClosed

LEMMA OpenKnownInit == Init => OpenKnown
  BY DEF Init, OpenKnown, MainClosed

LEMMA OpenKnownNext == OpenKnown /\ [Next]_vars => OpenKnown'
<1> SUFFICES ASSUME OpenKnown, [Next]_vars PROVE OpenKnown'
  OBVIOUS
<1> USE DEF OpenKnown, MainClosed
<1>1. CASE ParseFlags \/ GrabXSSH \/ GrabHTTP \/ Dial
  BY <1>1 DEF ParseFlags, GrabXSSH, GrabHTTP, Dial, Goto
<1>2. CASE Skip
  BY <1>2 DEF Skip, StageFlags, NextStage
<1>3. CASE TLS \/ AuthTLS \/ AuthSSL \/ StartTLS
  BY <1>3 DEF TLS, AuthTLS, AuthSSL, StartTLS, Auth, TLSHandshake, Goto, Fail
<1>4. CASE Banner \/ FTP \/ SendData \/ EHLO \/ SMTPHelp
  BY <1>4 DEF Banner, FTP, SendData, EHLO, SMTPHelp, ReadSome, ReadReply, Goto, Fail
<1>5. CASE Fox \/ Telnet \/ SMB \/ Modbus \/ BACNet
  BY <1>5 DEF Fox, Telnet, SMB, Modbus, BACNet, Probe, NextStage, Goto, Fail
<1>6. CASE S7 \/ S7Retry \/ DNP3 \/ Quit \/ Heartbleed
  BY <1>6 DEF S7, S7Retry, DNP3, Quit, Heartbleed, Goto, Fail
<1>7. CASE Close \/ Returned \/ UNCHANGED vars
  BY <1>7 DEF Close, Returned, vars
<1> QED
  BY <1>1, <1>2, <1>3, <1>4, <1>5, <1>6, <1>7 DEF Next

\* On every path GrabBanner closes the connection it dialled.
THEOREM ConnectionReleased == Spec => []MainClosed
<1>1. OpenKnown => MainClosed
  BY DEF OpenKnown
<1> QED
  BY <1>1, OpenKnownInit, OpenKnownNext, PTL DEF Spec

-----------------------------------------------------------------------------

\* The command lines that MailAnswersMatch is about.
MailOnly ==
  /\ Mail /\ "Banners" \in config
  /\ config \cap {"Fox", "S7", "DNP3", "SendData"} = {}

\* From the banner to STARTTLS a mail dialogue leaves no reply unread: the only
\* reply ever waiting for a stage is the greeting, for the banner stage.
InSync ==
  /\ pc \in {"init", "fatal", "dispatch"} => inbox = <<>>
  /\ pc \in {"tls", "banner"} => inbox \in {<<>>, <<[to |-> "greeting", code |-> "positive"]>>}
  /\ pc \in {"ftp", "fox", "telnet", "s7", "dnp3", "smb", "write", "ehlo",
             "smtp_help", "starttls"} => inbox = <<>>
  /\ Matched

\* Outside the mail dialogues nothing is claimed; in them, nothing else reads.
MailInv ==
  /\ pc \notin {"init", "fatal"} => ~Refused(config)
  /\ pc = "init" => inbox = <<>> /\ Matched /\ config = {}
  /\ pc \in {"authtls", "authssl"} => "FTP" \in config
  /\ pc = "s7retry" => "S7" \in config
  /\ MailOnly => InSync

LEMMA FirstAnswer ==
  ASSUME inbox = <<>>, NEW q \in Requests, NEW inb \in Answered(q), inb # <<>>
  PROVE  Head(inb).to = q /\ Tail(inb) = <<>>
<1>1. PICK c \in Codes : inb = Append(<<>>, [to |-> q, code |-> c])
  BY DEF Answered
<1>2. inb = <<[to |-> q, code |-> c]>>
  BY <1>1
<1> QED
  BY <1>2

LEMMA OnlyGreeting ==
  ASSUME inbox \in {<<>>, <<[to |-> "greeting", code |-> "positive"]>>}, inbox # <<>>
  PROVE  Head(inbox).to = "greeting" /\ Tail(inbox) = <<>>
<1> DEFINE r == [to |-> "greeting", code |-> "positive"]
<1>1. inbox = <<r>> /\ r.to = "greeting"
  OBVIOUS
<1> HIDE DEF r
<1> QED
  BY <1>1

LEMMA MailInvInit == Init => MailInv
  BY DEF Init, MailInv, MailOnly, Mail, InSync, Matched, Fields, Values

LEMMA MailInvNext == TypeOK /\ MailInv /\ [Next]_vars => MailInv'
<1> SUFFICES ASSUME MailInv, data \in [Fields -> Values], [Next]_vars PROVE MailInv'
  BY DEF TypeOK, TypeGrab
<1> USE DEF MailInv, MailOnly, Mail, InSync, Matched, Fields, setupVars
<1>1. CASE ParseFlags
  BY <1>1 DEF ParseFlags, wireVars
<1>2. CASE GrabXSSH \/ GrabHTTP \/ Dial
  BY <1>2 DEF GrabXSSH, GrabHTTP, Dial, Greeting, Goto, wireVars
<1>3. CASE Skip
  BY <1>3 DEF Skip, StageFlags, NextStage, wireVars
<1>4. CASE TLS
  BY <1>4 DEF TLS, At, TLSHandshake, Greeting, Goto, Fail, peerVars
<1>5. CASE Banner
  <2>1. pc = "banner" /\ config' = config /\ pc' \in {"ftp", "close"}
    BY <1>5 DEF Banner, At, ReadSome, ReadReply, Goto, Fail
  <2>2. ASSUME MailOnly PROVE InSync'
    <3>1. ReadReply(data, inbox, "banner", "ftp", "banner")
      BY <1>5, <2>2 DEF Banner
    <3> QED
      BY <2>1, <2>2, <3>1, OnlyGreeting DEF ReadReply, Goto, Fail
  <2> QED
    BY <2>1, <2>2
<1>6. CASE FTP
  BY <1>6 DEF FTP, At, StageFlags, ReadReply, Goto, Fail, Replies, Refused
<1>7. CASE AuthTLS \/ AuthSSL
  BY <1>7 DEF AuthTLS, AuthSSL, Auth, TLSHandshake, Goto, Fail, Refused
<1>8. CASE Fox \/ Telnet
  BY <1>8 DEF Fox, Telnet, At, StageFlags, Probe, Goto, Fail, NextStage, Refused
<1>9. CASE S7 \/ S7Retry \/ DNP3
  BY <1>9 DEF S7, S7Retry, DNP3, At, StageFlags, Goto, Fail
<1>10. CASE SMB
  <2>1. pc = "smb" /\ config' = config /\ pc' \in {"write", "close"}
    BY <1>10 DEF SMB, At, Probe, NextStage, Goto, Fail
  <2>2. data' = [data EXCEPT !["smb"] = "log"]
    BY <1>10 DEF SMB, Probe
  <2>3. pc' = "close" \/ \E inb \in Answered("probe") : inb # <<>> /\ inbox' = Tail(inb)
    BY <1>10 DEF SMB, Probe, Fail
  <2>4. ASSUME MailOnly PROVE InSync'
    BY <2>1, <2>2, <2>3, <2>4, FirstAnswer DEF Requests
  <2> QED
    BY <2>1, <2>4
<1>11. CASE SendData
  BY <1>11 DEF SendData, At, StageFlags, ReadSome, ReadReply, Goto, Fail
<1>12. CASE EHLO
  <2>1. pc = "ehlo" /\ config' = config /\ pc' \in {"smtp_help", "close"}
    BY <1>12 DEF EHLO, At, ReadReply, Goto, Fail
  <2>2. ASSUME MailOnly PROVE InSync'
    <3>1. CASE data' \in {data, [data EXCEPT !["ehlo"] = "log"]} /\ pc' = "close"
      BY <2>1, <2>2, <3>1
    <3>2. CASE \E inb \in Answered("EHLO") :
                 /\ inb # <<>> /\ inbox' = Tail(inb)
                 /\ data' = [data EXCEPT !["ehlo"] = Head(inb).to]
      BY <2>1, <2>2, <3>2, FirstAnswer DEF Requests
    <3> QED
      BY <1>12, <3>1, <3>2 DEF EHLO, ReadReply, Goto, Fail, wireVars
  <2> QED
    BY <2>1, <2>2
<1>13. CASE SMTPHelp
  <2>1. pc = "smtp_help" /\ config' = config /\ pc' \in {"starttls", "close"}
    BY <1>13 DEF SMTPHelp, At, ReadReply, Goto, Fail
  <2>2. ASSUME MailOnly PROVE InSync'
    <3>1. CASE data' \in {data, [data EXCEPT !["smtp_help"] = "log"]} /\ pc' = "close"
      BY <2>1, <2>2, <3>1
    <3>2. CASE \E inb \in Answered("HELP") :
                 /\ inb # <<>> /\ inbox' = Tail(inb)
                 /\ data' = [data EXCEPT !["smtp_help"] = Head(inb).to]
      BY <2>1, <2>2, <3>2, FirstAnswer DEF Requests
    <3> QED
      BY <1>13, <3>1, <3>2 DEF SMTPHelp, ReadReply, Goto, Fail, wireVars
  <2> QED
    BY <2>1, <2>2
<1>14. CASE StartTLS
  <2>1. pc = "starttls" /\ config' = config /\ pc' \in {"quit", "close"}
    BY <1>14 DEF StartTLS, At, TLSHandshake, Goto, Fail
  <2>2. \/ data' \in {data, [data EXCEPT !["starttls"] = "log"]}
        \/ \E inb \in Answered("STARTTLS") :
             /\ inb # <<>>
             /\ LET d == [data EXCEPT !["starttls"] = Head(inb).to]
                IN  data' \in {d, [d EXCEPT !["tls"] = "log"]}
    BY <1>14 DEF StartTLS, TLSHandshake
  <2>3. ASSUME MailOnly PROVE InSync'
    BY <2>1, <2>2, <2>3, FirstAnswer DEF Requests
  <2> QED
    BY <2>1, <2>3
<1>15. CASE Quit \/ Modbus \/ BACNet \/ Heartbleed
  BY <1>15 DEF Quit, Modbus, BACNet, Heartbleed, At, Probe, NextStage, Goto, Fail, wireVars
<1>16. CASE Close \/ Returned \/ UNCHANGED vars
  BY <1>16 DEF Close, Returned, vars, wireVars
<1> QED
  BY <1>1, <1>2, <1>3, <1>4, <1>5, <1>6, <1>7, <1>8, <1>9, <1>10, <1>11, <1>12, <1>13, <1>14,
     <1>15, <1>16 DEF Next


\* For every command line of a mail dialogue with -banners, and every peer, the
\* recorded replies answer the commands they are recorded under.
THEOREM RepliesAttributed == Spec => []MailAnswersMatch
<1>1. MailInv => MailAnswersMatch
  BY DEF MailInv, MailOnly, InSync, MailAnswersMatch
<1> QED
  BY <1>1, TypeInit, TypeNext, MailInvInit, MailInvNext, PTL DEF Spec

\* For every combination of flags that init accepts and everything a peer may
\* answer: one handshake on a connection, first with -tls, and in place when
\* the Heartbleed check looks for it (Conn.TLSHandshake, conn.go:286-348).
THEOREM TLSDisciplined == Spec => []TLSDiscipline
<1>1. TypeOK /\ OneHandshake /\ TLSFirst /\ HeartbleedReady => TLSDiscipline
  BY DEF TLSDiscipline
<1> QED
  BY <1>1, TypeCorrect, HandshakeOnce, TLSBeforeEverything, HeartbleedNeverRefused, PTL

\* However the peer answers, the dialogue releases its connection, and a mail
\* dialogue attributes each reply to its command (makeGrabber, grabber.go).
THEOREM DialogueStaysKept == Spec => []DialogueKept
<1>1. MainClosed /\ MailAnswersMatch => DialogueKept
  BY DEF DialogueKept
<1> QED
  BY <1>1, ConnectionReleased, RepliesAttributed, PTL

-----------------------------------------------------------------------------

\* The fields RecordSoFar is about, and that a reply is never absent.
LEMMA StageFieldSet ==
  /\ StageFields = {"banner", "ftp", "fox", "telnet", "s7", "dnp3", "smb", "write", "ehlo",
                    "smtp_help", "starttls", "modbus", "bacnet", "heartbleed"}
  /\ StageFields \subseteq Fields
  /\ StageFields \subseteq DOMAIN Rank
  /\ \A f \in StageFields : Rank[f] \in Nat
  /\ "absent" \notin Requests
  BY DEF StageFields, StageFlags, Fields, Rank, Requests

\* A step of a dialogue in which no stage fails: it records the data of the
\* stage it leaves, when that was asked for, and of no other.
Passes ==
  /\ component = "none" /\ UNCHANGED <<config, resultVars>>
  /\ pc' \in DOMAIN Rank
  /\ \A f \in StageFields :
       /\ data'[f] # "absent" <=> data[f] # "absent" \/ (f = pc /\ Wanted(f))
       /\ Wanted(f) => (Before(f, pc') <=> Before(f, pc) \/ f = pc)

LEMMA PassesKeeps == RecordSoFar /\ Passes => RecordSoFar'
<1> SUFFICES ASSUME RecordSoFar, Passes PROVE RecordSoFar'
  OBVIOUS
<1>1. UNCHANGED <<err, component>> /\ component' = "none"
  BY DEF Passes, resultVars
<1>2. \A f \in StageFields : Wanted(f)' <=> Wanted(f)
  BY DEF Passes, Wanted
<1>3. ASSUME NEW f \in StageFields
      PROVE  data'[f] # "absent" <=> Wanted(f) /\ Before(f, pc')
  BY <1>1, <1>3 DEF RecordSoFar, Passes
<1>4. (component = "none" => \A f \in StageFields : data[f] # "absent" <=> Wanted(f) /\ Before(f, pc))'
  BY <1>2, <1>3
<1> QED
  BY <1>1, <1>4 DEF RecordSoFar

\* A step in which component c fails, having recorded data of stage s at most.
Stops(s, c) ==
  /\ component = "none" /\ UNCHANGED config /\ Fail(c)
  /\ \A f \in StageFields \ {s} : data'[f] # "absent" <=> data[f] # "absent"
  /\ s \in StageFields =>
       Wanted(s) /\ ~Before(c, s) /\ (data[s] # "absent" => data'[s] # "absent")
  /\ \A f \in StageFields :
       /\ Before(f, pc) => ~Before(c, f)
       /\ Before(f, c) => Before(f, pc) \/ (f = s /\ data'[s] # "absent")

LEMMA StopsKeeps ==
  ASSUME RecordSoFar, NEW s, NEW c \in Components \ {"none", "connect"}, Stops(s, c)
  PROVE  RecordSoFar'
<1>1. err' = "error" /\ component' = c /\ pc' = "close"
  BY DEF Stops, Fail
<1>2. \A f \in StageFields : Wanted(f)' <=> Wanted(f)
  BY DEF Stops, Wanted
<1>3. ASSUME NEW f \in StageFields
      PROVE  /\ data'[f] # "absent" => Wanted(f) /\ ~Before(c, f)
             /\ Wanted(f) /\ Before(f, c) => data'[f] # "absent"
  BY <1>3 DEF RecordSoFar, Stops
<1>4. EndedIn(component)'
  BY <1>1, <1>2, <1>3 DEF EndedIn
<1> QED
  BY <1>1, <1>4 DEF RecordSoFar

LEMMA RecordInit == Init => RecordSoFar
<1> SUFFICES ASSUME Init PROVE RecordSoFar
  OBVIOUS
<1>1. \A f \in StageFields : data[f] = "absent"
  BY StageFieldSet DEF Init
<1>2. ~(pc \in DOMAIN Rank)
  BY DEF Init, Rank
<1> QED
  BY <1>1, <1>2 DEF Init, RecordSoFar, Before

\* A stage that fills a field of its own: it fails, or it fills the field.
LEMMA FieldStage ==
  ASSUME RecordSoFar, component = "none", config' = config, NEW s \in StageFields, At(s),
         \A f \in StageFields \ {s} : data'[f] = data[f],
         NEW n, n = NextStage[s] \/ <<s, n>> \in {<<"ftp", "authtls">>, <<"s7", "s7retry">>},
         Fail(s) \/ (Goto(n) /\ data'[s] # "absent")
  PROVE  RecordSoFar'
<1>1. pc = s /\ Wanted(s)
  BY DEF At, Wanted
<1>2. data[s] = "absent"
  BY <1>1, StageFieldSet DEF RecordSoFar, Before
<1>3. CASE Fail(s)
  <2>1. Stops(s, s)
    BY <1>1, <1>2, <1>3, StageFieldSet DEF Stops, Before
  <2>2. s \in Components \ {"none", "connect"}
    BY StageFieldSet DEF Components, Stages
  <2> QED
    BY <2>1, <2>2, StopsKeeps
<1>4. CASE Goto(n) /\ data'[s] # "absent"
  <2>1. \A f \in StageFields : Before(f, n) <=> Before(f, s) \/ f = s
    BY StageFieldSet DEF Before, Rank, NextStage
  <2>2. n \in DOMAIN Rank
    BY StageFieldSet DEF Rank, NextStage
  <2>3. Passes
    BY <1>1, <1>2, <1>4, <2>1, <2>2 DEF Passes, Goto
  <2> QED
    BY <2>3, PassesKeeps
<1> QED
  BY <1>3, <1>4

\* A step that fills no field RecordSoFar is about.
LEMMA OtherStage ==
  ASSUME RecordSoFar, component = "none", config' = config,
         \A f \in StageFields : data'[f] = data[f],
         NEW c, NEW n,
         <<pc, n, c>> \in {<<"tls", "banner", "tls">>, <<"authtls", "authssl", "authtls">>,
                           <<"authtls", "fox", "authtls">>, <<"authssl", "fox", "authtls">>,
                           <<"s7retry", "dnp3", "s7">>, <<"quit", "modbus", "quit">>},
         Fail(c) \/ Goto(n)
  PROVE  RecordSoFar'
<1>1. CASE Fail(c)
  <2>1. Stops("tls", c) /\ c \in Components \ {"none", "connect"}
    BY <1>1, StageFieldSet DEF Stops, Before, Rank, Components, Stages
  <2> QED
    BY <2>1, StopsKeeps
<1>2. CASE Goto(n)
  <2>1. n \in DOMAIN Rank /\ pc \notin StageFields
    BY StageFieldSet DEF Rank
  <2>2. \A f \in StageFields : Before(f, n) <=> Before(f, pc)
    BY StageFieldSet DEF Before, Rank
  <2>3. Passes
    BY <1>2, <2>1, <2>2 DEF Passes, Goto
  <2> QED
    BY <2>3, PassesKeeps
<1> QED
  BY <1>1, <1>2

\* Every step of the stages keeps the record in step with the dialogue.
LEMMA RecordStages ==
  ASSUME TypeOK, RecordSoFar, pc \in Stages, Next
  PROVE  RecordSoFar'
<1> DEFINE Goal == RecordSoFar'
<1>0. data \in [Fields -> Values] /\ component = "none" /\ TypeWire
  BY DEF TypeOK, TypeGrab, RecordSoFar, Stages
<1> HIDE DEF Goal
<1> USE DEF setupVars
<1>1. ASSUME Skip PROVE Goal
  <2>1. PICK s \in DOMAIN StageFlags : pc = s /\ config \cap StageFlags[s] = {} /\ pc' = NextStage[s]
    BY <1>1 DEF Skip
  <2>2. UNCHANGED <<config, data, resultVars>>
    BY <1>1 DEF Skip
  <2>3. pc' \in DOMAIN Rank
    BY <2>1 DEF StageFlags, NextStage, Rank
  <2>4. ASSUME NEW f \in StageFields, Wanted(f) PROVE f # pc /\ (Before(f, pc') <=> Before(f, pc))
    <3>1. f # pc
      BY <2>1, <2>4 DEF Wanted
    <3> QED
      BY <2>1, <3>1, StageFieldSet DEF StageFlags, NextStage, Before, Rank
  <2>5. Passes
    BY <1>0, <2>2, <2>3, <2>4 DEF Passes
  <2> QED
    BY <2>5, PassesKeeps DEF Goal
<1>2. ASSUME TLS PROVE Goal
  <2>1. pc = "tls" /\ config' = config /\ (Fail("tls") \/ Goto("banner"))
    BY <1>2 DEF TLS, At, TLSHandshake
  <2>2. \A f \in StageFields : data'[f] = data[f]
    BY <1>0, <1>2, StageFieldSet DEF TLS, TLSHandshake, Fields
  <2> QED
    BY <1>0, <2>1, <2>2, OtherStage DEF Goal
<1>3. ASSUME Banner PROVE Goal
  <2>1. At("banner") /\ config' = config
    BY <1>3 DEF Banner
  <2>2. PICK v \in Requests \cup {"log"} : data' = [data EXCEPT !["banner"] = v]
    BY <1>0, <1>3, InboxReplies DEF Banner, ReadSome, ReadReply
  <2>3. Fail("banner") \/ Goto("ftp")
    BY <1>3 DEF Banner, ReadSome, ReadReply
  <2> QED
    BY <1>0, <2>1, <2>2, <2>3, FieldStage, StageFieldSet DEF Goal, NextStage
<1>4. ASSUME FTP PROVE Goal
  <2>1. At("ftp") /\ config' = config
    BY <1>4 DEF FTP
  <2>2. PICK v \in Requests \cup {"log"} : data' = [data EXCEPT !["ftp"] = v]
    BY <1>0, <1>4, InboxReplies DEF FTP, ReadReply
  <2>3. Fail("ftp") \/ Goto("fox") \/ Goto("authtls")
    BY <1>4 DEF FTP, ReadReply
  <2> QED
    BY <1>0, <2>1, <2>2, <2>3, FieldStage, StageFieldSet DEF Goal, NextStage
<1>5. ASSUME AuthTLS \/ AuthSSL PROVE Goal
  <2>1. /\ config' = config
        /\ \/ pc = "authtls" /\ (Fail("authtls") \/ Goto("fox") \/ Goto("authssl"))
           \/ pc = "authssl" /\ (Fail("authtls") \/ Goto("fox"))
    BY <1>5 DEF AuthTLS, AuthSSL, Auth, TLSHandshake
  <2>2. \A f \in StageFields : data'[f] = data[f]
    BY <1>0, <1>5, StageFieldSet DEF AuthTLS, AuthSSL, Auth, TLSHandshake, Fields
  <2> QED
    BY <1>0, <2>1, <2>2, OtherStage DEF Goal
<1>6. ASSUME Fox \/ Telnet \/ SMB \/ Modbus \/ BACNet PROVE Goal
  <2>1. PICK s \in {"fox", "telnet", "smb", "modbus", "bacnet"} :
          /\ At(s) /\ config' = config
          /\ data' = [data EXCEPT ![s] = "log"]
          /\ Fail(s) \/ Goto(NextStage[s])
    BY <1>6 DEF Fox, Telnet, SMB, Modbus, BACNet, Probe
  <2>2. s \in StageFields
    BY StageFieldSet
  <2> QED
    BY <1>0, <2>1, <2>2, FieldStage, StageFieldSet DEF Goal
<1>7. ASSUME S7 PROVE Goal
  <2>1. /\ At("s7") /\ config' = config /\ data' = [data EXCEPT !["s7"] = "log"]
        /\ Fail("s7") \/ Goto("dnp3") \/ Goto("s7retry")
    BY <1>7 DEF S7
  <2> QED
    BY <1>0, <2>1, FieldStage, StageFieldSet DEF Goal, NextStage
<1>8. ASSUME S7Retry PROVE Goal
  <2>1. pc = "s7retry" /\ UNCHANGED <<config, data>> /\ (Fail("s7") \/ Goto("dnp3"))
    BY <1>8 DEF S7Retry
  <2> QED
    BY <1>0, <2>1, OtherStage DEF Goal
<1>9. ASSUME DNP3 PROVE Goal
  <2>1. /\ At("dnp3") /\ config' = config /\ data' = [data EXCEPT !["dnp3"] = "log"]
        /\ Goto("smb")
    BY <1>9 DEF DNP3
  <2> QED
    BY <1>0, <2>1, FieldStage, StageFieldSet DEF Goal, NextStage
<1>10. ASSUME SendData PROVE Goal
  <2>1. At("write") /\ config' = config
    BY <1>10 DEF SendData
  <2>2. PICK v \in Values :
          data' \in {[data EXCEPT !["write"] = "log"], [data EXCEPT !["write"] = "log", !["read"] = v]}
    BY <1>0, <1>10, AnsweredReplies DEF SendData, ReadSome, ReadReply, Values, Requests
  <2>3. data'["write"] # "absent" /\ \A f \in StageFields \ {"write"} : data'[f] = data[f]
    BY <1>0, <2>2, StageFieldSet DEF Fields
  <2>4. CASE Fail("write") \/ Goto("ehlo")
    BY <1>0, <2>1, <2>3, <2>4, FieldStage, StageFieldSet DEF Goal, NextStage
  <2>5. CASE Fail("read")
    <3>1. Stops("write", "read")
      BY <1>0, <2>1, <2>3, <2>5, StageFieldSet DEF Stops, At, Wanted, Before, Rank
    <3> QED
      BY <3>1, StopsKeeps DEF Goal, Components
  <2> QED
    BY <1>10, <2>4, <2>5 DEF SendData, ReadSome, ReadReply
<1>11. ASSUME EHLO \/ SMTPHelp PROVE Goal
  <2>1. PICK s \in {"ehlo", "smtp_help"} :
          /\ At(s) /\ config' = config
          /\ \/ Fail(s) /\ (data' = data \/ data' = [data EXCEPT ![s] = "log"])
             \/ /\ Goto(NextStage[s])
                /\ \E v \in Requests : data' = [data EXCEPT ![s] = v]
    BY <1>0, <1>11, AnsweredReplies DEF EHLO, SMTPHelp, ReadReply, Requests, NextStage
  <2>2. s \in StageFields
    BY StageFieldSet
  <2> QED
    BY <1>0, <2>1, <2>2, FieldStage, StageFieldSet DEF Goal
<1>12. ASSUME StartTLS PROVE Goal
  <2>1. At("starttls") /\ config' = config /\ (Fail("starttls") \/ Goto("quit"))
    BY <1>12 DEF StartTLS, TLSHandshake
  <2>2. \A f \in StageFields \ {"starttls"} : data'[f] = data[f]
    BY <1>0, <1>12, StageFieldSet DEF StartTLS, TLSHandshake, Fields
  <2>3. Fail("starttls") \/ data'["starttls"] # "absent"
    BY <1>0, <1>12, StageFieldSet, AnsweredReplies DEF StartTLS, TLSHandshake, Fields, Requests
  <2> QED
    BY <1>0, <2>1, <2>2, <2>3, FieldStage, StageFieldSet DEF Goal, NextStage
<1>13. ASSUME Quit PROVE Goal
  <2>1. pc = "quit" /\ UNCHANGED <<config, data>> /\ (Fail("quit") \/ Goto("modbus"))
    BY <1>13 DEF Quit, At
  <2> QED
    BY <1>0, <2>1, OtherStage DEF Goal
<1>14. ASSUME Heartbleed PROVE Goal
  <2>1. /\ At("heartbleed") /\ config' = config
        /\ \/ Fail("heartbleed") /\ (data' = data \/ data' = [data EXCEPT !["heartbleed"] = "log"])
           \/ Goto("close") /\ data' = [data EXCEPT !["heartbleed"] = "log"]
    BY <1>14 DEF Heartbleed
  <2> QED
    BY <1>0, <2>1, FieldStage, StageFieldSet DEF Goal, NextStage
<1>15. ASSUME ParseFlags \/ GrabXSSH \/ GrabHTTP \/ Dial \/ Close \/ Returned PROVE FALSE
  BY <1>15 DEF ParseFlags, GrabXSSH, GrabHTTP, Dial, Close, Returned, Stages
<1>16. Goal
  BY <1>1, <1>2, <1>3, <1>4, <1>5, <1>6, <1>7, <1>8, <1>9, <1>10, <1>11, <1>12, <1>13, <1>14, <1>15 DEF Next
<1> QED
  BY <1>16 DEF Goal

\* Before the command line is read nothing is recorded, whatever it will say.
RecordInv == (pc = "init" => RecordSoFar) /\ (Dialogue => RecordSoFar)

LEMMA RecordNext == TypeOK /\ RecordInv /\ [Next]_vars => RecordInv'
<1> SUFFICES ASSUME TypeOK, RecordInv, [Next]_vars PROVE RecordInv'
  OBVIOUS
<1>0. data \in [Fields -> Values] /\ pc \in PCs
  BY DEF TypeOK, TypeGrab, TypeSetup
<1> DEFINE Goal == RecordInv'
<1> HIDE DEF Goal
<1>1. ASSUME UNCHANGED vars PROVE Goal
  BY <1>1 DEF Goal, RecordInv, RecordSoFar, EndedIn, Wanted, Before, Dialogue, vars, setupVars, resultVars
<1>2. ASSUME ParseFlags PROVE Goal
  <2>1. pc = "init" /\ pc' \in {"dispatch", "fatal"} /\ UNCHANGED <<data, resultVars>>
    BY <1>2 DEF ParseFlags
  <2>2. ~(pc \in DOMAIN Rank) /\ ~(pc' \in DOMAIN Rank)
    BY <2>1 DEF Rank
  <2>3. component = "none" /\ \A f \in StageFields : data[f] = "absent"
    BY <2>1, <2>2 DEF RecordInv, RecordSoFar, Before
  <2>4. UNCHANGED <<err, component, data>>
    BY <2>1 DEF resultVars
  <2>5. RecordSoFar'
    BY <2>1, <2>2, <2>3, <2>4 DEF RecordInv, RecordSoFar, Before
  <2> QED
    BY <2>5 DEF Goal, RecordInv
<1>3. ASSUME GrabXSSH \/ GrabHTTP PROVE Goal
  BY <1>3 DEF GrabXSSH, GrabHTTP, Goal, RecordInv, Dialogue
<1>4. ASSUME Dial PROVE Goal
  <2>1. pc = "dispatch" /\ Dialogue /\ UNCHANGED <<config, data>>
    BY <1>4 DEF Dial, Dialogue
  <2>2. ~(pc \in DOMAIN Rank)
    BY <2>1 DEF Rank
  <2>3. RecordSoFar /\ component = "none" /\ \A f \in StageFields : data[f] = "absent"
    BY <2>1, <2>2 DEF RecordInv, RecordSoFar, Before
  <2>4. \A f \in StageFields : ~Before(f, "tls")
    BY StageFieldSet DEF Before, Rank
  <2>5. CASE Goto("tls")
    <3>1. RecordSoFar'
      BY <2>1, <2>3, <2>4, <2>5 DEF RecordSoFar, Goto, resultVars
    <3> QED
      BY <2>5, <3>1 DEF Goal, RecordInv, Goto
  <2>6. CASE pc' = "done" /\ err' = "error" /\ component' = "connect"
    BY <2>6 DEF Goal, RecordInv, RecordSoFar
  <2> QED
    BY <1>4, <2>5, <2>6 DEF Dial
<1>5. ASSUME Close PROVE Goal
  <2>1. pc = "close" /\ pc' = "done" /\ UNCHANGED <<config, data, err, component>>
    BY <1>5 DEF Close, setupVars, resultVars
  <2>2. \A f \in StageFields : Before(f, pc) /\ Before(f, pc')
    BY <2>1, StageFieldSet DEF Before, Rank
  <2>3. (\A f \in StageFields : Wanted(f)' <=> Wanted(f)) /\ (Dialogue' <=> Dialogue)
    BY <2>1 DEF Wanted, Dialogue
  <2>4. ASSUME Dialogue PROVE RecordSoFar'
    <3>1. (component # "connect" /\ component # "none" => EndedIn(component))'
      BY <2>1, <2>3, <2>4 DEF RecordInv, RecordSoFar, EndedIn
    <3> QED
      BY <2>1, <2>2, <2>3, <2>4, <3>1 DEF RecordInv, RecordSoFar
  <2> QED
    BY <2>1, <2>3, <2>4 DEF Goal, RecordInv
<1>6. ASSUME Returned PROVE Goal
  BY <1>1, <1>6 DEF Returned
<1>7. ASSUME pc \in Stages, Next PROVE Goal
  <2>1. config' = config /\ pc' # "init"
    <3>1. ~(ParseFlags \/ GrabXSSH \/ GrabHTTP \/ Dial \/ Close \/ Returned)
      BY <1>7 DEF ParseFlags, GrabXSSH, GrabHTTP, Dial, Close, Returned, Stages
    <3>2. config' = config
      BY <1>7, <3>1 DEF Next, setupVars, Skip, TLS, Banner, FTP, AuthTLS, AuthSSL, Auth, Fox, Telnet, S7,
       S7Retry, DNP3, SMB, SendData, EHLO, SMTPHelp, StartTLS, Quit, Modbus, BACNet, Heartbleed
    <3> USE DEF Goto, Fail
    <3>3. ASSUME Skip PROVE pc' # "init"
      BY <3>3 DEF Skip, StageFlags, NextStage
    <3>4. ASSUME TLS \/ AuthTLS \/ AuthSSL \/ StartTLS PROVE pc' # "init"
      BY <3>4 DEF TLS, AuthTLS, AuthSSL, StartTLS, Auth, TLSHandshake
    <3>5. ASSUME Banner \/ FTP \/ SendData \/ EHLO \/ SMTPHelp PROVE pc' # "init"
      BY <3>5 DEF Banner, FTP, SendData, EHLO, SMTPHelp, ReadSome, ReadReply
    <3>6. ASSUME Fox \/ Telnet \/ SMB \/ Modbus \/ BACNet PROVE pc' # "init"
      BY <3>6 DEF Fox, Telnet, SMB, Modbus, BACNet, Probe, NextStage
    <3>7. ASSUME S7 \/ S7Retry \/ DNP3 \/ Quit \/ Heartbleed PROVE pc' # "init"
      BY <3>7 DEF S7, S7Retry, DNP3, Quit, Heartbleed
    <3> QED
      BY <1>7, <3>1, <3>2, <3>3, <3>4, <3>5, <3>6, <3>7 DEF Next
  <2>2. Dialogue' <=> Dialogue
    BY <2>1 DEF Dialogue
  <2>3. pc # "init"
    BY <1>7 DEF Stages
  <2> QED
    BY <1>7, <2>1, <2>2, <2>3, RecordStages DEF Goal, RecordInv
<1>8. Goal
  <2>1. CASE pc \in Stages
    BY <1>1, <1>7, <2>1
  <2>2. CASE pc \notin Stages
    <3>1. Next => ParseFlags \/ GrabXSSH \/ GrabHTTP \/ Dial \/ Close \/ Returned
      BY <2>2 DEF Next, Stages, At, Skip, StageFlags, TLS, Banner, FTP, AuthTLS, AuthSSL, Fox, Telnet, S7,
       S7Retry, DNP3, SMB, SendData, EHLO, SMTPHelp, StartTLS, Quit, Modbus, BACNet, Heartbleed
    <3> QED
      BY <1>1, <1>2, <1>3, <1>4, <1>5, <1>6, <3>1
  <2> QED
    BY <2>1, <2>2
<1> QED
  BY <1>8 DEF Goal

\* For every command line and every peer, the grab of a dialogue says how far
\* it got: the component names the stage that ended it, and the data are those
\* of the stages asked for up to there (makeGrabber's early returns).
THEOREM RecordAlwaysTells == Spec => []RecordTellsHowFar
<1>1. Init => RecordInv
  BY RecordInit DEF RecordInv
<1>2. RecordInv => RecordTellsHowFar
  <2> SUFFICES ASSUME Dialogue, RecordSoFar PROVE RecordTellsHowFar
    BY DEF RecordInv, RecordTellsHowFar
  <2>1. \A f \in StageFields : pc = "done" => Before(f, pc)
    BY StageFieldSet DEF Before, Rank
  <2>2. \A f \in StageFields : ~Before("none", f)
    BY DEF Before, Rank
  <2> QED
    BY <2>1, <2>2 DEF RecordTellsHowFar, RecordSoFar, EndedIn
<1> QED
  BY <1>1, <1>2, TypeInit, TypeNext, RecordNext, PTL DEF Spec
=============================================================================
