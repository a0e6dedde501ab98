----------------------------- MODULE MCGrabber -----------------------------
(* Command lines for the dialogue, and peers for the scanners' reads.      *)
(* The two share no state; a behaviour is one grab or one scan.            *)
EXTENDS Grabber, Scanners

CONSTANT MaxFlags      \* BOUND: flags on one command line

VARIABLE part          \* "grab" or "scan"

\* Every command line of at most MaxFlags flags.
FewFlags == {{f[i] : i \in 1..MaxFlags} : f \in [1..MaxFlags -> Flags]} \cup {{}}

\* Every combination of the mail and TLS flags, whatever their number,
\* with those of FewFlags.
MailFlags == {"TLS", "TLSCertsOnly", "Heartbleed", "Banners", "SMTP", "IMAP", "POP3",
              "EHLODomain", "SMTPHelp", "StartTLS", "SMB", "Modbus"}
AllArgs == FewFlags \cup SUBSET MailFlags

-----------------------------------------------------------------------------
(* What peers send *)

Scan(op, s, e, max) == [op |-> op, stream |-> s, end |-> e, max |-> max]
Endings == {"eof", "timeout", "reset"}

\* Replies of one and several lines, up to the length of the buffer and past it.
Lines == {<<Text, Newline>>, <<Code, Newline>>, <<Code, Text, Newline>>, <<CodeMore, Newline>>, <<CodeMore, Text, Newline>>,
          <<Text>>, <<Newline>>}
Replied == {Scan(p, a \o b \o c, e, 0) : p \in {"ftp", "smtp", "pop3", "imap"},
             a \in Lines \cup {<<>>}, b \in Lines \cup {<<>>}, c \in Lines, e \in {"eof", "timeout"}}

\* Telnet: commands, data and a go-ahead, in every order, split anywhere.
Items == {<<IAC, WILL, 1>>, <<IAC, DO, 3>>, <<IAC, WONT, 5>>, <<IAC, DONT, 0>>, <<IAC, GO_AHEAD>>, <<IAC, 250>>, <<7>>, <<8, 9>>}
Talk == {a \o b \o c : a \in Items, b \in Items \cup {<<>>}, c \in Items \cup {<<>>}}
        \cup {<<7, 7, 7, 7, IAC>>, <<7, 7, 7, 7, IAC, WILL>>, <<IAC, DO, 1, 9, 1, 2, 3, 4, 5, 6, 7, 8, 9, 1, 2, 3, 4, 5, 6, 7>>,
              <<9, 1, 2, 3, 4, 5, 6, 7, IAC, 1, 2, 3, 4, 5, 6, 7>>}
Telnets == {Scan("telnet", s, e, m) : s \in Talk, e \in Endings, m \in {0, 4, 6, 12, 14}}

\* Modbus: objects that fit, are cut, named twice or announced and missing.
Objs == {<<>>, <<0, 1, 65>>, <<1, 0>>, <<0, 2, 66>>}
MEI(n, o) == <<43, 14, 1, 1, 0, 0, n>> \o o
Bodies == {MEI(n, a \o b) : n \in 0..3, a \in Objs, b \in Objs} \cup {<<171, 2>>, <<43, 14, 2, 1, 0, 0, 1, 0, 1, 65>>, <<>>}
Modbuses == {Scan("modbus", ModbusHeaderBytes \o <<0, Len(b) + d, 1>> \o b, e, 0) : b \in Bodies, d \in 0..2, e \in {"eof", "timeout"}}
            \cup {Scan("modbus", <<19, 55, 0, 1, 0, 3, 1, 43, 14>>, "eof", 0), Scan("modbus", <<19, 55, 0>>, "timeout", 0),
                  Scan("modbus", ModbusHeaderBytes \o <<1, 0, 1>> \o MEI(2, [i \in 1..20 |-> 1]), "eof", 0)}

\* S7: responses with and without an error field, behind headers of two sizes.
S7Packet(t, p, d) == <<50, t, 0, 0, 0, 0, 0, Len(p), 0, Len(d)>> \o (IF t \in {2, 3} THEN <<0, 0>> ELSE <<>>) \o p \o d
S7s == {Scan("s7", <<3, 0, 0, 0>> \o c \o S7Packet(t, p, d), e, 0) :
          c \in {<<2, 240, 128>>, <<0>>}, t \in {2, 3, 7}, p \in {<<>>, <<1, 2>>}, d \in {<<>>, <<3, 4, 5>>}, e \in {"eof", "reset"}}
       \cup {Scan("s7", <<>>, e, 0) : e \in Endings}

MCScans == Replied \cup Telnets \cup Modbuses \cup S7s \cup {Scan("bacnet", <<>>, "timeout", 0)}
RestingScan == Scan("imap", <<Newline>>, "eof", 0)

-----------------------------------------------------------------------------
GrabInit ==
  /\ part \in {"grab", "scan"}
  /\ Init /\ (part = "scan" => args = {} /\ server = "silent")
  /\ scase \in (IF part = "scan" THEN ScanCases ELSE {RestingScan})
  /\ ScanInit
GrabNext ==
  \/ part = "grab" /\ Next /\ UNCHANGED <<part, scanVars>>
  \/ part = "scan" /\ (ScanNext \/ ScanReturned) /\ UNCHANGED <<part, vars>>
GrabSpec == GrabInit /\ [][GrabNext]_<<part, vars, scanVars>>
=============================================================================
