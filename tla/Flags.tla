------------------------------- MODULE Flags -------------------------------
(***************************************************************************)
(* The command line of ZGrab (main.go, init): which flags are refused and  *)
(* which configuration the accepted ones leave behind.  A set of flags is  *)
(* the set of fields of zlib.Config that flag.Parse makes non-zero, with   *)
(* four names for values that init tells apart only as good or bad.        *)
(***************************************************************************)

BadValues ==
  {"badTLSVersion",     \* -tls-version with a name the switch does not know
   "badSMBProtocol",    \* -smb-protocol other than 1
   "outOfRange",        \* port, senders, gomaxprocs, connections, http-method
   "unreadableFile"}    \* a CA, input, output, data, metadata, log, hello file

Flags ==
  {"TLS", "TLSVersion", "TLSCertsOnly", "SafariOnly", "Heartbleed",
   "Banners", "SendData", "SMTP", "IMAP", "POP3", "EHLODomain", "SMTPHelp",
   "StartTLS", "FTP", "FTPAuthTLS", "Telnet", "Fox", "S7", "DNP3", "SMB",
   "Modbus", "BACNet", "XSSH", "HTTP", "LookupDomain"} \cup BadValues

\* The fields that init sets by itself.
Config == Flags \cup {"EHLO"}

\* -tls-version implies -tls; -ehlo and -smtp-help imply -smtp; and SMTP sends
\* an EHLO, with the host's name unless a domain was given.
Implied(a) ==
  a \cup (IF a \cap {"TLSVersion", "badTLSVersion"} # {} THEN {"TLS"} ELSE {})
    \cup (IF a \cap {"SMTP", "EHLODomain", "SMTPHelp"} # {}
          THEN {"SMTP", "EHLO", "EHLODomain"} ELSE {})

\* Each alternative ends in zlog.Fatal.
Refused(c) ==
  \/ c \cap {"outOfRange", "unreadableFile", "badTLSVersion"} # {}
  \/ {"FTP", "Banners"} \subseteq c
  \/ "FTPAuthTLS" \in c /\ "FTP" \notin c
  \/ {"Telnet", "Banners"} \subseteq c
  \/ {"StartTLS", "TLS"} \subseteq c
  \/ "SMTP" \in c /\ c \cap {"IMAP", "POP3"} # {}
  \/ {"IMAP", "POP3"} \subseteq c
  \/ "EHLO" \in c /\ c \cap {"IMAP", "POP3"} # {}
  \/ "Heartbleed" \in c /\ c \cap {"StartTLS", "TLS"} = {}
  \/ {"SMB", "badSMBProtocol"} \subseteq c
=============================================================================
