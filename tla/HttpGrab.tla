------------------------------ MODULE HttpGrab ------------------------------
(***************************************************************************)
(* One grab of -http: the closure that makeHTTPGrabber returns             *)
(* (zlib/grabber.go) with its CheckRedirect callback, and the part of the  *)
(* HTTP client that calls it back: the redirect loop of Client.Do          *)
(* (ztools/http/client.go) and the TLS set-up of dialConn                  *)
(* (ztools/http/transport.go).                                             *)
(*                                                                         *)
(* External: the servers, who answer a request with any status, Location   *)
(* and body, or not at all; and whether the transport reuses a connection. *)
(* A body is empty or not; how much of it is kept is left out.             *)
(***************************************************************************)
EXTENDS Naturals, Sequences

CONSTANTS
  Hosts,          \* the hosts of the URLs
  Named,          \* those that are domain names, the others are addresses
  Local,          \* those that redirectsToLocalhost says yes to
  MaxRedirects,   \* -http-max-redirects
  Configs         \* the configurations to consider

Settings == {"TLS", "NoSNI", "FollowLocalhostRedirects"}

ASSUME HostsAssumption ==
         Local \cup Named \subseteq Hosts /\ {"nil", "unset"} \cap Hosts = {}
ASSUME MaxRedirectsAssumption == MaxRedirects \in Nat
ASSUME ConfigsAssumption == Configs \subseteq SUBSET Settings

URLs == [scheme : {"http", "https"}, host : Hosts]

\* A response, by what Do and the grab look at: whether its status makes
\* redirectBehavior follow it ("303" stands for 301, 302 and 303, "308" for
\* 307 and 308), its Location header, and its body.  Which URL a Location
\* holds is chosen where it is parsed.
Responses == [status : {"200", "303", "308"},
              location : {"missing", "unparsable", "url"},
              body : {"empty", "some"}]
NoResponse == [status |-> "none", location |-> "missing", body |-> "empty"]

VARIABLES
  config,     \* the fields of Config that are set
  target,     \* the URL's host, and whether the target has a domain: always
              \* with -lookup-domain, and then the host is that domain
  pc,         \* where Do or the grab is
  req,        \* the request to send next
  reqs,       \* the requests sent (via, in CheckRedirect)
  resp,       \* the response to the last of them
  unclosed,   \* the requests whose response has an open body
  tlsClientConfig,  \* of the transport: "nil", without ServerName, or the name
  hellos,     \* the TLS handshakes made (history)
  chain,      \* HTTP.RedirectResponseChain: which response, and its text
  response,   \* HTTP.Response likewise; 0 stands for nil
  err         \* the error of Do, then of the grab

netVars == <<reqs, resp, unclosed, tlsClientConfig, hellos>>
vars == <<config, target, pc, req, netVars, chain, response, err>>

Entry(of, text) == [of |-> of, text |-> text]

Init ==
  /\ config \in Configs
  /\ target \in [host : Hosts, domain : {"known", "unknown"}]
  /\ target.host \in Named => target.domain = "known"
  /\ pc = "start" /\ reqs = <<>> /\ resp = NoResponse
  /\ req = [scheme |-> IF "TLS" \in config THEN "https" ELSE "http",
            host |-> target.host]
  /\ unclosed = {} /\ tlsClientConfig = "nil" /\ hellos = {}
  /\ chain = <<>> /\ response = Entry(0, "empty") /\ err = "none"

\* makeTLSConfig, by the ServerName it sets.
TLSConfig(host, known) == IF "NoSNI" \in config \/ ~known THEN "unset" ELSE host

\* Up to client.Do.  The URL may not parse (url.Parse, net.SplitHostPort,
\* NewRequestWithHost): the grab then ends with that error.
Start ==
  /\ pc = "start"
  /\ IF "TLS" \in config
     THEN tlsClientConfig' = TLSConfig(target.host, target.domain = "known")
     ELSE UNCHANGED tlsClientConfig
  /\ \/ pc' = "send" /\ UNCHANGED err
     \/ pc' = "done" /\ err' = "url"
  /\ UNCHANGED <<config, target, req, reqs, resp, unclosed, hellos, chain, response>>

\* dialConn for https: an unset ServerName is filled in with the host, and a
\* nil TLSClientConfig stands for the defaults.
Hello(host) ==
  [host |-> host,
   by |-> IF tlsClientConfig = "nil" THEN "default" ELSE "scan",
   name |-> IF tlsClientConfig \in {"nil", "unset"} THEN host ELSE tlsClientConfig]

\* A connection made for an earlier request may be used again.
Connect ==
  \/ req.scheme = "https" /\ hellos' = hellos \cup {Hello(req.host)}
  \/ /\ \/ req.scheme = "http"
        \/ \E h \in hellos : h.host = req.host
     /\ UNCHANGED hellos

\* redirectBehavior: 307 and 308 are only followed with a Location.
ShouldRedirect(r) ==
  r.status = "303" \/ (r.status = "308" /\ r.location # "missing")

\* c.send and what Do makes of the response.
Send ==
  /\ pc = "send"
  /\ Connect
  /\ reqs' = Append(reqs, req)
  /\ \/ \E r \in Responses :
          /\ resp' = r
          /\ unclosed' = unclosed \cup {Len(reqs')}
          /\ pc' = IF ShouldRedirect(r) THEN "redirect" ELSE "returned"
          /\ UNCHANGED err
     \/ /\ resp' = NoResponse /\ err' = "send" /\ pc' = "returned"
        /\ UNCHANGED unclosed
  /\ UNCHANGED <<config, target, req, tlsClientConfig, chain, response>>

\* A redirect without a Location that can be parsed: Do returns no response.
BadLocation ==
  /\ pc = "redirect" /\ resp.location # "url"
  /\ resp' = NoResponse /\ err' = "location" /\ pc' = "returned"
  /\ UNCHANGED <<config, target, req, reqs, unclosed, tlsClientConfig, hellos,
                 chain, response>>

\* Mutant: the response is appended before the check for localhost.
MutRefuseAfterAppend(u) ==
  /\ "FollowLocalhostRedirects" \notin config /\ u.host \in Local
  /\ chain' = Append(chain, Entry(Len(reqs), resp.body))
  /\ err' = "localhost" /\ pc' = "returned"
  /\ UNCHANGED <<req, tlsClientConfig>>

\* The grab's CheckRedirect, which Do calls with the next URL; Do then closes
\* the body of the response in all cases.
RefuseLocalhost(u) ==
  /\ "FollowLocalhostRedirects" \notin config /\ u.host \in Local
  /\ err' = "localhost" /\ pc' = "returned"
  /\ UNCHANGED <<req, chain, tlsClientConfig>>

AppendResponse == chain' = Append(chain, Entry(Len(reqs), resp.body))

Allowed(u) == "FollowLocalhostRedirects" \in config \/ u.host \notin Local

StopAfter(u) ==
  /\ Allowed(u) /\ Len(reqs) > MaxRedirects
  /\ AppendResponse
  /\ err' = "redirects" /\ pc' = "returned"
  /\ UNCHANGED <<req, tlsClientConfig>>

\* Mutant: FollowLocalhostRedirects is looked at for the first redirect only.
MutFollowAnyLater(u) ==
  /\ Allowed(u) \/ Len(reqs) > 1
  /\ Len(reqs) <= MaxRedirects
  /\ AppendResponse
  /\ tlsClientConfig' = IF u.scheme = "https" /\ tlsClientConfig = "nil"
                        THEN TLSConfig(u.host, TRUE) ELSE tlsClientConfig
  /\ req' = u /\ pc' = "send" /\ UNCHANGED err

Follow(u) ==
  /\ Allowed(u) /\ Len(reqs) <= MaxRedirects
  /\ AppendResponse
  /\ tlsClientConfig' = IF u.scheme = "https" /\ tlsClientConfig = "nil"
                        THEN TLSConfig(u.host, TRUE) ELSE tlsClientConfig
  /\ req' = u /\ pc' = "send" /\ UNCHANGED err

CheckRedirect ==
  /\ pc = "redirect" /\ resp.location = "url"
  /\ \E u \in URLs : RefuseLocalhost(u) \/ StopAfter(u) \/ Follow(u)
  /\ unclosed' = unclosed \ {Len(reqs)}
  /\ UNCHANGED <<config, target, reqs, resp, hellos, response>>

\* The end of the grab: the response is recorded with or without an error, a
\* refusal to go to localhost is no error, and its body is read.  After a
\* refusal the body is already closed and nothing comes; after too many
\* redirects the response is the one CheckRedirect has read.
Record ==
  /\ pc = "returned" /\ pc' = "done"
  /\ err' = IF err = "localhost" THEN "none" ELSE err
  /\ response' = IF resp = NoResponse THEN response
                 ELSE Entry(Len(reqs),
                            IF err = "localhost" THEN "empty" ELSE resp.body)
  /\ unclosed' = IF resp = NoResponse THEN unclosed ELSE unclosed \ {Len(reqs)}
  /\ UNCHANGED <<config, target, req, reqs, resp, tlsClientConfig, hellos, chain>>

Done == pc = "done" /\ UNCHANGED vars

Next == Start \/ Send \/ BadLocation \/ CheckRedirect \/ Record \/ Done

Spec == Init /\ [][Next]_vars

-----------------------------------------------------------------------------
\* Every variable has its type; in particular every ClientHello of the
\* transport names a host (dialConn).
TypeOK ==
  /\ config \in SUBSET Settings
  /\ target \in [host : Hosts, domain : {"known", "unknown"}]
  /\ pc \in {"start", "send", "redirect", "returned", "done"}
  /\ req \in URLs /\ reqs \in Seq(URLs)
  /\ resp \in Responses \cup {NoResponse}
  /\ unclosed \in SUBSET Nat
  /\ tlsClientConfig \in Hosts \cup {"nil", "unset"}
  /\ hellos \in SUBSET [host : Hosts, by : {"scan", "default"}, name : Hosts]
  /\ chain \in Seq([of : Nat, text : {"empty", "some"}])
  /\ response \in [of : Nat, text : {"empty", "some"}]
  /\ err \in {"none", "url", "send", "location", "localhost", "redirects"}

\* "Max number of redirects to follow" (main.go:86): the grab sends no more
\* requests than the first and that many, although len(via) counts the first
\* and CheckRedirect compares it after the response has been recorded.
RedirectLimit == Len(reqs) <= MaxRedirects + 1

\* With -follow-localhost-redirects=false no redirect leads to a local host, at
\* any place of the chain and whatever the limit on redirects.
LocalhostNotFollowed ==
  "FollowLocalhostRedirects" \notin config =>
    \A i \in 2..Len(reqs) : reqs[i].host \notin Local

\* Every TLS handshake of the grab uses the scan's TLS configuration and never
\* the library's default (which would verify certificates), also when -tls is
\* not given and https first appears in a redirect (grabber.go:281).
ScanTLSOnly == \A h \in hellos : h.by = "scan"

\* A grab without an error holds every response it got, once and in order: the
\* redirects in the chain and the last one, with its text, as the Response.
\* One that stopped at a redirect to localhost holds that redirect, no text.
EveryResponseRecorded ==
  pc = "done" /\ err = "none" =>
    /\ response.of = Len(reqs)
    /\ Len(chain) = Len(reqs) - 1
    /\ \A i \in 1..Len(chain) : chain[i].of = i
    /\ response.text = resp.body \/ ShouldRedirect(resp)

\* When the grab is over the bodies of all its responses are closed, by Do or
\* by the grab; but for that of a redirect without a usable Location, which Do
\* neither closes nor returns (client.go:540-546).
BodiesClosed ==
  pc = "done" => unclosed \subseteq (IF err = "location" THEN {Len(reqs)} ELSE {})

\* "Do not send domain name in TLS handshake regardless of whether known", the
\* help of -no-sni (main.go:101).
NoNameSent == "NoSNI" \in config => \A h \in hellos : h.name \notin Named

\* Every request of a grab is one that the settings allow: within the limit on redirects,
\* not to a local host where that is off, and with the scan's TLS configuration.
RedirectsKept == RedirectLimit /\ LocalhostNotFollowed /\ ScanTLSOnly

\* Every response that a grab got is recorded once and in order, and its body is closed.
ResponsesKept == TypeOK /\ EveryResponseRecorded /\ BodiesClosed
=============================================================================
