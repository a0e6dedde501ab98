--------------------------- MODULE HttpGrabProofs ---------------------------
(* Proofs about HttpGrab, for every set of hosts and limit on redirects.   *)
EXTENDS HttpGrab, SequenceTheorems, TLAPS

Entries == [of : Nat, text : {"empty", "some"}]

LEMMA EntryType ==
  ASSUME NEW n \in Nat, NEW b \in {"empty", "some"} PROVE Entry(n, b) \in Entries
BY DEF Entry, Entries

LEMMA TypeInit == Init => TypeOK
<1> SUFFICES ASSUME Init PROVE TypeOK
  OBVIOUS
<1>1. response \in Entries
  BY EntryType DEF Init
<1>2. req \in URLs /\ resp \in Responses \cup {NoResponse}
  BY DEF Init, URLs
<1> QED
  BY <1>1, <1>2, ConfigsAssumption DEF Init, TypeOK, Entries

LEMMA TLSConfigType ==
  ASSUME NEW h \in Hosts, NEW k PROVE TLSConfig(h, k) \in Hosts \cup {"unset"}
BY DEF TLSConfig

LEMMA HelloType ==
  ASSUME TypeOK, NEW h \in Hosts
  PROVE Hello(h) \in [host : Hosts, by : {"scan", "default"}, name : Hosts]
BY DEF TypeOK, Hello

\* The next-state relation keeps every variable's type.
LEMMA TypeNext == TypeOK /\ [Next]_vars => TypeOK'
<1> SUFFICES ASSUME TypeOK, [Next]_vars PROVE TypeOK'
  OBVIOUS
<1>1. CASE Start
  <2>1. tlsClientConfig' \in Hosts \cup {"nil", "unset"}
    BY <1>1, TLSConfigType DEF Start, TypeOK
  <2> QED
    BY <1>1, <2>1 DEF Start, TypeOK
<1>2. CASE Send
  <2>1. hellos' \in SUBSET [host : Hosts, by : {"scan", "default"}, name : Hosts]
    <3>1. req.host \in Hosts
      BY DEF TypeOK, URLs
    <3> QED
      BY <1>2, <3>1, HelloType DEF Send, Connect, TypeOK
  <2>2. reqs' \in Seq(URLs) /\ Len(reqs') \in Nat
    BY <1>2, AppendProperties, LenProperties DEF Send, TypeOK
  <2> QED
    BY <1>2, <2>1, <2>2 DEF Send, TypeOK
<1>3. CASE BadLocation
  BY <1>3 DEF BadLocation, TypeOK
<1>4. CASE CheckRedirect
  <2>1. PICK u \in URLs : RefuseLocalhost(u) \/ StopAfter(u) \/ Follow(u)
    BY <1>4 DEF CheckRedirect
  <2>2. u.host \in Hosts
    BY DEF URLs
  <2>3. resp.body \in {"empty", "some"} /\ Len(reqs) \in Nat
    BY LenProperties DEF TypeOK, Responses, NoResponse
  <2>4. AppendResponse => chain' \in Seq(Entries)
    <3>1. chain \in Seq(Entries)
      BY DEF TypeOK, Entries
    <3>2. Entry(Len(reqs), resp.body) \in Entries
      BY <2>3, EntryType
    <3> QED
      BY <3>1, <3>2, AppendProperties DEF AppendResponse
  <2>5. chain' \in Seq(Entries)
    BY <2>1, <2>4 DEF RefuseLocalhost, StopAfter, Follow, TypeOK, Entries
  <2>6. tlsClientConfig' \in Hosts \cup {"nil", "unset"} /\ req' \in URLs
    BY <2>1, <2>2, TLSConfigType DEF RefuseLocalhost, StopAfter, Follow, TypeOK
  <2>7. /\ pc' \in {"returned", "send"}
        /\ err' \in {"none", "url", "send", "location", "localhost", "redirects"}
    BY <2>1 DEF RefuseLocalhost, StopAfter, Follow, TypeOK
  <2> QED
    BY <1>4, <2>5, <2>6, <2>7 DEF CheckRedirect, TypeOK, Entries
<1>5. CASE Record
  <2>1. response' \in Entries
    <3>1. resp.body \in {"empty", "some"} /\ Len(reqs) \in Nat
      BY LenProperties DEF TypeOK, Responses, NoResponse
    <3> QED
      BY <1>5, <3>1, EntryType DEF Record, TypeOK, Entries
  <2> QED
    BY <1>5, <2>1 DEF Record, TypeOK, Entries
<1>6. CASE Done \/ UNCHANGED vars
  BY <1>6 DEF Done, vars, netVars, TypeOK
<1> QED
  BY <1>1, <1>2, <1>3, <1>4, <1>5, <1>6 DEF Next

\* Every variable has its type in every behaviour of the HTTP grab.
THEOREM TypeCorrect == Spec => []TypeOK
<1> QED
  BY TypeInit, TypeNext, PTL DEF Spec

-----------------------------------------------------------------------------
(* What holds at each place of the redirect loop.                          *)

\* The requests sent so far: how many at each place, and where to.
Bounded ==
  /\ pc = "start" => reqs = <<>>
  /\ pc = "send" => Len(reqs) <= MaxRedirects
  /\ pc = "send" /\ Len(reqs) > 0 => Allowed(req)
  /\ RedirectLimit
  /\ LocalhostNotFollowed

LEMMA BoundedInit == TypeOK /\ Init => Bounded
BY MaxRedirectsAssumption
DEF Init, Bounded, RedirectLimit, LocalhostNotFollowed

LEMMA BoundedNext == TypeOK /\ Bounded /\ [Next]_vars => Bounded'
<1> SUFFICES ASSUME TypeOK, Bounded, [Next]_vars PROVE Bounded'
  OBVIOUS
<1> USE MaxRedirectsAssumption
<1>0. reqs \in Seq(URLs) /\ Len(reqs) \in Nat /\ req \in URLs
  BY LenProperties DEF TypeOK
<1>1. CASE Start
  BY <1>0, <1>1 DEF Start, Bounded, RedirectLimit, LocalhostNotFollowed
<1>2. CASE Send
  <2>1. /\ Len(reqs') = Len(reqs) + 1
        /\ \A i \in 1..Len(reqs) : reqs'[i] = reqs[i]
        /\ reqs'[Len(reqs) + 1] = req
    BY <1>0, <1>2, AppendProperties DEF Send
  <2>2. RedirectLimit'
    BY <1>0, <1>2, <2>1 DEF Send, Bounded, RedirectLimit
  <2>3. LocalhostNotFollowed'
    <3> SUFFICES ASSUME "FollowLocalhostRedirects" \notin config,
                        NEW i \in 2..(Len(reqs) + 1)
                 PROVE  reqs'[i].host \notin Local
      BY <1>2, <2>1 DEF Send, LocalhostNotFollowed
    <3>1. CASE i \in 1..Len(reqs)
      BY <1>0, <2>1, <3>1 DEF Bounded, LocalhostNotFollowed
    <3>2. CASE i = Len(reqs) + 1
      BY <1>0, <1>2, <2>1, <3>2 DEF Send, Bounded, Allowed
    <3> QED
      BY <1>0, <3>1, <3>2
  <2> QED
    BY <1>2, <2>2, <2>3 DEF Send, Bounded
<1>3. CASE BadLocation
  BY <1>3 DEF BadLocation, Bounded, RedirectLimit, LocalhostNotFollowed
<1>4. CASE CheckRedirect
  <2>1. PICK u \in URLs : RefuseLocalhost(u) \/ StopAfter(u) \/ Follow(u)
    BY <1>4 DEF CheckRedirect
  <2>2. UNCHANGED <<config, reqs>> /\ pc' # "start"
    BY <1>4, <2>1 DEF CheckRedirect, RefuseLocalhost, StopAfter, Follow
  <2>3. pc' = "send" => Len(reqs) <= MaxRedirects /\ Allowed(u) /\ req' = u
    BY <2>1 DEF RefuseLocalhost, StopAfter, Follow
  <2> QED
    BY <2>2, <2>3 DEF Bounded, RedirectLimit, LocalhostNotFollowed, Allowed
<1>5. CASE Record
  BY <1>5 DEF Record, Bounded, RedirectLimit, LocalhostNotFollowed
<1>6. CASE Done \/ UNCHANGED vars
  BY <1>6 DEF Done, vars, netVars, Bounded, RedirectLimit, LocalhostNotFollowed, Allowed
<1> QED
  BY <1>1, <1>2, <1>3, <1>4, <1>5, <1>6 DEF Next

\* Never more requests than the first and MaxRedirects, for every limit.
THEOREM AtMostMaxRedirects == Spec => []RedirectLimit
<1>1. Bounded => RedirectLimit
  BY DEF Bounded
<1> QED
  BY <1>1, TypeInit, TypeNext, BoundedInit, BoundedNext, PTL DEF Spec

\* -follow-localhost-redirects=false keeps every redirect of the chain away
\* from local hosts.
THEOREM LocalhostRefused == Spec => []LocalhostNotFollowed
<1>1. Bounded => LocalhostNotFollowed
  BY DEF Bounded
<1> QED
  BY <1>1, TypeInit, TypeNext, BoundedInit, BoundedNext, PTL DEF Spec

-----------------------------------------------------------------------------

\* An https request is never about to be sent without a TLS configuration.
Configured ==
  /\ pc = "start" /\ req.scheme = "https" => "TLS" \in config
  /\ pc = "send" /\ req.scheme = "https" => tlsClientConfig # "nil"
  /\ ScanTLSOnly

LEMMA ConfiguredInit == Init => Configured
BY DEF Init, Configured, ScanTLSOnly

LEMMA NotNil ==
  ASSUME NEW h \in Hosts, NEW k PROVE TLSConfig(h, k) # "nil"
BY HostsAssumption DEF TLSConfig

LEMMA ConfiguredNext == TypeOK /\ Configured /\ [Next]_vars => Configured'
<1> SUFFICES ASSUME TypeOK, Configured, [Next]_vars PROVE Configured'
  OBVIOUS
<1>1. CASE Start
  <2>1. target.host \in Hosts
    BY DEF TypeOK
  <2> QED
    BY <1>1, <2>1, NotNil DEF Start, Configured, ScanTLSOnly
<1>2. CASE Send
  <2>1. req.scheme = "https" => Hello(req.host).by = "scan"
    BY <1>2 DEF Send, Configured, Hello
  <2> QED
    BY <1>2, <2>1 DEF Send, Connect, Configured, ScanTLSOnly
<1>3. CASE BadLocation
  BY <1>3 DEF BadLocation, Configured, ScanTLSOnly
<1>4. CASE CheckRedirect
  <2>1. PICK u \in URLs : RefuseLocalhost(u) \/ StopAfter(u) \/ Follow(u)
    BY <1>4 DEF CheckRedirect
  <2>2. u.host \in Hosts
    BY DEF URLs
  <2>3. Follow(u) /\ u.scheme = "https" => tlsClientConfig' # "nil"
    BY <2>2, NotNil DEF Follow
  <2>4. pc' = "send" => Follow(u) /\ req' = u
    BY <2>1 DEF RefuseLocalhost, StopAfter, Follow
  <2>5. pc' # "start" /\ UNCHANGED hellos
    BY <1>4, <2>1 DEF CheckRedirect, RefuseLocalhost, StopAfter, Follow
  <2> QED
    BY <2>3, <2>4, <2>5 DEF Configured, ScanTLSOnly
<1>5. CASE Record
  BY <1>5 DEF Record, Configured, ScanTLSOnly
<1>6. CASE Done \/ UNCHANGED vars
  BY <1>6 DEF Done, vars, netVars, Configured, ScanTLSOnly
<1> QED
  BY <1>1, <1>2, <1>3, <1>4, <1>5, <1>6 DEF Next

\* No handshake is made with the library's default TLS configuration.
THEOREM AlwaysScanConfiguration == Spec => []ScanTLSOnly
<1>1. Configured => ScanTLSOnly
  BY DEF Configured
<1> QED
  BY <1>1, TypeInit, TypeNext, ConfiguredInit, ConfiguredNext, PTL DEF Spec

-----------------------------------------------------------------------------

\* How many responses the chain holds, and which bodies are open, at each place.
Kept ==
  /\ \A i \in 1..Len(chain) : chain[i].of = i
  /\ pc \in {"start", "send"} =>
       Len(chain) = Len(reqs) /\ unclosed = {} /\ err = "none"
  /\ pc = "redirect" =>
       /\ Len(chain) = Len(reqs) - 1 /\ unclosed = {Len(reqs)} /\ err = "none"
       /\ resp # NoResponse /\ ShouldRedirect(resp)
  /\ pc = "returned" =>
       /\ err \in {"none", "localhost"} => Len(chain) = Len(reqs) - 1
       /\ unclosed = IF err \in {"none", "location"} THEN {Len(reqs)} ELSE {}
       /\ (resp = NoResponse) <=> (err \in {"send", "location"})
       /\ err = "localhost" => ShouldRedirect(resp)
  /\ EveryResponseRecorded
  /\ BodiesClosed

LEMMA KeptInit == Init => Kept
BY DEF Init, Kept, EveryResponseRecorded, BodiesClosed

LEMMA KeptNext == TypeOK /\ Kept /\ [Next]_vars => Kept'
<1> SUFFICES ASSUME TypeOK, Kept, [Next]_vars PROVE Kept'
  OBVIOUS
<1>0. /\ reqs \in Seq(URLs) /\ Len(reqs) \in Nat /\ req \in URLs
      /\ chain \in Seq(Entries) /\ Len(chain) \in Nat
  BY LenProperties DEF TypeOK, Entries
<1>1. CASE Start
  BY <1>1 DEF Start, Kept, EveryResponseRecorded, BodiesClosed
<1>2. CASE Send
  <2>1. Len(reqs') = Len(reqs) + 1
    BY <1>0, <1>2, AppendProperties DEF Send
  <2>2. \A r \in Responses : r # NoResponse
    BY DEF Responses, NoResponse
  <2>3. pc' \in {"redirect", "returned"} /\ UNCHANGED chain /\ err' \in {"none", "send"}
    BY <1>2 DEF Send, Kept
  <2>4. CASE err' = "none"
    <3>1. resp' \in Responses /\ unclosed' = {Len(reqs')}
          /\ (pc' = "redirect" => ShouldRedirect(resp)')
      BY <1>2, <2>4 DEF Send, Kept, ShouldRedirect
    <3> QED
      BY <1>0, <2>1, <2>2, <2>3, <2>4, <3>1, <1>2
      DEF Send, Kept, EveryResponseRecorded, BodiesClosed
  <2>5. CASE err' = "send"
    <3>1. resp' = NoResponse /\ unclosed' = {} /\ pc' = "returned"
      BY <1>2, <2>5 DEF Send, Kept
    <3> QED
      BY <2>3, <2>5, <3>1 DEF Kept, EveryResponseRecorded, BodiesClosed
  <2> QED
    BY <2>3, <2>4, <2>5
<1>3. CASE BadLocation
  BY <1>3 DEF BadLocation, Kept, EveryResponseRecorded, BodiesClosed
<1>4. CASE CheckRedirect
  <2>1. PICK u \in URLs : RefuseLocalhost(u) \/ StopAfter(u) \/ Follow(u)
    BY <1>4 DEF CheckRedirect
  <2>2. unclosed' = {} /\ UNCHANGED <<reqs, resp>> /\ resp # NoResponse
    BY <1>4 DEF CheckRedirect, Kept
  <2>3. AppendResponse =>
          /\ Len(chain') = Len(chain) + 1
          /\ \A i \in 1..Len(chain) : chain'[i] = chain[i]
          /\ chain'[Len(chain) + 1] = Entry(Len(reqs), resp.body)
    <3>1. Entry(Len(reqs), resp.body) \in Entries
      <4>1. resp.body \in {"empty", "some"}
        BY DEF TypeOK, Responses, NoResponse
      <4> QED
        BY <1>0, <4>1, EntryType
    <3> QED
      BY <1>0, <3>1, AppendProperties DEF AppendResponse
  <2>4. AppendResponse =>
          Len(chain') = Len(reqs) /\ \A i \in 1..Len(chain') : chain'[i].of = i
    <3> SUFFICES ASSUME AppendResponse
                 PROVE  Len(chain') = Len(reqs) /\ \A i \in 1..Len(chain') : chain'[i].of = i
      OBVIOUS
    <3>1. Len(chain) + 1 = Len(reqs)
      BY <1>0, <1>4 DEF CheckRedirect, Kept
    <3>2. Entry(Len(reqs), resp.body).of = Len(reqs)
      BY DEF Entry
    <3>3. \A i \in 1..Len(chain) : chain[i].of = i
      BY DEF Kept
    <3> QED
      BY <1>0, <2>3, <3>1, <3>2, <3>3
  <2>5. CASE RefuseLocalhost(u)
    BY <1>4, <2>2, <2>5 DEF CheckRedirect, RefuseLocalhost, Kept, EveryResponseRecorded,
       BodiesClosed, ShouldRedirect
  <2>6. CASE StopAfter(u)
    BY <2>2, <2>4, <2>6 DEF StopAfter, Kept, EveryResponseRecorded, BodiesClosed
  <2>7. CASE Follow(u)
    BY <1>4, <2>2, <2>4, <2>7
    DEF CheckRedirect, Follow, Kept, EveryResponseRecorded, BodiesClosed
  <2> QED
    BY <2>1, <2>5, <2>6, <2>7
<1>5. CASE Record
  <2>1. pc' = "done" /\ UNCHANGED <<reqs, resp, chain>>
    BY <1>5 DEF Record
  <2>2. BodiesClosed'
    BY <1>5 DEF Record, Kept, BodiesClosed
  <2>3. EveryResponseRecorded'
    <3> SUFFICES ASSUME err' = "none" PROVE EveryResponseRecorded'
      BY DEF EveryResponseRecorded
    <3>1. err \in {"none", "localhost"} /\ resp # NoResponse
      BY <1>5 DEF Record, Kept
    <3>2. response' = Entry(Len(reqs), IF err = "localhost" THEN "empty" ELSE resp.body)
      BY <1>5, <3>1 DEF Record
    <3>3. /\ response'.of = Len(reqs)
          /\ response'.text = IF err = "localhost" THEN "empty" ELSE resp.body
      BY <3>2 DEF Entry
    <3> QED
      BY <1>5, <2>1, <3>1, <3>3 DEF Kept, Record, EveryResponseRecorded, ShouldRedirect
  <2> QED
    BY <2>1, <2>2, <2>3 DEF Kept
<1>6. CASE Done \/ UNCHANGED vars
  BY <1>6 DEF Done, vars, netVars, Kept, EveryResponseRecorded, BodiesClosed, ShouldRedirect
<1> QED
  BY <1>1, <1>2, <1>3, <1>4, <1>5, <1>6 DEF Next

\* A successful grab holds every response it got, once and in order.
THEOREM ResponsesRecorded == Spec => []EveryResponseRecorded
<1>1. Kept => EveryResponseRecorded
  BY DEF Kept
<1> QED
  BY <1>1, TypeInit, TypeNext, KeptInit, KeptNext, PTL DEF Spec

\* A grab leaves no body open but that of a redirect without usable Location.
THEOREM BodiesReleased == Spec => []BodiesClosed
<1>1. Kept => BodiesClosed
  BY DEF Kept
<1> QED
  BY <1>1, TypeInit, TypeNext, KeptInit, KeptNext, PTL DEF Spec

\* For every limit, set of hosts and chain of redirects, the grab requests only
\* what its settings allow, over the scan's own TLS configuration
\* (makeHTTPGrabber, grabber.go:245-345; Client.Do, client.go:490-605).
THEOREM RedirectsStayKept == Spec => []RedirectsKept
<1>1. RedirectLimit /\ LocalhostNotFollowed /\ ScanTLSOnly => RedirectsKept
  BY DEF RedirectsKept
<1> QED
  BY <1>1, AtMostMaxRedirects, LocalhostRefused, AlwaysScanConfiguration, PTL

\* For every chain of redirects and every way Do may end, what was received is
\* recorded and its bodies are closed (makeHTTPGrabber, Client.Do).
THEOREM ResponsesStayKept == Spec => []ResponsesKept
<1>1. TypeOK /\ EveryResponseRecorded /\ BodiesClosed => ResponsesKept
  BY DEF ResponsesKept
<1> QED
  BY <1>1, TypeCorrect, ResponsesRecorded, BodiesReleased, PTL
=============================================================================
