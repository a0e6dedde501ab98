------------------------------ MODULE CookieJar ------------------------------
(***************************************************************************)
(* Cookies: how they are written and read (http/cookie.go) and kept        *)
(* (http/cookiejar/jar.go).  A server sets cookies, the jar stores them    *)
(* under the registrable domain of the host, and a request gets those that *)
(* match.                                                                  *)
(*                                                                         *)
(* A host is a sequence of labels, with an empty one where a dot is too    *)
(* many; a path, and the value of a cookie, is a sequence of characters.   *)
(* The jar is locked for a whole call, so a call is one step.              *)
(***************************************************************************)
EXTENDS Integers, Sequences, FiniteSets, SequencesExt

CONSTANTS
  JarCases,        \* [psl, sets, value]: the suffix list, the cookies that servers set
  JarHosts,        \* hosts that requests go to
  JarPaths,        \* paths of requests
  JarCalls,        \* bound on the calls of SetCookies
  JarTime          \* bound on the clock

ASSUME JarAssumption == JarCalls \in Nat /\ JarTime \in Nat

VARIABLES
  jcase,       \* the case
  entries,     \* entries[key]: the cookies under a registrable domain
  nextSeqNum,  \* numbers cookies in the order of their creation
  jarNow,      \* the clock
  history      \* history: what servers set, and when

jarVars == <<jcase, entries, nextSeqNum, jarNow, history>>

EndOfTime == JarTime + 1000
Slash == "/"
IsIP(host) == Len(host) = 1 /\ host[1] = "ip"

-----------------------------------------------------------------------------
(* cookie.go: values and attributes *)

validCookieValueByte(c) == c \notin {"quote", ";"}
validCookiePathByte(c) == c # ";"
sanitizeCookieValue(v) ==
  LET s == SelectSeq(v, validCookieValueByte) IN
  IF s # <<>> /\ (s[1] \in {" ", ","} \/ s[Len(s)] \in {" ", ","}) THEN <<"quote">> \o s \o <<"quote">> ELSE s

\* strings.TrimSpace at the end of a pair
TrimRight(v) ==
  LET keep == {n \in 0..Len(v) : \A i \in (n + 1)..Len(v) : v[i] = " "} IN SubSeq(v, 1, Min(keep))

parseCookieValue(raw, allowDoubleQuote) ==
  LET v == IF allowDoubleQuote /\ Len(raw) > 1 /\ raw[1] = "quote" /\ raw[Len(raw)] = "quote"
           THEN SubSeq(raw, 2, Len(raw) - 1) ELSE raw IN
  [val |-> v, ok |-> \A i \in 1..Len(v) : validCookieValueByte(v[i])]

\* validCookieDomain: no empty label, but for a dot in front and one at the end.
Undotted(d) == IF d # <<>> /\ d[1] = "" THEN Tail(d) ELSE d
validCookieDomain(d) ==
  LET s == Undotted(d) IN s # <<>> /\ s[1] # "" /\ \A i \in 1..(Len(s) - 1) : s[i] # ""

\* Cookie.String: the line of a Set-Cookie header; Max-Age=0 stands for a negative age.
CookieString(c) ==
  [name |-> c.name, value |-> sanitizeCookieValue(c.value), path |-> SelectSeq(c.path, validCookiePathByte),
   domain |-> IF validCookieDomain(c.domain) THEN Undotted(c.domain) ELSE <<>>,
   expires |-> c.expires, maxAge |-> IF c.maxAge < 0 THEN 0 ELSE c.maxAge,
   hasAge |-> c.maxAge # 0, secure |-> c.secure]

\* readSetCookies, of one line: no cookie, or one.  A path that does not parse is left out.
readSetCookies(l) ==
  LET v == parseCookieValue(TrimRight(l.value), TRUE)
      p == parseCookieValue(TrimRight(l.path), FALSE) IN
  IF l.name = "" \/ ~v.ok THEN <<>>
  ELSE <<[name |-> l.name, value |-> v.val, path |-> IF p.ok THEN p.val ELSE <<>>, domain |-> l.domain,
          expires |-> l.expires, maxAge |-> IF ~l.hasAge THEN 0 ELSE IF l.maxAge <= 0 THEN -1 ELSE l.maxAge,
          secure |-> l.secure]>>

\* Request.AddCookie and readCookies, for one cookie.
CookieSeen(value) == parseCookieValue(TrimRight(sanitizeCookieValue(value)), TRUE)

-----------------------------------------------------------------------------
(* jar.go: domains and paths *)

hasDotSuffix(s, suffix) == Len(s) > Len(suffix) /\ SubSeq(s, Len(s) - Len(suffix) + 1, Len(s)) = suffix

\* PublicSuffixList.PublicSuffix (external): the longest rule that matches, or the last label.
PublicSuffix(host) ==
  LET rules == {s \in jcase.psl : s = host \/ hasDotSuffix(host, s)} IN
  IF rules = {} THEN <<host[Len(host)]>> ELSE CHOOSE s \in rules : \A t \in rules : Len(t) <= Len(s)
NoList == jcase.psl = {}

\* jarKey: the host itself, or one label more than the suffix.
jarKey(host) ==
  LET suffix == IF NoList THEN <<host[Len(host)]>> ELSE PublicSuffix(host) IN
  IF IsIP(host) \/ Len(suffix) >= Len(host) THEN host
  ELSE SubSeq(host, Len(host) - Len(suffix), Len(host))

\* domainAndType: the domain of a cookie and whether it is for this host only, or an error.
domainAndType(host, domain) ==
  LET d == Undotted(domain)
      malformed == d = <<>> \/ d[1] = "" \/ d[Len(d)] = "" IN
  IF domain = <<>> THEN [domain |-> host, hostOnly |-> TRUE, err |-> FALSE]
  ELSE IF IsIP(host) \/ malformed THEN [domain |-> host, hostOnly |-> FALSE, err |-> TRUE]
  ELSE IF ~NoList /\ ~hasDotSuffix(d, PublicSuffix(d)) THEN [domain |-> host, hostOnly |-> TRUE, err |-> host # d]
  ELSE [domain |-> d, hostOnly |-> FALSE, err |-> host # d /\ ~hasDotSuffix(host, d)]

defaultPath(path) ==
  LET slashes == {i \in 1..Len(path) : path[i] = Slash} IN
  IF path = <<>> \/ path[1] # Slash \/ slashes = {1} THEN <<Slash>> ELSE SubSeq(path, 1, Max(slashes) - 1)

pathMatch(e, path) ==
  \/ path = e.path
  \/ IsPrefix(e.path, path) /\ (e.path[Len(e.path)] = Slash \/ path[Len(e.path) + 1] = Slash)
domainMatch(e, host) == e.domain = host \/ (~e.hostOnly /\ hasDotSuffix(host, e.domain))
shouldSend(e, https, host, path) == domainMatch(e, host) /\ pathMatch(e, path) /\ (https \/ ~e.secure)

-----------------------------------------------------------------------------
(* jar.go: the jar *)

\* newEntry: an entry, its removal, or an error.
newEntry(c, now, defPath, host) ==
  LET d == domainAndType(host, c.domain)
      gone == c.maxAge < 0 \/ (c.maxAge = 0 /\ c.expires # -1 /\ c.expires <= now) IN
  [err |-> d.err, remove |-> gone,
   e |-> [name |-> c.name, value |-> c.value, domain |-> d.domain, hostOnly |-> d.hostOnly,
          path |-> IF c.path = <<>> \/ c.path[1] # Slash THEN defPath ELSE c.path,
          persistent |-> c.maxAge > 0 \/ c.expires # -1, secure |-> c.secure,
          expires |-> IF c.maxAge > 0 THEN now + c.maxAge ELSE IF c.expires = -1 THEN EndOfTime ELSE c.expires,
          creation |-> now, seqNum |-> nextSeqNum]]
Id(e) == <<e.domain, e.path, e.name>>
Under(key) == IF key \in DOMAIN entries THEN entries[key] ELSE {}
Store(key, es) ==
  IF es = {} THEN [k \in DOMAIN entries \ {key} |-> entries[k]]
  ELSE [k \in DOMAIN entries \cup {key} |-> IF k = key THEN es ELSE entries[k]]

\* setCookies, with the one cookie of a response: an entry with the same id is replaced
\* and keeps its place, also when it has expired in the meantime.
SetCookies(s) ==
  /\ Len(history) < JarCalls /\ s \in jcase.sets
  /\ LET read == readSetCookies(CookieString([s.cookie EXCEPT !.value = jcase.value]))
         key == jarKey(s.host)
         n == newEntry(read[1], jarNow, defaultPath(s.path), s.host)
         old == {e \in Under(key) : Id(e) = Id(n.e)}
         kept == Under(key) \ old
         new == [n.e EXCEPT !.creation = IF old = {} THEN @ ELSE (CHOOSE e \in old : TRUE).creation,
                            !.seqNum = IF old = {} THEN @ ELSE (CHOOSE e \in old : TRUE).seqNum] IN
     IF read = <<>> \/ n.err THEN UNCHANGED <<entries, nextSeqNum>>
     ELSE /\ entries' = Store(key, IF n.remove THEN kept ELSE kept \cup {new})
          /\ nextSeqNum' = IF n.remove \/ old # {} THEN nextSeqNum ELSE nextSeqNum + 1
  /\ history' = Append(history, [set |-> s, at |-> jarNow])
  /\ UNCHANGED <<jcase, jarNow>>

\* cookies: what it returns, in order, and what it leaves in the jar.
Live(key) == {e \in Under(key) : ~(e.persistent /\ e.expires <= jarNow)}
Selected(https, host, path) == {e \in Live(jarKey(host)) : shouldSend(e, https, host, path)}
Before(a, b) ==
  \/ Len(a.path) > Len(b.path)
  \/ Len(a.path) = Len(b.path) /\ (a.creation < b.creation \/ (a.creation = b.creation /\ a.seqNum < b.seqNum))
Cookies(https, host, path) == SetToSortSeq(Selected(https, host, path), Before)

AskCookies(host) ==
  /\ Live(jarKey(host)) # Under(jarKey(host))
  /\ entries' = Store(jarKey(host), Live(jarKey(host)))
  /\ UNCHANGED <<jcase, nextSeqNum, jarNow, history>>

JarTick ==
  /\ jarNow < JarTime /\ history # <<>>
  /\ jarNow' = jarNow + 1
  /\ UNCHANGED <<jcase, entries, nextSeqNum, history>>

JarInit ==
  /\ jcase \in JarCases
  /\ entries = [k \in {} |-> {}] /\ nextSeqNum = 0 /\ jarNow = 1 /\ history = <<>>
JarNext == (\E s \in jcase.sets : SetCookies(s)) \/ (\E h \in JarHosts : AskCookies(h)) \/ JarTick

-----------------------------------------------------------------------------
(* Properties *)

\* Every entry is in its place: under the key of its domain's hosts, one per id, numbered.
JarTypeOK ==
  \A k \in DOMAIN entries :
    /\ entries[k] # {}
    /\ \A e, f \in entries[k] : e # f => Id(e) # Id(f) /\ e.seqNum # f.seqNum
    /\ \A e \in entries[k] : e.seqNum < nextSeqNum /\ jarKey(e.domain) \in {k, e.domain}

\* The sets that concern one id, the last of them deciding: the reference has no map of
\* registrable domains and never deletes.  A domain that is none makes the cookie one of its
\* host only.
Meant(h) ==
  newEntry([h.set.cookie EXCEPT !.domain = IF validCookieDomain(@) THEN @ ELSE <<>>],
           h.at, defaultPath(h.set.path), h.set.host)
Reference(https, host, path) ==
  {[name |-> Meant(history[i]).e.name, path |-> Meant(history[i]).e.path, by |-> i] : i \in
     {i \in 1..Len(history) :
        LET m == Meant(history[i]) IN
        /\ ~m.err /\ ~m.remove /\ (m.e.expires > jarNow \/ ~m.e.persistent)
        /\ shouldSend(m.e, https, host, path)
        /\ ~\E j \in (i + 1)..Len(history) : ~Meant(history[j]).err /\ Id(Meant(history[j]).e) = Id(m.e)}}

\* A request gets exactly the cookies that servers meant for it, longer paths first,
\* whatever was asked before; storing them under registrable domains hides none, but for
\* domains of one label, which without a suffix list anyone may name.
SentAsMeant ==
  \A host \in JarHosts, path \in JarPaths, https \in BOOLEAN :
    LET cs == Cookies(https, host, path)
        ref == {r \in Reference(https, host, path) :
                  ~NoList \/ Len(Meant(history[r.by]).e.domain) > 1 \/ Meant(history[r.by]).e.hostOnly} IN
    /\ {<<r.name, r.path>> : r \in ref} \subseteq {<<cs[i].name, cs[i].path>> : i \in 1..Len(cs)}
    /\ ~NoList => {<<cs[i].name, cs[i].path>> : i \in 1..Len(cs)} = {<<r.name, r.path>> : r \in ref}
    /\ \A i, k \in 1..Len(cs) : i < k => Len(cs[i].path) >= Len(cs[k].path)

\* A cookie goes back to the host that set it, or to one that shares with it more than a
\* public suffix (a label, without a list).
StaysInDomain ==
  \A host \in JarHosts, path \in JarPaths, https \in BOOLEAN :
    \A e \in Selected(https, host, path) :
      \E i \in 1..Len(history) :
        /\ history[i].set.cookie.name = e.name
        /\ LET s == history[i].set.host IN
           \/ s = host
           \/ ~IsIP(s) /\ ~IsIP(host) /\ jarKey(s) = jarKey(host)
              /\ Len(jarKey(s)) > Len(PublicSuffix(s)) /\ Len(jarKey(host)) > Len(PublicSuffix(host))

\* A server gets back the value that it set, without the characters that a cookie cannot
\* hold, through both headers and the quotes around spaces and commas.
ValueComesBack ==
  \A k \in DOMAIN entries : \A e \in entries[k] :
    /\ e.value = SelectSeq(jcase.value, validCookieValueByte)
    /\ CookieSeen(e.value).ok /\ CookieSeen(e.value).val = e.value
=============================================================================
