----------------------------- MODULE X509Verify -----------------------------
(***************************************************************************)
(* zct/x509/verify.go and cert_pool.go: the chains from a certificate to a *)
(* root.  Signatures are external and ideal: a certificate is signed by    *)
(* one key.  A name is a sequence of labels.  A behaviour is one call of   *)
(* Verify on one set of certificates.                                      *)
(***************************************************************************)
EXTENDS Integers, Sequences, FiniteSets, SequencesExt, TLC

CONSTANT VerifyCases   \* [certs, leaf, roots, intermediates, usages, host]

VARIABLES
  xcase,    \* the call
  xresult   \* what it returned

x509Vars == <<xcase, xresult>>

Cert(c) == xcase.certs[c]
Fails(e) == [err |-> e, chains |-> <<>>]

-----------------------------------------------------------------------------
(* CertPool *)

AddCert(pool, c) == IF c \in Range(pool) THEN pool ELSE Append(pool, c)
CertPool(cs) == FoldLeft(AddCert, <<>>, cs)

\* Whether parent may sign and has signed c.  Whoever certifies one broken key of Entrust
\* need not be an authority (entrustBrokenSPKI).
CheckSignatureFrom(c, parent) ==
  /\ \/ Cert(parent).ca = "yes" \/ (Cert(parent).ca = "absent" /\ Cert(parent).version < 3)
     \/ Cert(c).key = "entrustBroken"
  /\ Cert(parent).mayCertSign
  /\ Cert(parent).subject = Cert(c).issuer
  /\ Cert(parent).key = Cert(c).signer

\* By the key id if somebody has it, otherwise by name.
findVerifiedParents(pool, c) ==
  LET byId == SelectSeq(pool, LAMBDA p : Cert(c).akid # "none" /\ Cert(p).skid = Cert(c).akid)
      byName == SelectSeq(pool, LAMBDA p : Cert(p).subject = Cert(c).issuer) IN
  SelectSeq(IF byId = <<>> THEN byName ELSE byId, LAMBDA p : CheckSignatureFrom(c, p))

-----------------------------------------------------------------------------
(* Names *)

matchHostnames(pattern, host) ==
  /\ pattern # <<>> /\ host # <<>> /\ Len(pattern) = Len(host)
  /\ \A i \in 1..Len(host) : pattern[i] \in {"*", host[i]}
VerifyHostname(c, h) ==
  IF h[1] = "ip" THEN h \in Cert(c).ips
  ELSE \E n \in (IF Cert(c).dns # {} THEN Cert(c).dns ELSE {Cert(c).cn}) : matchHostnames(n, h)

\* A constraint names a domain; without a host there is nothing that it permits.
Permitted(domain, h) ==
  Len(h) >= Len(domain) /\ SubSeq(h, Len(h) - Len(domain) + 1, Len(h)) = domain

-----------------------------------------------------------------------------
(* Chains *)

MutIsValid(c, type, chain) ==
  /\ Cert(c).current
  /\ Cert(c).permits # {} => \E d \in Cert(c).permits : Permitted(d, xcase.host)
  /\ type = "intermediate" => Cert(c).ca = "yes"
  /\ Cert(c).ca # "absent" /\ Cert(c).maxPathLen >= 0 => Len(chain) - 2 <= Cert(c).maxPathLen
isValid(c, type, chain) ==
  /\ Cert(c).current
  /\ Cert(c).permits # {} => \E d \in Cert(c).permits : Permitted(d, xcase.host)
  /\ type = "intermediate" => Cert(c).ca = "yes"
  /\ Cert(c).ca # "absent" /\ Cert(c).maxPathLen >= 0 => Len(chain) - 1 <= Cert(c).maxPathLen

\* What buildChains returns in the end: an error only without a chain.
Outcome(acc) ==
  [acc EXCEPT !.err = IF acc.chains # <<>> THEN "nil" ELSE IF @ = "nil" THEN "unknownAuthority" ELSE @]

\* An intermediate's chains are looked for once: a second way to it gets the chains that
\* were found on the first, from the leaf on.
RECURSIVE buildChains(_, _, _)
buildChains(c, chain, cache) ==
  LET root(acc, r) ==
        IF isValid(r, "root", chain) THEN [acc EXCEPT !.err = "nil", !.chains = Append(@, Append(chain, r))]
        ELSE [acc EXCEPT !.err = "invalid"]
      parent(acc, p) ==
        IF p \in Range(chain) THEN acc
        ELSE IF ~isValid(p, "intermediate", chain) THEN [acc EXCEPT !.err = "invalid"]
        ELSE IF p \in DOMAIN acc.cache THEN [acc EXCEPT !.err = "nil", !.chains = @ \o acc.cache[p]]
        ELSE LET up == buildChains(p, Append(chain, p), acc.cache) IN
             [err |-> up.err, chains |-> acc.chains \o up.chains, cache |-> (p :> up.chains) @@ up.cache]
      none == [err |-> "nil", chains |-> <<>>, cache |-> cache] IN
  Outcome(FoldLeft(parent, FoldLeft(root, none, findVerifiedParents(CertPool(xcase.roots), c)),
                   findVerifiedParents(CertPool(xcase.intermediates), c)))

\* Usages are crossed out from the root down.  A certificate that lists "any" crosses out the
\* usages that it does not list as well: the continue beside "explicitly good for any usage"
\* continues the loop over that certificate's usages, which does nothing else.
SupportsUsage(c, u) == u \in Cert(c).ekus \/ (u = "server" /\ "gated" \in Cert(c).ekus)
Remaining509(us, c) ==
  IF Cert(c).ekus = {} /\ ~Cert(c).unknownEku THEN us ELSE {u \in us : SupportsUsage(c, u)}
checkChainForKeyUsage(chain, usages) ==
  FoldLeft(Remaining509, usages, Reverse(chain)) # {}

Verify ==
  LET usages == IF xcase.usages = {} THEN {"server"} ELSE xcase.usages
      built == buildChains(xcase.leaf, <<xcase.leaf>>, <<>>)
      kept == SelectSeq(built.chains, LAMBDA c : checkChainForKeyUsage(c, usages)) IN
  IF ~isValid(xcase.leaf, "leaf", <<>>) THEN Fails("invalid")
  ELSE IF xcase.host # <<>> /\ ~VerifyHostname(xcase.leaf, xcase.host) THEN Fails("hostname")
  ELSE IF built.err # "nil" THEN Fails(built.err)
  ELSE IF "any" \in usages THEN [err |-> "nil", chains |-> built.chains]
  ELSE IF kept = <<>> THEN Fails("incompatibleUsage")
  ELSE [err |-> "nil", chains |-> kept]

X509Init == xcase \in VerifyCases /\ xresult = Fails("notYet")
X509Next == xresult.err = "notYet" /\ xresult' = Verify /\ UNCHANGED xcase

-----------------------------------------------------------------------------
(* Properties *)

\* Every simple path from the leaf over intermediates to a root, and which of them may be
\* accepted: said without the order in which Verify looks.
Paths ==
  {<<xcase.leaf>> \o m \o <<r>> :
     m \in SetToAllKPermutations(Range(xcase.intermediates) \ {xcase.leaf}), r \in Range(xcase.roots)}
Genuine(p) ==
  /\ \A i \in 1..(Len(p) - 1) : CheckSignatureFrom(p[i], p[i + 1])
  /\ \A i \in 1..Len(p) : Cert(p[i]).current /\ (Cert(p[i]).permits = {} \/ \E d \in Cert(p[i]).permits : IsSuffix(d, xcase.host))
  /\ \A i \in 2..(Len(p) - 1) : Cert(p[i]).ca = "yes"
WithinLengths(p) ==
  \A i \in 2..Len(p) : Cert(p[i]).ca # "absent" /\ Cert(p[i]).maxPathLen >= 0 => i - 2 <= Cert(p[i]).maxPathLen
Sound(p) == Genuine(p) /\ WithinLengths(p)

\* An intermediate of p is also reached by a longer way that is too long for somebody above.
Overshot(p) ==
  \E q \in Paths : /\ Genuine(q) /\ ~WithinLengths(q)
                   /\ \E i \in 2..(Len(p) - 1) : \E k \in (i + 1)..(Len(q) - 1) : q[k] = p[i]

\* Every certificate of p is good for u: it has no usages, has this one, or any; and those
\* that are crossed out although a certificate has any.
Silent(c) == Cert(c).ekus = {} /\ ~Cert(c).unknownEku
GoodFor(p, u) == \A i \in 1..Len(p) : Silent(p[i]) \/ "any" \in Cert(p[i]).ekus \/ SupportsUsage(p[i], u)
AnyIgnored(p, u) == \E i \in 1..Len(p) : "any" \in Cert(p[i]).ekus /\ ~SupportsUsage(p[i], u)
Names(c) == IF Cert(c).dns = {} THEN {Cert(c).cn} ELSE Cert(c).dns

\* Every chain that Verify returns goes from the certificate to a root over verified
\* signatures of current authorities within their path lengths, although chains are taken
\* from the cache of another path (buildChains).
ChainsSound ==
  xresult.err = "nil" =>
    /\ xresult.chains # <<>>
    /\ \A i \in 1..Len(xresult.chains) : xresult.chains[i] \in Paths /\ Sound(xresult.chains[i])

\* If there is a chain Verify finds one, and otherwise says so, whatever other candidates
\* fail and however authorities sign each other.  One case is missed: what the cache keeps
\* of a way that was too long for a path length is also used for a shorter one, so that a
\* good chain can be refused; but only if every good chain has such an intermediate.
ChainFound ==
  /\ xresult.err # "notYet" /\ "any" \in xcase.usages /\ xcase.host = <<>>
  /\ (\A c \in DOMAIN xcase.certs : Cert(c).skid = Cert(c).key /\ Cert(c).akid = Cert(c).signer)
       \/ (\A c \in DOMAIN xcase.certs : Cert(c).skid = "none")
  => LET good == {p \in Paths : Sound(p)} IN
     /\ xresult.err = "nil" => good # {}
     /\ good # {} => xresult.err = "nil" \/ \A p \in good : Overshot(p)

\* The chains that are returned are those in which every certificate is good for some one
\* of the requested usages; but not those that would need a certificate's "any", which
\* counts as no usage at all (checkChainForKeyUsage, against its own comment).
UsageNested ==
  xresult.err \in {"nil", "incompatibleUsage"} /\ "any" \notin xcase.usages =>
    LET wanted == IF xcase.usages = {} THEN {"server"} ELSE xcase.usages IN
    Range(xresult.chains) = {p \in Paths : Sound(p) /\ \E u \in wanted : GoodFor(p, u) /\ ~AnyIgnored(p, u)}

\* A certificate is not good for a host that it does not name; the common name counts only
\* without alternative names, and an address is no name.
HostNamed ==
  xresult.err = "nil" /\ xcase.host # <<>> =>
    \/ xcase.host \in Cert(xcase.leaf).ips
    \/ /\ xcase.host[1] # "ip"
       /\ \E n \in Names(xcase.leaf) : Len(n) = Len(xcase.host)
            /\ \A i \in 1..Len(n) : n[i] # "*" => n[i] = xcase.host[i]
=============================================================================
