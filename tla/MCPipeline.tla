----------------------------- MODULE MCPipeline -----------------------------
(* Instances of Pipeline for TLC: the input files its runs start on.       *)
EXTENDS Pipeline

L(n, f) == [fields |-> n, form |-> f]
File(f, ls, nl, n) == [format |-> f, lines |-> ls, newline |-> nl, faults |-> n]

\* A plain target, one with a domain, a bad address and a bad quote.
Addr == L(1, "address")
AddrDomain == L(2, "address")
BadAddr == L(1, "notAddress")
BadQuote == L(1, "badQuote")

SomeInputs == { File("csv", <<>>, FALSE, 1), File("csv", <<BadAddr>>, TRUE, 1),
                File("csv", <<AddrDomain, Addr>>, TRUE, 0), File("csv", <<BadQuote>>, TRUE, 0),
                File("csv", <<BadAddr, BadAddr, BadAddr>>, TRUE, 0), File("domains", <<Addr>>, TRUE, 1),
                File("domains", <<Addr>>, FALSE, 1) }
TwoTargets == { File("csv", <<Addr, Addr>>, TRUE, 0) }
=============================================================================
