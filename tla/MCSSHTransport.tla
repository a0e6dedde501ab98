--------------------------- MODULE MCSSHTransport ---------------------------
(* Instances of SSHTransport for TLC. *)
EXTENDS SSHTransport

OneRound == [e \in Ends |-> <<"ecdh", "dh">>]
TwoRounds == [e \in Ends |-> IF e = "client" THEN <<"gex", "dh">> ELSE <<"dh", "gex">>]
Disjoint == [e \in Ends |-> IF e = "client" THEN <<"gex">> ELSE <<"ecdh">>]

SomeOffers == {TwoRounds, Disjoint}
OneOffer == {OneRound}

\* Writes of the other goroutine of each end.
OneEach == [e \in Ends |-> 1]
ServerPumps == [e \in Ends |-> IF e = "client" THEN 1 ELSE 2]
=============================================================================
