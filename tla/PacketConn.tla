----------------------------- MODULE PacketConn -----------------------------
(***************************************************************************)
(* What xssh/transport.go's packetConn promises its users, the abstract    *)
(* specification that the rekeying transport implements: each end's        *)
(* packets reach the other end's reader in the order in which they were    *)
(* written, none twice, none lost before a later one, whatever keys are    *)
(* exchanged in between.  Packets are numbered in the order in which the   *)
(* connection took them from their writers.                                *)
(***************************************************************************)
EXTENDS Naturals, Sequences

CONSTANT Ends     \* the two endpoints of the connection

VARIABLES taken,  \* taken[e]: how many packets e's writers have handed over
          got     \* got[e]: the numbers of the packets e's reader was given

vars == <<taken, got>>

Other(e) == CHOOSE f \in Ends : f # e

Init == /\ taken = [e \in Ends |-> 0]
        /\ got = [e \in Ends |-> <<>>]

\* writePacket: the connection takes the next packet.
WritePacket(e) == /\ taken' = [taken EXCEPT ![e] = @ + 1]
                  /\ UNCHANGED got

\* readPacket: the reader is given the first packet it has not been given.
ReadPacket(e) == /\ Len(got[e]) < taken[Other(e)]
                 /\ got' = [got EXCEPT ![e] = Append(@, Len(@) + 1)]
                 /\ UNCHANGED taken

Next == \E e \in Ends : WritePacket(e) \/ ReadPacket(e)

Spec == Init /\ [][Next]_vars
=============================================================================
