-------------------------------- MODULE Scan --------------------------------
(***************************************************************************)
(* What processing.Process promises its caller, without its goroutines and *)
(* channels: every object it takes from the decoder is handled RunCount    *)
(* times, each run is emitted once or lost once, the runs of one object    *)
(* are emitted in order, and it returns when nothing is outstanding.       *)
(***************************************************************************)
EXTENDS Integers, Sequences

CONSTANT RunCount

VARIABLES
  issued,    \* objects taken from the decoder
  output,    \* jobs <<object, run>> emitted, in order
  lost,      \* jobs whose result could not be encoded
  phase      \* "scanning", or "returned" once Process has returned

scanVars == <<issued, output, lost, phase>>

Emitted(j) == \E i \in 1..Len(output) : output[i] = j
Settled(j) == Emitted(j) \/ j \in lost

Init == issued = 0 /\ output = <<>> /\ lost = {} /\ phase = "scanning"

Issue ==
  /\ phase = "scanning"
  /\ issued' = issued + 1
  /\ UNCHANGED <<output, lost, phase>>

Emit(id, run) ==
  /\ phase = "scanning" /\ ~Settled(<<id, run>>)
  /\ \A k \in 1..(run - 1) : Settled(<<id, k>>)
  /\ output' = Append(output, <<id, run>>)
  /\ UNCHANGED <<issued, lost, phase>>

Lose(id, run) ==
  /\ phase = "scanning" /\ ~Settled(<<id, run>>)
  /\ lost' = lost \cup {<<id, run>>}
  /\ UNCHANGED <<issued, output, phase>>

Return ==
  /\ phase = "scanning"
  /\ \A id \in 1..issued, run \in 1..RunCount : Settled(<<id, run>>)
  /\ phase' = "returned"
  /\ UNCHANGED <<issued, output, lost>>

Next == \/ Issue
        \/ \E id \in 1..issued, run \in 1..RunCount : Emit(id, run) \/ Lose(id, run)
        \/ Return

Spec == Init /\ [][Next]_scanVars
=============================================================================
