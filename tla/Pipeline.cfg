\* Two workers, two connections per host: every kind of line, a failing read, every way
\* the process can die; under fairness the program ends.
SPECIFICATION FairSpec
CONSTANTS
  Workers = {w1, w2}
  RunCount = 2
  QueueFactor = 1
  Inputs <- SomeInputs
  Crashes = {"grabPanic", "writeError", "metricsServer"}
INVARIANTS
  ChannelsSafe
  RunsConserved
  FileSound
  CountsSound
PROPERTIES
  KeepsContract
  Termination
