\* Two runs over three messages in batches of two, one change of each and one fault.
CONSTANTS
  r1 = r1
  r2 = r2
  Run = {r1, r2}
  MaxId = 3
  BatchSize = 2
  Old = {1, 3}
  MaxVersion = 2
  MaxTouched = 1
  MaxFaults = 1
SPECIFICATION Spec
INVARIANT BackfillInv
INVARIANT CheckpointIsSound
INVARIANT NothingCountedTwice
INVARIANT VectorNotOlder
SYMMETRY MCRuns
CHECK_DEADLOCK FALSE
