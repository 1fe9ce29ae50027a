\* Two builders; up to five seeds, two rng seeds, two interrupted calls.
SPECIFICATION Spec
CONSTANTS
  NBase = 2
  Counts <- Few
  RngSeeds = {1, 2}
  Strays = {stray}
  Finds = {find}
  MaxFails = 2
INVARIANTS
  TypeOK
  CompletedExactly
  PartialsCounted
PROPERTIES
  OnlyOwnFilesTouched
