\* Two workers and a pass; the facts change once, with two faults.
CONSTANTS
  Workers = {w1, w2}
  Passes = {p1}
  Revisions = {A}
  None = None
  INITIAL_MATCH_TYPE = INITIAL
  INITIAL_MATCH_MAX_ATTEMPTS = 2
  MaxEdits = 1
  MaxFaults = 2
SPECIFICATION Spec
SYMMETRY MatchSymmetry
INVARIANTS
  TypeOK
  OneScorerPerItem
  AttemptsBounded
  ScoresHaveResults
PROPERTIES
  SuccessIsKept
