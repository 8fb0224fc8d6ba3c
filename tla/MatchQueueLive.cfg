\* One worker and one pass; the facts change once, with two faults.
CONSTANTS
  Workers = {w1}
  Passes = {p1}
  Revisions = {A, B}
  None = None
  INITIAL_MATCH_TYPE = INITIAL
  INITIAL_MATCH_MAX_ATTEMPTS = 2
  MaxEdits = 1
  MaxFaults = 2
SPECIFICATION FairSpec
PROPERTIES
  ScoringEnds
  ScoresBecomeCurrent
