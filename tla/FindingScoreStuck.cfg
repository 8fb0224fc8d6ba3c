\* The facts are withdrawn and approved again.
CONSTANTS
  Workers = {w1}
  Passes = {p1}
  Revisions = {A}
  None = None
  INITIAL_MATCH_TYPE = INITIAL
  INITIAL_MATCH_MAX_ATTEMPTS = 2
  MaxEdits = 2
  MaxFaults = 0
SPECIFICATION FairSpec
PROPERTIES
  ScoresBecomeCurrent
