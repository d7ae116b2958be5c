\* Statements of up to three blocks, and every combination of row limits.
SPECIFICATION Spec
CONSTANTS
  Calls <- MCCalls
  Candidates <- MCCandidates
  Results <- MCResults
INVARIANTS AcceptedIsListed ShownWithinBounds UnmarkedIsWhole
CHECK_DEADLOCK FALSE
