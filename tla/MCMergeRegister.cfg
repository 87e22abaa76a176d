SPECIFICATION MergeSpec
CONSTANTS
  Absent = Absent
  Values <- MCValues
  MaxOffers = 3
INVARIANTS
  BestOffered
  TombstoneAbsorbs
CHECK_DEADLOCK FALSE
