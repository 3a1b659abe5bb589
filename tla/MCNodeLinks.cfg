CONSTANTS
  MaxTrips = 2
SPECIFICATION LinksSpec
INVARIANTS LinksTypeOK VerdictsAgree
PROPERTY LinkReadsBack
CHECK_DEADLOCK FALSE
