SPECIFICATION FairSpec
CONSTANTS
  Goals <- AllGoals
INVARIANTS
  TypeOK
  WithinBuffer
  NullsKnown
  Faithful
  Accepted
  RoundTrip
PROPERTIES
  TerminatesOrSpins
