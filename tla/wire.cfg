SPECIFICATION FairSpec
CONSTANTS
  Inputs <- AllInputs
  None = None
  maxJumps = 5
  maxLabel = 1
INVARIANT Bounded
INVARIANT CursorBehindName
INVARIANT ReadAsMeant
INVARIANT PassedOn
INVARIANT LengthsTrue
INVARIANT LostOnlyIfCompressed
PROPERTY ReadingEnds
