SPECIFICATION FairSpec
CONSTANTS
  RELAYS = 2
  RESERVED = 1
  ContactNames <- MCNames
  ContactBodies <- MCBodies
  Durations = {0, 2}
  PageSettings <- MCPage
INVARIANTS
  TypeOK
  AcknowledgedIsSaved
PROPERTIES
  FallingBehindIsReported
  DefaultStatusIsDriven
  PulsesAreUndone
