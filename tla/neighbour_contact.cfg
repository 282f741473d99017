SPECIFICATION Spec
CONSTANTS
  RELAYS = 2
  RESERVED = 1
  ContactNames <- MCNames
  ContactBodies <- MCBodies
  Durations = {1}
  PageSettings <- MCPage
PROPERTIES
  AnswerIsTheContactAsked
