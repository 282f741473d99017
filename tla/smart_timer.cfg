CONSTANTS
  Names <- MCNames
  RELAYS = 2
  UINT_RANGE = 4
  MAX_COMMAND_COUNT = 1
  CRON_MAX_JOBS = 1
  JobIds = {1}
  Bodies <- MCBodies
  Clock <- MCClock
  RESERVED = 1
  ContactNames <- MCNames
  ContactBodies <- MCContactBodies
  PageSettings <- MCPage
SPECIFICATION TimerSpec
PROPERTIES
  ContactsMoveForAReason
