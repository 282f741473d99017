CONSTANTS
  Names <- MCNames
  RELAYS = 8
  UINT_RANGE = 16
  MAX_COMMAND_COUNT = 2
  CRON_MAX_JOBS = 2
  JobIds = {1, 2}
  Bodies <- TwoBodies
  Clock <- MCClock
SPECIFICATION Spec
INVARIANTS
  EnabledCommandsAreScheduled
