SPECIFICATION FormSpec
CONSTANTS
  Names = {"lamp"}
  RELAYS = 8
  UINT_RANGE = 64
  Numbers <- MCNumbers
  DurationNumbers <- MCDurations
INVARIANTS
  AcceptedDatesFitCron
  LegalDatesAreAccepted
  FormSendsBackWhatItShows
  FormDatesAreAccepted
  EditReachesCron
PROPERTIES
  TableTellsDatesApart
