SPECIFICATION Spec
CONSTANTS
  MAX_REQUESTS = 2
  MAX_HIDES = 1
  Chains <- MCChains
  Values = {"full", "blank"}
  Blank = "blank"
  Disabling = {"blank"}
  MAX_EDITED = 1
  MAX_POLLS = 1
INVARIANTS
  ShownIsTrue
PROPERTIES
  EditsAreKept
  UpdateIsFromWhatIsShown
  SpinnerGoesAway
  PollsEnd
