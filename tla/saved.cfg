CONSTANTS
  a = a
  b = b
  x = x
  y = y
  d = d
  p = p
  q = q
  none = none
  Ids <- TwoIds
  Endpoints <- TwoEnds
  Paths <- OnePath
  Passwords <- TwoWords
  Limits = {5, 20}
  DefaultLimit = 20
  Seed <- FirstRun
  Foreign <- Swapped
  NoPassword = none
  MaxEdits = 2
  MaxKills = 2
  MaxFaults = 1
SPECIFICATION LiveSpec
INVARIANTS TypeOK
PROPERTIES SurvivesKill PasswordsKept ImportKeeps
