SPECIFICATION OutputChecksSpec
CONSTANTS
  Profiles <- MCProfiles
  Tokens = {"(", ")", "{", "}", "if", "repeat", "end", "until", "=", "closed", "open", "escaped", "name"}
  MaxTokens = 5
  Rounds = 2
  MAX_INDENT = 2
  Listings <- MCListings
  lifted = lifted
  cleaned = cleaned
  folded = folded
  truncated = truncated
  unbalanced = unbalanced
  Empty = Empty
  Texts <- MCTexts
  score <- MCscore
  length <- MClength
  tail <- MCtail
  balanced <- MCbalanced
  valid <- MCvalid
  big <- MCbig
  Confidences = {50, 98, 100}
  MaxPassesChoices = {0, 3, 20}
  minImprovement = 1
INVARIANT BrokenNeverOutranks
CHECK_DEADLOCK FALSE
