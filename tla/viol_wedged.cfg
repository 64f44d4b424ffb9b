SPECIFICATION Spec
CONSTANTS
  quiet = quiet
  mates = mates
  draws = draws
  Players = {p1, p2}
  NoPlayer = NoPlayer
  Creator = p1
  Moves = {quiet}
  Outcome <- MCOutcome
  Handlers = {h1}
  MaxRevision = 1
  MaxCrashes = 1
  MaxFailures = 0
INVARIANT RecoveredGamePlayable
