SPECIFICATION FairSpec
CONSTANTS
  quiet = quiet
  mates = mates
  draws = draws
  Players = {p1, p2}
  NoPlayer = NoPlayer
  Creator = p1
  Moves = {quiet, mates}
  Outcome <- MCOutcome
  Handlers = {h1, h2}
  MaxRevision = 1
  MaxCrashes = 0
  MaxFailures = 0
PROPERTIES
  RequestsAnswered
  SecondPlayerStartsGame
