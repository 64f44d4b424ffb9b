SPECIFICATION Spec
CONSTANTS
  quiet = quiet
  mates = mates
  draws = draws
  Players = {p1, p2}
  NoPlayer = NoPlayer
  Creator = p1
  Moves = {quiet, mates, draws}
  Outcome <- MCOutcome
  Handlers = {h1}
  MaxRevision = 3
  MaxCrashes = 2
  MaxFailures = 2
INVARIANTS
  SuccessIsDurable
  DurableWhenIdle
  TablesOneRequestApart
