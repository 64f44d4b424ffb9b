SPECIFICATION Spec
CONSTANTS
  quiet = quiet
  mates = mates
  draws = draws
  Players = {p1, p2}
  NoPlayer = NoPlayer
  Creator = p1
  Moves = {quiet, mates, draws}
  Outcome <- MCOutcome
  Handlers = {h1, h2}
  MaxRevision = 2
  MaxCrashes = 1
  MaxFailures = 0
SYMMETRY HandlerSymmetry
INVARIANTS
  TypeOK
  GameCoherent
  DatabaseCoherent
PROPERTY ImplementsChessGame
