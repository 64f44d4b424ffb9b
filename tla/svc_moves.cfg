SPECIFICATION Spec
CONSTANTS
  quiet = quiet
  mates = mates
  draws = draws
  Players = {p1, p2}
  NoPlayer = NoPlayer
  Moves = {quiet, mates, draws}
  Outcome <- MCOutcome
  Handlers = {h1, h2}
  Overlapping = {"move"}
  MaxRevision = 2
  MaxAbandoned = 1
SYMMETRY HandlerSymmetry
INVARIANTS
  AcceptedMoveStored
  PlayableWhenQuiet
PROPERTY ImplementsChessGame
