SPECIFICATION Spec
CONSTANTS
  quiet = quiet
  mates = mates
  draws = draws
  Players = {p1, p2}
  NoPlayer = NoPlayer
  Moves = {quiet}
  Outcome <- MCOutcome
  Handlers = {h1, h2}
  Overlapping = {"resume", "move"}
  MaxRevision = 1
  MaxAbandoned = 0
SYMMETRY HandlerSymmetry
INVARIANT PlayableWhenQuiet
