SPECIFICATION Spec
CONSTANTS
  quiet = quiet
  mates = mates
  draws = draws
  Players = {p1, p2}
  NoPlayer = NoPlayer
  Moves = {mates}
  Outcome <- MCOutcome
  Handlers = {h1, h2}
  Overlapping = {"create", "join", "resume", "move", "resign", "rematch", "disconnect"}
  MaxRevision = 1
  MaxAbandoned = 0
SYMMETRY HandlerSymmetry
INVARIANTS
  TypeOK
  DatabaseCoherent
  FullRoomStarted
PROPERTIES
  CreatorKeepsWhite
  SettledGuestStays
