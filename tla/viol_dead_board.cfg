SPECIFICATION Spec
CHECK_DEADLOCK FALSE
CONSTANTS
  alice = alice
  bob = bob
  plain = plain
  mate = mate
  Players = {alice, bob}
  NoPlayer = NoPlayer
  Moves = {plain, mate}
  Outcome <- OutcomeOf
  MaxLosses = 1
  MaxClicks = 4
  MaxInFlight = 2
  MaxRevision = 2
  MaxRematches = 1
INVARIANT DraggableIsLive
