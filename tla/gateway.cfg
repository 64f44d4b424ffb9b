SPECIFICATION FairSpec
CONSTANTS
  Sockets = {s1, s2}
  Requests = {r1, r2}
INVARIANTS
  TypeOK
  TimersMatchPending
  RegistryMatchesSockets
  RoomMembersKnown
PROPERTIES
  LateRepliesDropped
  KeepsPromise
  HandlersEnd
  ClosedSocketsForgotten
