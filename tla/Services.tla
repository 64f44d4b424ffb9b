------------------------------ MODULE Services ------------------------------
(***************************************************************************)
(* The session service and the game service of the decomposed backend, for *)
(* one room.  They keep nothing between requests: each request reads the   *)
(* row of games and the rows of moves into a session object of its own,    *)
(* changes that copy and writes it back, with no transaction around it.    *)
(* The services are separate processes, and each serves any number of      *)
(* requests at once.                                                       *)
(*                                                                         *)
(* A step is one query, with the code that runs on the copy before it: a   *)
(* copy is seen by its own request only.                                   *)
(***************************************************************************)
EXTENDS GameSession

CONSTANTS
  Handlers,     \* the requests that may be in progress at once
  Overlapping,  \* the kinds of request that clients send while others are
                \* in progress
  MaxRevision,  \* bound: moves in one game
  MaxAbandoned  \* bound: requests that end without an answer by a failure

Kinds == {"create", "join", "resume", "move", "resign", "rematch", "disconnect"}

ASSUME OverlappingAssumption == Overlapping \subseteq Kinds
ASSUME ServiceBoundsAssumption == MaxRevision \in Nat /\ MaxAbandoned \in Nat

VARIABLES
  row,       \* the row of the table games for the room, or NoRow
  moveRows,  \* the rows of the table moves for the game
  request,   \* the request a handler serves
  at,        \* the query it sends next, "idle" when it is free
  copy,      \* its session object
  joined,    \* history: the players who were answered GAME_JOINED
  abandoned  \* how many requests have ended by a failure

database == <<row, moveRows>>
handlers == <<request, at, copy>>
vars == <<database, handlers, joined, abandoned>>

NoRow == [state |-> "none"]

Session(g, moves) == [game |-> g, moveHistory |-> moves]
NoSession == Session(NoRow, NoMoves)

\* What a request carries that the services look at.
Request(kind, p) == [kind |-> kind, player |-> p]
MoveRequest(p, m, r) ==
  [kind |-> "move", player |-> p, move |-> m, expectedRevision |-> r]
NoRequest == Request("none", NoPlayer)

Requests ==
  {Request(k, p) : k \in Kinds \ {"move"}, p \in Players}
  \cup {MoveRequest(p, m, r) : p \in Players, m \in Moves, r \in 0 .. MaxRevision - 1}

Places == {"idle", "readGame", "readMoves", "decide", "moveSave",
           "rematchSave", "answer"}

Init ==
  /\ row = NoRow
  /\ moveRows = NoMoves
  /\ request = [h \in Handlers |-> NoRequest]
  /\ at = [h \in Handlers |-> "idle"]
  /\ copy = [h \in Handlers |-> NoSession]
  /\ joined = {}
  /\ abandoned = 0

-----------------------------------------------------------------------------
(* A request is received, reads the session, and ends. *)

IsFree(h) == at[h] = "idle"

\* Clients: only requests of the kinds Overlapping run beside each other.
MayStart(kind) ==
  \A h \in Handlers :
    IsFree(h) \/ {kind, request[h].kind} \subseteq Overlapping

Receive(h, r) ==
  /\ IsFree(h)
  /\ MayStart(r.kind)
  /\ request' = [request EXCEPT ![h] = r]
  /\ at' = [at EXCEPT ![h] = "readGame"]
  /\ UNCHANGED <<database, copy, joined, abandoned>>

\* getSession and getSessionByRoomName: the moves are not read if there is
\* no row.
ReadGame(h) ==
  /\ at[h] = "readGame"
  /\ copy' = [copy EXCEPT ![h] = Session(row, NoMoves)]
  /\ at' = [at EXCEPT ![h] = IF row = NoRow THEN "decide" ELSE "readMoves"]
  /\ UNCHANGED <<database, request, joined, abandoned>>

ReadMoves(h) ==
  /\ at[h] = "readMoves"
  /\ copy' = [copy EXCEPT ![h].moveHistory = moveRows]
  /\ at' = [at EXCEPT ![h] = "decide"]
  /\ UNCHANGED <<database, request, joined, abandoned>>

EndRequest(h) ==
  /\ at' = [at EXCEPT ![h] = "idle"]
  /\ request' = [request EXCEPT ![h] = NoRequest]
  /\ copy' = [copy EXCEPT ![h] = NoSession]

Decides(h, kind) == at[h] = "decide" /\ request[h].kind = kind
Found(h) == copy[h].game # NoRow
Player(h) == request[h].player
Seat(h) == SeatOf(copy[h].game, Player(h))

\* saveSession(session): every column of the row is overwritten.
SaveSession(h, g) ==
  /\ row' = g
  /\ copy' = [copy EXCEPT ![h].game = g]
  /\ at' = [at EXCEPT ![h] = "answer"]
  /\ UNCHANGED <<moveRows, request, joined, abandoned>>

\* createSession(session): INSERT INTO games, where room_name is UNIQUE.
InsertSession(h, g) == row = NoRow /\ SaveSession(h, g)

-----------------------------------------------------------------------------
(* The session service *)

\* Mutant: no UNIQUE constraint on room_name.
CreateAnyway(h) ==
  /\ Decides(h, "create") /\ ~ Found(h)
  /\ SaveSession(h, CreatedBy(Player(h)))

CreateGame(h) ==
  /\ Decides(h, "create") /\ ~ Found(h)
  /\ InsertSession(h, CreatedBy(Player(h)))

MayJoin(h) == Found(h) /\ CanJoinSession(copy[h].game)

\* Mutant: whoever knows the room gets the black seat.
JoinAnyRoom(h) ==
  /\ Decides(h, "join") /\ Found(h)
  /\ SaveSession(h, Started(Seated(copy[h].game, Player(h))))

\* Mutant: the game is started only by the next request.
JoinWithoutStart(h) ==
  /\ Decides(h, "join") /\ MayJoin(h)
  /\ SaveSession(h, Seated(copy[h].game, Player(h)))

JoinGame(h) ==
  /\ Decides(h, "join") /\ MayJoin(h)
  /\ SaveSession(h, Started(Seated(copy[h].game, Player(h))))

IsSeated(h) == Found(h) /\ Seat(h) # "null"

\* GAME_RESUME and DISCONNECT set a connected flag that is not a column: what
\* they store is the row they have read.
ResumeGame(h) ==
  /\ Decides(h, "resume") /\ IsSeated(h)
  /\ SaveSession(h, copy[h].game)

DisconnectPlayer(h) ==
  /\ Decides(h, "disconnect") /\ IsSeated(h)
  /\ SaveSession(h, copy[h].game)

MayResign(h) == IsSeated(h) /\ copy[h].game.state = "IN_PROGRESS"

\* Mutant: the turn is not cleared.
ResignInTurn(h) ==
  /\ Decides(h, "resign") /\ MayResign(h)
  /\ SaveSession(h, [Resigned(copy[h].game, Seat(h)) EXCEPT
                       !.turnColour = copy[h].game.turnColour])

ResignGame(h) ==
  /\ Decides(h, "resign") /\ MayResign(h)
  /\ SaveSession(h, Resigned(copy[h].game, Seat(h)))

MayAskRematch(h) == IsSeated(h) /\ copy[h].game.state = "FINISHED"

Asked(h) == RematchAsked(copy[h].game, Seat(h))

AskRematch(h) ==
  /\ Decides(h, "rematch") /\ MayAskRematch(h)
  /\ ~ BothPlayersAccepted(Asked(h))
  /\ SaveSession(h, Asked(h))

\* Mutant: the moves of the finished game are kept.
AcceptWithoutDelete(h) ==
  /\ Decides(h, "rematch") /\ MayAskRematch(h)
  /\ BothPlayersAccepted(Asked(h))
  /\ copy' = [copy EXCEPT ![h] = Session(RematchStarted(copy[h].game), NoMoves)]
  /\ at' = [at EXCEPT ![h] = "rematchSave"]
  /\ UNCHANGED <<database, request, joined, abandoned>>

\* DELETE FROM moves, then the save.
AcceptRematch(h) ==
  /\ Decides(h, "rematch") /\ MayAskRematch(h)
  /\ BothPlayersAccepted(Asked(h))
  /\ copy' = [copy EXCEPT ![h] = Session(RematchStarted(copy[h].game), NoMoves)]
  /\ moveRows' = NoMoves
  /\ at' = [at EXCEPT ![h] = "rematchSave"]
  /\ UNCHANGED <<row, request, joined, abandoned>>

SaveRematch(h) ==
  /\ at[h] = "rematchSave"
  /\ SaveSession(h, copy[h].game)

-----------------------------------------------------------------------------
(* The game service *)

MayMove(h) ==
  /\ Found(h)
  /\ CanSubmitMove(copy[h].game)
  /\ request[h].expectedRevision = copy[h].game.revision
  /\ IsPlayersTurn(copy[h].game, Player(h))
  /\ copy[h].moveHistory = copy[h].game.fen

\* Mutant: INSERT ... ON CONFLICT DO UPDATE.
NeverTaken(h) == FALSE

\* UNIQUE (game_id, revision_applied)
RevisionTaken(h) == copy[h].game.revision + 1 \in DOMAIN moveRows

\* INSERT INTO moves, then the save.
SubmitMove(h) ==
  /\ Decides(h, "move") /\ MayMove(h)
  /\ ~ RevisionTaken(h)
  /\ LET m == request[h].move
         after == Completed(Moved(copy[h].game, m), m)
     IN /\ copy' = [copy EXCEPT ![h] =
                      Session(after, WithMove(@.moveHistory, after.revision, m))]
        /\ moveRows' = WithMove(moveRows, after.revision, m)
  /\ at' = [at EXCEPT ![h] = "moveSave"]
  /\ UNCHANGED <<row, request, joined, abandoned>>

SaveMove(h) ==
  /\ at[h] = "moveSave"
  /\ SaveSession(h, copy[h].game)

-----------------------------------------------------------------------------
(* How a request ends *)

\* The reply is published.
Answer(h) ==
  /\ at[h] = "answer"
  /\ joined' = IF request[h].kind = "join" THEN joined \cup {Player(h)} ELSE joined
  /\ EndRequest(h)
  /\ UNCHANGED <<database, abandoned>>

\* A guard fails: the reply is an ERROR or MOVE_REJECTED.
Granted(h) ==
  \/ Decides(h, "create") /\ ~ Found(h)
  \/ Decides(h, "join") /\ MayJoin(h)
  \/ Decides(h, "resume") /\ IsSeated(h)
  \/ Decides(h, "disconnect") /\ IsSeated(h)
  \/ Decides(h, "resign") /\ MayResign(h)
  \/ Decides(h, "rematch") /\ MayAskRematch(h)
  \/ Decides(h, "move") /\ MayMove(h)

Refuse(h) ==
  /\ at[h] = "decide"
  /\ ~ Granted(h)
  /\ EndRequest(h)
  /\ UNCHANGED <<database, joined, abandoned>>

\* A UNIQUE constraint (room_name, or the revision of a move) fails the
\* INSERT: the exception is logged and nothing is replied.
FailInsert(h) ==
  /\ Granted(h)
  /\ \/ Decides(h, "create") /\ row # NoRow
     \/ Decides(h, "move") /\ RevisionTaken(h)
  /\ EndRequest(h)
  /\ UNCHANGED <<database, joined, abandoned>>

\* A query or the publication of the reply fails, or the service dies: what
\* the request has written stays, and nothing is replied.
Abandon(h) ==
  /\ ~ IsFree(h)
  /\ abandoned < MaxAbandoned
  /\ abandoned' = abandoned + 1
  /\ EndRequest(h)
  /\ UNCHANGED <<database, joined>>

-----------------------------------------------------------------------------
Serve(h) ==
  \/ ReadGame(h)
  \/ ReadMoves(h)
  \/ CreateGame(h)
  \/ JoinGame(h)
  \/ ResumeGame(h)
  \/ DisconnectPlayer(h)
  \/ ResignGame(h)
  \/ AskRematch(h)
  \/ AcceptRematch(h)
  \/ SaveRematch(h)
  \/ SubmitMove(h)
  \/ SaveMove(h)
  \/ Answer(h)
  \/ Refuse(h)
  \/ FailInsert(h)

Next ==
  \E h \in Handlers :
    \/ \E r \in Requests : Receive(h, r)
    \/ Serve(h)
    \/ Abandon(h)

Spec == Init /\ [][Next]_vars
=============================================================================
