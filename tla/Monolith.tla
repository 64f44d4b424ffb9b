------------------------------ MODULE Monolith ------------------------------
(***************************************************************************)
(* The monolithic server and PostgreSQL, for one game session: every       *)
(* request that reads or writes the session, cut at each `await' of a      *)
(* query.  The session object in memory is the authority; each request     *)
(* changes it at once, then persists it with one or two queries and        *)
(* answers.  Node.js runs one handler at a time between two awaits, but    *)
(* any number of requests may be suspended at an await, and their queries  *)
(* run on different connections of the pool, in any order.                 *)
(*                                                                         *)
(* A request that a guard rejects changes nothing: it is a stuttering      *)
(* step, and so is the answer a handler sends when it ends.                *)
(***************************************************************************)
EXTENDS GameSession

CONSTANTS
  Creator,      \* the player who created the room and holds the white seat
  Handlers,     \* the requests that may be in progress at once
  MaxRevision,  \* bound: moves accepted in one game
  MaxCrashes,   \* bound: times the process is killed
  MaxFailures   \* bound: queries the database connection fails

ASSUME CreatorAssumption == Creator \in Players
ASSUME BoundsAssumption ==
  MaxRevision \in Nat /\ MaxCrashes \in Nat /\ MaxFailures \in Nat

VARIABLES
  \* the session object of the map `sessions', in the memory of the process
  game,         \* the fields that are persisted
  moveHistory,  \* session.moveHistory
  connected,    \* session.players.<colour>.connected (never persisted)
  \* the database
  row,          \* the row of the table games
  moveRows,     \* the rows of the table moves
  \* the requests in progress
  at,           \* the await a handler is suspended at, "idle" when it is free
  query,        \* the query it waits for, or how that query ended
  \* how often the environment has struck
  crashes, failures

memory == <<game, moveHistory, connected>>
database == <<row, moveRows>>
requests == <<at, query>>
faults == <<crashes, failures>>
vars == <<memory, database, requests, faults>>

\* One value per `await pool.query' or `await saveSession' of a request.
SaveAwaits ==
  {"joinSeatSave", "joinStartSave", "moveSave", "resignSave", "rematchAskSave",
   "rematchSave", "resumeSave", "disconnectSave"}
Awaits == SaveAwaits \cup {"moveInsert", "rematchDelete"}

Update(g) == [kind |-> "update", values |-> g]
Insert(r, m) == [kind |-> "insert", revision |-> r, move |-> m]
Delete == [kind |-> "delete"]
Done == [kind |-> "done"]
Failed == [kind |-> "failed"]

\* mapRowToSession and mapMoveRowsToMoveHistory: nobody is connected.
NobodyConnected == [c \in Colours |-> FALSE]

Init ==
  /\ game = CreatedBy(Creator)
  /\ moveHistory = NoMoves
  /\ connected = [c \in Colours |-> c = "white"]
  /\ row = game
  /\ moveRows = NoMoves
  /\ at = [h \in Handlers |-> "idle"]
  /\ query = [h \in Handlers |-> Done]
  /\ crashes = 0
  /\ failures = 0

-----------------------------------------------------------------------------
(* How a handler runs: it starts, awaits a query, goes on when the query    *)
(* has ended, and ends.                                                     *)

IsFree(h) == at[h] = "idle"

\* The handler sends query q and is suspended at await a.
Await(h, a, q) ==
  /\ at' = [at EXCEPT ![h] = a]
  /\ query' = [query EXCEPT ![h] = q]

\* saveSession(session): the values are those of the object at the call.
SaveSession(h, a) == Await(h, a, Update(game'))

Continues(h, a) == at[h] = a /\ query[h] = Done

EndRequest(h) ==
  /\ at' = [at EXCEPT ![h] = "idle"]
  /\ query' = [query EXCEPT ![h] = Done]

-----------------------------------------------------------------------------
(* GAME_JOIN *)

JoinGame(h, p) ==
  /\ IsFree(h)
  /\ CanJoinSession(game)
  /\ game' = Seated(game, p)
  /\ connected' = [connected EXCEPT !["black"] = TRUE]
  /\ SaveSession(h, "joinSeatSave")
  /\ UNCHANGED <<moveHistory, database, faults>>

\* Mutant: the session is saved before it is set IN_PROGRESS.
StartAfterSave(h) ==
  /\ Continues(h, "joinSeatSave")
  /\ IsReadyToStart(game)
  /\ game' = Started(game)
  /\ Await(h, "joinStartSave", Update(game))
  /\ UNCHANGED <<moveHistory, connected, database, faults>>

\* Mutant: the game starts only if white is still connected.
StartWhenConnected(h) ==
  /\ Continues(h, "joinSeatSave")
  /\ connected["white"]
  /\ game' = Started(game)
  /\ SaveSession(h, "joinStartSave")
  /\ UNCHANGED <<moveHistory, connected, database, faults>>

StartGame(h) ==
  /\ Continues(h, "joinSeatSave")
  /\ IsReadyToStart(game)
  /\ game' = Started(game)
  /\ SaveSession(h, "joinStartSave")
  /\ UNCHANGED <<moveHistory, connected, database, faults>>

-----------------------------------------------------------------------------
(* MOVE_SUBMIT.  The submitted expectedRevision equals session.revision:    *)
(* any other is rejected.                                                   *)

\* Mutant: the replayed move list is not compared with the position.
HistoryNotCompared == TRUE

\* buildChessFromSessionHistory(session).fen() = session.fen
HistoryMatchesPosition == moveHistory = game.fen

SubmitMove(h, p, m) ==
  /\ IsFree(h)
  /\ CanSubmitMove(game)
  /\ IsPlayersTurn(game, p)
  /\ HistoryMatchesPosition
  /\ game.revision < MaxRevision
  /\ game' = Completed(Moved(game, m), m)
  /\ moveHistory' = WithMove(moveHistory, game'.revision, m)
  /\ Await(h, "moveInsert", Insert(game'.revision, m))
  /\ UNCHANGED <<connected, database, faults>>

\* Mutant: the move is stored but the session is not saved.
MoveWithoutSave(h) ==
  /\ Continues(h, "moveInsert")
  /\ EndRequest(h)
  /\ UNCHANGED <<memory, database, faults>>

SaveMove(h) ==
  /\ Continues(h, "moveInsert")
  /\ UNCHANGED <<memory, database, faults>>
  /\ SaveSession(h, "moveSave")

-----------------------------------------------------------------------------
(* RESIGN *)

\* Mutant: a game that has ended can be resigned.
ResignAnyGame(h, p) ==
  /\ IsFree(h)
  /\ game.black # NoPlayer /\ SeatOf(game, p) # "null"
  /\ game' = Resigned(game, SeatOf(game, p))
  /\ SaveSession(h, "resignSave")
  /\ UNCHANGED <<moveHistory, connected, database, faults>>

ResignGame(h, p) ==
  /\ IsFree(h)
  /\ game.state = "IN_PROGRESS"
  /\ SeatOf(game, p) # "null"
  /\ game' = Resigned(game, SeatOf(game, p))
  /\ SaveSession(h, "resignSave")
  /\ UNCHANGED <<moveHistory, connected, database, faults>>

-----------------------------------------------------------------------------
(* REMATCH_REQUEST *)

AskRematch(h, p) ==
  /\ IsFree(h)
  /\ game.state = "FINISHED"
  /\ SeatOf(game, p) # "null"
  /\ game' = RematchAsked(game, SeatOf(game, p))
  /\ ~ BothPlayersAccepted(game')
  /\ SaveSession(h, "rematchAskSave")
  /\ UNCHANGED <<moveHistory, connected, database, faults>>

\* The second player agrees: the object is reset before the first query.
AcceptRematch(h, p) ==
  /\ IsFree(h)
  /\ game.state = "FINISHED"
  /\ SeatOf(game, p) # "null"
  /\ BothPlayersAccepted(RematchAsked(game, SeatOf(game, p)))
  /\ game' = RematchStarted(game)
  /\ moveHistory' = NoMoves
  /\ Await(h, "rematchDelete", Delete)
  /\ UNCHANGED <<connected, database, faults>>

SaveRematch(h) ==
  /\ Continues(h, "rematchDelete")
  /\ UNCHANGED <<memory, database, faults>>
  /\ SaveSession(h, "rematchSave")

-----------------------------------------------------------------------------
(* GAME_RESUME, and a socket that disconnects *)

ResumeGame(h, p) ==
  /\ IsFree(h)
  /\ SeatOf(game, p) # "null"
  /\ connected' = [connected EXCEPT ![SeatOf(game, p)] = TRUE]
  /\ UNCHANGED <<game, moveHistory, database, faults>>
  /\ SaveSession(h, "resumeSave")

\* The socket of a seat closes; one socket holds both seats only when one
\* player does.
Disconnect(h, seats) ==
  /\ IsFree(h)
  /\ \A c \in seats : connected[c]
  /\ seats = Colours => game.white = game.black
  /\ connected' = [c \in Colours |-> connected[c] /\ c \notin seats]
  /\ UNCHANGED <<game, moveHistory, database, faults>>
  /\ SaveSession(h, "disconnectSave")

-----------------------------------------------------------------------------
(* The last query of a request has succeeded, or any query has failed: the  *)
(* handler answers and ends.                                                *)

LastAwaits == SaveAwaits \ {"joinSeatSave"}

Finish(h) ==
  /\ at[h] \in LastAwaits
  /\ query[h] = Done
  /\ EndRequest(h)
  /\ UNCHANGED <<memory, database, faults>>

\* Mutant: a failed INSERT takes the move back, but not the position.
ForgetFailedMove(h) ==
  /\ at[h] \in Awaits \ {"disconnectSave"}
  /\ query[h] = Failed
  /\ moveHistory' = IF at[h] = "moveInsert"
                    THEN [r \in DOMAIN moveHistory \ {game.revision} |-> moveHistory[r]]
                    ELSE moveHistory
  /\ EndRequest(h)
  /\ UNCHANGED <<game, connected, database, faults>>

\* Mutant: no catch block around the INSERT.
ReportFailedSave(h) ==
  /\ at[h] \in Awaits \ {"disconnectSave", "moveInsert"}
  /\ query[h] = Failed
  /\ EndRequest(h)
  /\ UNCHANGED <<memory, database, faults>>

\* The catch blocks: the client is told ERROR, the object keeps its change.
ReportFailure(h) ==
  /\ at[h] \in Awaits \ {"disconnectSave"}
  /\ query[h] = Failed
  /\ EndRequest(h)
  /\ UNCHANGED <<memory, database, faults>>

-----------------------------------------------------------------------------
(* PostgreSQL runs a pending query. *)

\* UNIQUE (game_id, revision_applied) fails an INSERT.
Violates(q) == q.kind = "insert" /\ q.revision \in DOMAIN moveRows

\* Mutant: the UPDATE leaves out the column result.
ApplyWithoutResult(q) ==
  /\ row' = IF q.kind = "update" THEN [q.values EXCEPT !.result = row.result] ELSE row
  /\ moveRows' = CASE q.kind = "insert" -> WithMove(moveRows, q.revision, q.move)
                   [] q.kind = "delete" -> NoMoves
                   [] OTHER -> moveRows

Apply(q) ==
  /\ row' = IF q.kind = "update" THEN q.values ELSE row
  /\ moveRows' = CASE q.kind = "insert" -> WithMove(moveRows, q.revision, q.move)
                   [] q.kind = "delete" -> NoMoves
                   [] OTHER -> moveRows

IsPending(h) == query[h].kind \in {"update", "insert", "delete"}

RunQuery(h) ==
  /\ IsPending(h)
  /\ \/ /\ ~ Violates(query[h])
        /\ Apply(query[h])
        /\ query' = [query EXCEPT ![h] = Done]
     \/ /\ Violates(query[h])
        /\ UNCHANGED database
        /\ query' = [query EXCEPT ![h] = Failed]
  /\ UNCHANGED <<memory, at, faults>>

\* The connection is lost, before the query ran or after.
LoseConnection(h) ==
  /\ IsPending(h)
  /\ failures < MaxFailures
  /\ failures' = failures + 1
  /\ query' = [query EXCEPT ![h] = Failed]
  /\ \/ UNCHANGED database
     \/ ~ Violates(query[h]) /\ Apply(query[h])
  /\ UNCHANGED <<memory, at, crashes>>

-----------------------------------------------------------------------------
(* The process dies and is started again: loadSessionsFromDatabase.         *)

Reload ==
  /\ game' = row
  /\ moveHistory' = moveRows
  /\ connected' = NobodyConnected
  /\ at' = [h \in Handlers |-> "idle"]
  /\ query' = [h \in Handlers |-> Done]
  /\ crashes' = crashes + 1
  /\ UNCHANGED <<database, failures>>

Crash == crashes < MaxCrashes /\ Reload

\* The disconnect handler awaits its save outside any try block: the
\* rejection is unhandled and Node.js ends the process.
DieOfUnhandledRejection(h) ==
  /\ at[h] = "disconnectSave"
  /\ query[h] = Failed
  /\ Reload

-----------------------------------------------------------------------------
Request(h) ==
  \/ \E p \in Players :
       \/ JoinGame(h, p)
       \/ \E m \in Moves : SubmitMove(h, p, m)
       \/ ResignGame(h, p)
       \/ AskRematch(h, p)
       \/ AcceptRematch(h, p)
       \/ ResumeGame(h, p)
  \/ \E seats \in SUBSET Colours \ {{}} : Disconnect(h, seats)

\* What the handler does on its own once its query has ended.
Continue(h) ==
  \/ StartGame(h)
  \/ SaveMove(h)
  \/ SaveRematch(h)
  \/ Finish(h)
  \/ ReportFailure(h)
  \/ DieOfUnhandledRejection(h)

Next ==
  \/ \E h \in Handlers :
       Request(h) \/ Continue(h) \/ RunQuery(h) \/ LoseConnection(h)
  \/ Crash

Spec == Init /\ [][Next]_vars

\* The event loop resumes every handler whose query has ended, and the
\* database answers every query.
Fairness == \A h \in Handlers : WF_vars(Continue(h)) /\ WF_vars(RunQuery(h))

FairSpec == Spec /\ Fairness
=============================================================================
