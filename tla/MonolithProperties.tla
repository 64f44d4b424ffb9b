------------------------- MODULE MonolithProperties -------------------------
(***************************************************************************)
(* What must be true of the monolith: of the session object in memory, of  *)
(* the rows in the database, and of the one with respect to the other.     *)
(***************************************************************************)
EXTENDS Monolith, ChessView

-----------------------------------------------------------------------------
(* Types *)

QueryOk(q) ==
  \/ q.kind = "update" /\ q = Update(q.values) /\ IsGame(q.values)
  \/ /\ q.kind = "insert" /\ q = Insert(q.revision, q.move)
     /\ q.revision \in Nat \ {0} /\ q.move \in Moves
  \/ q \in {Delete, Done, Failed}

\* Every variable has its type.
TypeOK ==
  /\ IsGame(game)
  /\ IsMoveList(moveHistory)
  /\ connected \in [Colours -> BOOLEAN]
  /\ IsGame(row)
  /\ IsMoveList(moveRows)
  /\ at \in [Handlers -> Awaits \cup {"idle"}]
  /\ query = [h \in Handlers |-> query[h]]
  /\ \A h \in Handlers : QueryOk(query[h])
  /\ crashes \in Nat
  /\ failures \in 0 .. MaxFailures

-----------------------------------------------------------------------------
(* The session object and the rows *)

\* The fields of the session object agree with each other whatever requests
\* overlap and wherever the process died: position, revision, turn, result,
\* seats and rematch flags are those of one point of one game.
GameCoherent == Coherent(game)

\* The same of the row, and of every row value that a suspended saveSession has
\* already sent: the fields that an UPDATE stores are those of one point of one
\* game, never the result of one with the position of another.  It does not say
\* that a request was complete at that point (after the first save of a join a
\* full room is still waiting), nor how recent the point is.
DatabaseCoherent ==
  /\ Coherent(row)
  /\ \A h \in Handlers :
       query[h].kind = "update" => Coherent(query[h].values)

\* A game and a list of its moves that one request, stopped between its two
\* queries, may have left behind: they agree, or the list has one move more (the
\* INSERT of a move without its UPDATE), or the game is over and its list is
\* gone (the DELETE of a rematch without its UPDATE).
OneRequestApart(g, moves) ==
  \/ moves = g.fen
  \/ \E m \in Moves : moves = WithMove(g.fen, g.revision + 1, m)
  \/ g.state = "FINISHED" /\ moves = NoMoves

\* When no two requests overlap and no query has failed, the two tables are at
\* most one request apart, however often the process died and wherever: what a
\* crash between two queries leaves is never made worse by the requests that
\* follow the restart.  The check of moveService.js:163 is what keeps it so.
TablesOneRequestApart == failures = 0 => OneRequestApart(row, moveRows)

\* Until the process is restarted the move list replays to the position, even
\* when queries fail and the client is told ERROR: a game is only ever made
\* unplayable (every move refused by moveService.js:163) by a restart.
HistoryIntactUntilRestart == crashes = 0 => HistoryMatchesPosition

\* When no two requests overlap, a request that is about to answer success has
\* made the whole session durable: row and move table are what memory holds,
\* the row even if an earlier query failed.
SuccessIsDurable ==
  \A h \in Handlers :
    Continues(h, at[h]) /\ at[h] \in LastAwaits =>
      row = game /\ (failures = 0 => moveRows = moveHistory)

\* When no request is in progress and no query has failed, the database holds
\* what memory holds, so that a restart loses nothing.
DurableWhenIdle ==
  (\A h \in Handlers : IsFree(h)) /\ failures = 0 =>
    row = game /\ moveRows = moveHistory

\* A game in progress can be played on: the next legal move of the player
\* whose turn it is will pass the check of moveService.js:163.
RecoveredGamePlayable ==
  game.state = "IN_PROGRESS" => HistoryMatchesPosition

-----------------------------------------------------------------------------
(* The monolith implements ChessGame: whatever the overlap of requests, the *)
(* failed queries and the restarts, the session in memory goes through the  *)
(* moves of one chess game, and a restart goes back to a state that the     *)
(* game was in when some request saved it.                                  *)

\* The row, what is on its way to it, and what a handler is about to send.
Restorable ==
  {AsChessGame(row)} \cup
  {AsChessGame(query[h].values) : h \in {i \in Handlers : query[i].kind = "update"}}

Abstract == INSTANCE ChessGame
              WITH game <- AsChessGame(game), saved <- Restorable,
                   MaxPlies <- MaxRevision

ImplementsChessGame == Abstract!Spec

-----------------------------------------------------------------------------
(* Liveness, when nothing fails *)

\* Every request is answered.
RequestsAnswered == \A h \in Handlers : at[h] # "idle" ~> at[h] = "idle"

\* Once the second seat is taken the game starts.
SecondPlayerStartsGame ==
  game.black # NoPlayer ~> game.state # "WAITING_FOR_PLAYERS"
=============================================================================
