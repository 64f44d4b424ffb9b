------------------------- MODULE MonolithRefinement -------------------------
(***************************************************************************)
(* The monolith implements ChessGame, for any number of overlapping        *)
(* requests, crashes and lost connections: every step of a handler is a    *)
(* step of one chess game or changes nothing of it, and what a restart     *)
(* loads is a state the game was in.                                       *)
(*                                                                         *)
(* What each rule is to the chess game is proved in GameSessionProofs, for *)
(* coherent sessions, and MonolithProofs proves that the session object is *)
(* coherent.  What remains is what a restart may load: it grows by the     *)
(* current game only, because an UPDATE carries the session object as it   *)
(* is at the call of saveSession.                                          *)
(***************************************************************************)
EXTENDS MonolithProofs

-----------------------------------------------------------------------------
(* The rules as steps of the chess game *)

LEMMA SeatedJoins ==
  ASSUME MemoryGood, MemoryGood', CanJoinSession(game), NEW p \in Players,
         game' = Seated(game, p)
  PROVE  Abstract!Join(p)
BY SeatedView DEF MemoryGood, Abstract!Join

LEMMA StartedStarts ==
  ASSUME MemoryGood, MemoryGood', IsReadyToStart(game), game' = Started(game)
  PROVE  Abstract!Start
BY StartedView DEF MemoryGood, Abstract!Start

LEMMA MovedPlays ==
  ASSUME MemoryGood, MemoryGood', CanSubmitMove(game), NEW m \in Moves,
         game.revision < MaxRevision, game' = Completed(Moved(game, m), m)
  PROVE  Abstract!Play(m)
<1> DEFINE mover == Abstract!SideToMove(game.fen)
<1>1. /\ AsChessGame(game).stage = "playing"
      /\ AsChessGame(game).moves = game.fen /\ Len(game.fen) = game.revision
      /\ AsChessGame(game') =
           [AsChessGame(game) EXCEPT !.moves = Append(game.fen, m),
                                     !.stage = StageOf(game'),
                                     !.winner = WinnerOf(game')]
  BY MovedView DEF MemoryGood
<1>2. TurnAfter(game.revision) = mover
  BY <1>1 DEF TurnAfter, Abstract!SideToMove
<1> HIDE DEF mover
<1>3. /\ StageOf(game') = Abstract!StageAfter(m)
      /\ WinnerOf(game') = Abstract!WinnerAfter(m, mover)
  <2>1. CASE Outcome[m] = "none"
    <3>1. StageOf(game') = "playing" /\ WinnerOf(game') = "none"
      BY <2>1, MovedResult DEF MemoryGood
    <3>2. Abstract!StageAfter(m) = "playing"
      BY <2>1 DEF Abstract!StageAfter
    <3>3. Abstract!WinnerAfter(m, mover) = "none"
      BY <2>1 DEF Abstract!WinnerAfter
    <3> QED BY <3>1, <3>2, <3>3
  <2>2. CASE Outcome[m] = "draw"
    <3>1. StageOf(game') = "over" /\ WinnerOf(game') = "nobody"
      BY <2>2, MovedResult DEF MemoryGood
    <3>2. Abstract!StageAfter(m) = "over"
      BY <2>2 DEF Abstract!StageAfter
    <3>3. Abstract!WinnerAfter(m, mover) = "nobody"
      BY <2>2 DEF Abstract!WinnerAfter, Abstract!Nobody
    <3> QED BY <3>1, <3>2, <3>3
  <2>3. CASE Outcome[m] = "checkmate"
    <3>1. StageOf(game') = "over" /\ WinnerOf(game') = TurnAfter(game.revision)
      BY <2>3, MovedResult DEF MemoryGood
    <3>2. Abstract!StageAfter(m) = "over"
      BY <2>3 DEF Abstract!StageAfter
    <3>3. Abstract!WinnerAfter(m, mover) = mover
      BY <2>3 DEF Abstract!WinnerAfter
    <3> QED BY <3>1, <3>2, <3>3, <1>2
  <2>4. Outcome[m] \in {"none", "draw", "checkmate"}
    BY OutcomeAssumption
  <2> QED BY <2>1, <2>2, <2>3, <2>4
<1>4. AsChessGame(game') =
        [AsChessGame(game) EXCEPT !.moves = Append(game.fen, m),
                                  !.stage = Abstract!StageAfter(m),
                                  !.winner = Abstract!WinnerAfter(m, mover)]
  BY <1>1, <1>3
<1> QED BY <1>1, <1>4 DEF Abstract!Play, mover

LEMMA ResignedResigns ==
  ASSUME MemoryGood, MemoryGood', game.state = "IN_PROGRESS", NEW c \in Colours,
         game' = Resigned(game, c)
  PROVE  Abstract!Resign(c)
<1>1. Abstract!Other(c) = Opponent(c)
  BY DEF Abstract!Other, Opponent
<1>2. /\ AsChessGame(game).stage = "playing"
      /\ AsChessGame(game') =
           [AsChessGame(game) EXCEPT !.stage = "over", !.winner = Opponent(c)]
  BY ResignedView DEF MemoryGood
<1> QED BY <1>1, <1>2 DEF Abstract!Resign

LEMMA RematchAskedAsks ==
  ASSUME MemoryGood, MemoryGood', game.state = "FINISHED", NEW c \in Colours,
         game' = RematchAsked(game, c), ~ BothPlayersAccepted(game')
  PROVE  Abstract!AskRematch(c)
<1>1. Abstract!Sides = Colours
  BY DEF Abstract!Sides, Colours
<1> QED BY <1>1, RematchAskedView DEF MemoryGood, Abstract!AskRematch

LEMMA RematchStartedAgrees ==
  ASSUME MemoryGood, MemoryGood', game.state = "FINISHED", NEW c \in Colours,
         BothPlayersAccepted(RematchAsked(game, c)), game' = RematchStarted(game)
  PROVE  Abstract!AgreeRematch(c)
<1>1. Abstract!Sides = Colours
  BY DEF Abstract!Sides, Colours
<1> QED BY <1>1, RematchStartedView DEF MemoryGood, Abstract!AgreeRematch

-----------------------------------------------------------------------------
(* What a restart may load *)

\* A step in which handler h alone waits for another query, an UPDATE with the
\* session object if it is one, and in which the row is written by h's UPDATE
\* if it is.
SavesGame(h) ==
  /\ query' = [query EXCEPT ![h] = query'[h]]
  /\ query'[h].kind = "update" => query'[h].values = game'
  /\ row' # row => query[h].kind = "update" /\ row' = query[h].values

LEMMA SavesGameSaves ==
  ASSUME RequestsGood, NEW h \in Handlers, SavesGame(h)
  PROVE  Abstract!Save
<1>1. \A i \in Handlers : i # h => query'[i] = query[i]
  BY DEF RequestsGood, SavesGame
<1>2. AsChessGame(row') \in Restorable
  BY DEF SavesGame, Restorable
<1>3. ASSUME NEW i \in Handlers, query'[i].kind = "update"
      PROVE  AsChessGame(query'[i].values) \in Restorable \cup {AsChessGame(game')}
  <2>1. CASE i = h
    BY <1>3, <2>1 DEF SavesGame
  <2>2. CASE i # h
    BY <1>1, <1>3, <2>2 DEF Restorable
  <2> QED BY <2>1, <2>2
<1>4. Restorable' \subseteq Restorable \cup {AsChessGame(game')}
  BY <1>2, <1>3 DEF Restorable
<1>5. Restorable' # {}
  BY DEF Restorable
<1> QED BY <1>4, <1>5 DEF Abstract!Save

LEMMA AwaitSaves ==
  ASSUME RequestsGood, NEW h \in Handlers, NEW a, NEW q, Await(h, a, q),
         q.kind = "update" => q.values = game', row' = row
  PROVE  SavesGame(h)
<1>1. query' = [query EXCEPT ![h] = q] /\ query'[h] = q
  BY DEF RequestsGood, Await
<1> QED BY <1>1 DEF SavesGame

LEMMA SaveSessionSaves ==
  ASSUME RequestsGood, NEW h \in Handlers, NEW a, SaveSession(h, a), row' = row
  PROVE  SavesGame(h)
BY AwaitSaves DEF SaveSession, Update

LEMMA SettledSaves ==
  ASSUME RequestsGood, NEW h \in Handlers, NEW q \in {Done, Failed},
         query' = [query EXCEPT ![h] = q],
         row' # row => query[h].kind = "update" /\ row' = query[h].values
  PROVE  SavesGame(h)
<1>1. query'[h] = q /\ q.kind # "update"
  BY DEF RequestsGood, Done, Failed
<1> QED BY <1>1 DEF SavesGame

-----------------------------------------------------------------------------
(* Every step of the monolith is one of the chess game. *)

LEMMA RuleStep ==
  ASSUME Abstract!Save,
         \/ \E p \in Players : Abstract!Join(p)
         \/ Abstract!Start
         \/ \E m \in Moves : Abstract!Play(m)
         \/ \E c \in Colours : \/ Abstract!Resign(c)
                              \/ Abstract!AskRematch(c)
                              \/ Abstract!AgreeRematch(c)
         \/ game' = game
  PROVE  Abstract!Next
BY DEF Abstract!Next, Abstract!Step, Abstract!Sides, Colours

LEMMA RequestStep ==
  ASSUME IInv, IInv', NEW h \in Handlers, Request(h) PROVE Abstract!Next
<1>0. RequestsGood /\ MemoryGood /\ MemoryGood'
  BY DEF IInv
<1>1. ASSUME NEW p \in Players, JoinGame(h, p) PROVE Abstract!Next
  <2>1. Abstract!Join(p)
    BY <1>0, <1>1, SeatedJoins DEF JoinGame
  <2>2. Abstract!Save
    BY <1>0, <1>1, SaveSessionSaves, SavesGameSaves DEF JoinGame, database
  <2> QED BY <2>1, <2>2, RuleStep
<1>2. ASSUME NEW p \in Players, NEW m \in Moves, SubmitMove(h, p, m) PROVE Abstract!Next
  <2>1. Abstract!Play(m)
    BY <1>0, <1>2, MovedPlays DEF SubmitMove
  <2>2. Abstract!Save
    BY <1>0, <1>2, AwaitSaves, SavesGameSaves DEF SubmitMove, Insert, database
  <2> QED BY <2>1, <2>2, RuleStep
<1>3. ASSUME NEW p \in Players, ResignGame(h, p) PROVE Abstract!Next
  <2>1. SeatOf(game, p) \in Colours /\ Abstract!Resign(SeatOf(game, p))
    BY <1>0, <1>3, SeatOfType, ResignedResigns DEF ResignGame
  <2>2. Abstract!Save
    BY <1>0, <1>3, SaveSessionSaves, SavesGameSaves DEF ResignGame, database
  <2> QED BY <2>1, <2>2, RuleStep
<1>4. ASSUME NEW p \in Players, AskRematch(h, p) PROVE Abstract!Next
  <2>1. SeatOf(game, p) \in Colours /\ Abstract!AskRematch(SeatOf(game, p))
    BY <1>0, <1>4, SeatOfType, RematchAskedAsks DEF AskRematch
  <2>2. Abstract!Save
    BY <1>0, <1>4, SaveSessionSaves, SavesGameSaves DEF AskRematch, database
  <2> QED BY <2>1, <2>2, RuleStep
<1>5. ASSUME NEW p \in Players, AcceptRematch(h, p) PROVE Abstract!Next
  <2>1. SeatOf(game, p) \in Colours /\ Abstract!AgreeRematch(SeatOf(game, p))
    BY <1>0, <1>5, SeatOfType, RematchStartedAgrees DEF AcceptRematch
  <2>2. Abstract!Save
    BY <1>0, <1>5, AwaitSaves, SavesGameSaves DEF AcceptRematch, Delete, database
  <2> QED BY <2>1, <2>2, RuleStep
<1>6. ASSUME NEW p \in Players, ResumeGame(h, p) PROVE Abstract!Next
  <2>1. Abstract!Save
    BY <1>0, <1>6, SaveSessionSaves, SavesGameSaves DEF ResumeGame, database
  <2> QED BY <1>6, <2>1, RuleStep DEF ResumeGame
<1>7. ASSUME NEW seats \in SUBSET Colours \ {{}}, Disconnect(h, seats)
      PROVE  Abstract!Next
  <2>1. Abstract!Save
    BY <1>0, <1>7, SaveSessionSaves, SavesGameSaves DEF Disconnect, database
  <2> QED BY <1>7, <2>1, RuleStep DEF Disconnect
<1> QED BY <1>1, <1>2, <1>3, <1>4, <1>5, <1>6, <1>7 DEF Request

\* A restart loads the row and forgets every query.
LEMMA ReloadStep == ASSUME Reload PROVE Abstract!Next
<1>1. row' = row /\ game' = row
  BY DEF Reload, database
<1>2. \A h \in Handlers : query'[h].kind # "update"
  BY DEF Reload, Done
<1>3. Restorable' = {AsChessGame(row')}
  BY <1>2 DEF Restorable
<1>4. AsChessGame(row) \in Restorable
  BY DEF Restorable
<1>5. Abstract!Restart
  BY <1>1, <1>3, <1>4 DEF Abstract!Restart
<1> QED BY <1>5 DEF Abstract!Next

LEMMA ContinueStep ==
  ASSUME IInv, IInv', NEW h \in Handlers, Continue(h) PROVE Abstract!Next
<1>0. RequestsGood /\ MemoryGood /\ MemoryGood'
  BY DEF IInv
<1>1. CASE StartGame(h)
  <2>1. Abstract!Start
    BY <1>0, <1>1, StartedStarts DEF StartGame
  <2>2. Abstract!Save
    BY <1>0, <1>1, SaveSessionSaves, SavesGameSaves DEF StartGame, database
  <2> QED BY <2>1, <2>2, RuleStep
<1>2. CASE SaveMove(h)
  <2>1. Abstract!Save
    BY <1>0, <1>2, SaveSessionSaves, SavesGameSaves DEF SaveMove, database
  <2> QED BY <1>2, <2>1, RuleStep DEF SaveMove, memory
<1>3. CASE SaveRematch(h)
  <2>1. Abstract!Save
    BY <1>0, <1>3, SaveSessionSaves, SavesGameSaves DEF SaveRematch, database
  <2> QED BY <1>3, <2>1, RuleStep DEF SaveRematch, memory
<1>4. ASSUME EndRequest(h), UNCHANGED <<memory, database>> PROVE Abstract!Next
  <2>1. Abstract!Save
    BY <1>0, <1>4, SettledSaves, SavesGameSaves DEF EndRequest, database
  <2> QED BY <1>4, <2>1, RuleStep DEF memory
<1>5. CASE Finish(h) \/ ReportFailure(h)
  BY <1>4, <1>5 DEF Finish, ReportFailure
<1>6. CASE DieOfUnhandledRejection(h)
  BY <1>6, ReloadStep DEF DieOfUnhandledRejection
<1> QED BY <1>1, <1>2, <1>3, <1>5, <1>6 DEF Continue

LEMMA DatabaseStep ==
  ASSUME IInv, NEW h \in Handlers, RunQuery(h) \/ LoseConnection(h)
  PROVE  Abstract!Next
<1>1. RequestsGood /\ game' = game
  BY DEF IInv, RunQuery, LoseConnection, memory
<1>2. PICK q \in {Done, Failed} : query' = [query EXCEPT ![h] = q]
  BY DEF RunQuery, LoseConnection
<1>3. row' # row => query[h].kind = "update" /\ row' = query[h].values
  <2>1. Apply(query[h]) \/ UNCHANGED database
    BY DEF RunQuery, LoseConnection
  <2> QED BY <2>1 DEF Apply, database
<1>4. Abstract!Save
  BY <1>1, <1>2, <1>3, SettledSaves, SavesGameSaves
<1> QED BY <1>1, <1>4, RuleStep

View == <<AsChessGame(game), Restorable>>

LEMMA NextRefines ==
  IInv /\ IInv' /\ [Next]_vars => [Abstract!Next]_View
<1> SUFFICES ASSUME IInv, IInv', [Next]_vars PROVE [Abstract!Next]_View
  OBVIOUS
<1>1. ASSUME NEW h \in Handlers, Request(h) PROVE Abstract!Next
  BY <1>1, RequestStep
<1>2. ASSUME NEW h \in Handlers, Continue(h) PROVE Abstract!Next
  BY <1>2, ContinueStep
<1>3. ASSUME NEW h \in Handlers, RunQuery(h) \/ LoseConnection(h) PROVE Abstract!Next
  BY <1>3, DatabaseStep
<1>4. CASE Crash
  BY <1>4, ReloadStep DEF Crash
<1>5. CASE UNCHANGED vars
  <2>1. game' = game /\ row' = row /\ query' = query
    BY <1>5 DEF vars, memory, database, requests
  <2> QED BY <2>1 DEF View, Restorable
<1> QED BY <1>1, <1>2, <1>3, <1>4, <1>5 DEF Next

LEMMA InitRefines == Init => Abstract!Init
<1> SUFFICES ASSUME Init PROVE Abstract!Init
  OBVIOUS
<1>1. AsChessGame(game) = [stage |-> "open", guest |-> NoPlayer, moves |-> << >>,
                           winner |-> "none", wantRematch |-> {}]
  BY CreatedView DEF Init
<1>2. \A h \in Handlers : query[h].kind # "update"
  BY DEF Init, Done
<1>3. Restorable = {AsChessGame(game)}
  BY <1>2 DEF Init, Restorable
<1> QED BY <1>1, <1>3 DEF Abstract!Init

\* The monolith implements one chess game with a restart: for any players,
\* moves and bounds, however many requests overlap and whatever fails, the
\* session object goes through the moves of one chess game, and a restart goes
\* back to a state the game was in when a request saved it.
THEOREM MonolithImplementsChessGame == Spec => ImplementsChessGame
BY InitRefines, Invariance, NextRefines, PTL
DEF Spec, ImplementsChessGame, Abstract!Spec, View
=============================================================================
