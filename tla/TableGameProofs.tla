-------------------------- MODULE TableGameProofs --------------------------
(***************************************************************************)
(* For any number of players, moves, losses and requests: the session at   *)
(* the table goes through the steps of one chess game, and once all is     *)
(* quiet every page in the room shows it as it is.                         *)
(*                                                                         *)
(* A page in the room will show the game as it is once it has received     *)
(* what is on its way to it, unless a handler has still to announce what   *)
(* it changed.  The announcement is written from the session as it is      *)
(* then, so it does not matter in which order the handlers come to it.     *)
(***************************************************************************)
EXTENDS TableProofs

----------------------------------------------------------------------------
(* The table keeps one game of chess *)

\* A move that was sent was made at a revision below the bound.
SmallMessages ==
  Requests \cup
  {Submission(m, v) : m \in Moves, v \in {x \in Views : x.game.revision < MaxRevision}}

SmallSent == up \in [Lines -> Seq(SmallMessages)] /\ kept \in [Players -> Seq(SmallMessages)]

LEMMA InitSmall == Init => SmallSent
BY EmptySeq DEF Init, WireInit, BrowserInit, SmallSent

LEMMA SmallSentNext == ASSUME IInv, SmallSent, [Next]_vars PROVE SmallSent'
<1>1. up \in [Lines -> Seq(SmallMessages)] /\ kept \in [Players -> Seq(SmallMessages)]
  BY DEF SmallSent
<1>2. Requests \subseteq SmallMessages
  BY DEF SmallMessages
<1>3. ASSUME NEW p \in Players, NEW m \in Moves, HandlePieceDrop(p, m)
      PROVE  Submission(m, tab[p].view) \in SmallMessages
  <2>1. tab[p].view \in Views
    BY <1>3 DEF HandlePieceDrop, CanDragPieces, IInv, TabsHeld, HeldViews
  <2>2. tab[p].view.game.revision < MaxRevision
    BY <1>3 DEF HandlePieceDrop, Shown
  <2> QED BY <2>1, <2>2 DEF SmallMessages
<1>4. up' \in [Lines -> Seq(SmallMessages)] /\ kept' \in [Players -> Seq(SmallMessages)]
  BY <1>1, <1>2, <1>3, NextSent
<1>5. SmallMessages' = SmallMessages
  BY DEF SmallMessages, Requests, Submission, Views, Games
<1> QED BY <1>4, <1>5 DEF SmallSent

LEMMA AcceptedIsSmall ==
  ASSUME SmallSent, NEW s \in Lines, SubmitMove(s)
  PROVE  Head(up[s]).move \in Moves /\ Game.revision < MaxRevision
<1>1. /\ Head(up[s]) \in SmallMessages /\ Head(up[s]).type = "MOVE_SUBMIT"
      /\ Head(up[s]).expectedRevision = Game.revision
  BY HeadTailProperties
  DEF SubmitMove, Request, Receive, SmallSent, Accepts, AcceptsMove
<1>2. PICK m \in Moves, v \in Views :
        v.game.revision < MaxRevision /\ Head(up[s]) = Submission(m, v)
  BY <1>1 DEF SmallMessages, Requests
<1> QED BY <1>1, <1>2 DEF Submission

\* The session takes on game g.
Becomes(g) ==
  Exists /\ Exists' /\ session'.game = g /\ GoodGame(Game) /\ GoodGame(g)

LEMMA BecomesView ==
  ASSUME NEW g, Becomes(g)
  PROVE  TheGame = AsChessGame(Game) /\ TheGame' = AsChessGame(g)
BY DEF Becomes, TheGame, Game

LEMMA SeatedJoins ==
  ASSUME NEW p \in Players, CanJoinSession(Game), Becomes(Seated(Game, p))
  PROVE  Abstract!Join(p)
<1> DEFINE g == Seated(Game, p)
<1>1. TheGame = AsChessGame(Game) /\ TheGame' = AsChessGame(g)
  BY BecomesView
<1>2. /\ AsChessGame(Game).stage = "open"
      /\ AsChessGame(g) = [AsChessGame(Game) EXCEPT !.stage = "ready", !.guest = p]
  BY SeatedView DEF Becomes
<1> HIDE DEF g
<1> QED BY <1>1, <1>2 DEF Abstract!Join

LEMMA StartedStarts ==
  ASSUME IsReadyToStart(Game), Becomes(Started(Game))
  PROVE  Abstract!Start
<1> DEFINE g == Started(Game)
<1>1. TheGame = AsChessGame(Game) /\ TheGame' = AsChessGame(g)
  BY BecomesView
<1>2. /\ AsChessGame(Game).stage = "ready"
      /\ AsChessGame(g) = [AsChessGame(Game) EXCEPT !.stage = "playing"]
  BY StartedView DEF Becomes
<1> HIDE DEF g
<1> QED BY <1>1, <1>2 DEF Abstract!Start

LEMMA MovedPlays ==
  ASSUME NEW m \in Moves, CanSubmitMove(Game), Game.revision < MaxRevision,
         Becomes(Completed(Moved(Game, m), m))
  PROVE  Abstract!Play(m)
<1> DEFINE g == Completed(Moved(Game, m), m)
           mover == Abstract!SideToMove(Game.fen)
<1>1. TheGame = AsChessGame(Game) /\ TheGame' = AsChessGame(g)
  BY BecomesView
<1>2. GoodGame(Game) /\ GoodGame(g) /\ g = Completed(Moved(Game, m), m)
  BY DEF Becomes
<1> HIDE DEF g
<1>3. /\ AsChessGame(Game).stage = "playing"
      /\ AsChessGame(Game).moves = Game.fen /\ Len(Game.fen) = Game.revision
      /\ AsChessGame(g) =
           [AsChessGame(Game) EXCEPT !.moves = Append(Game.fen, m), !.stage = StageOf(g),
                                     !.winner = WinnerOf(g)]
  BY <1>2, MovedView
<1>4. TurnAfter(Game.revision) = mover
  BY <1>3 DEF TurnAfter, Abstract!SideToMove
<1> HIDE DEF mover
<1>5. StageOf(g) = Abstract!StageAfter(m) /\ WinnerOf(g) = Abstract!WinnerAfter(m, mover)
  <2>1. CASE Outcome[m] = "none"
    <3>1. StageOf(g) = "playing" /\ WinnerOf(g) = "none"
      BY <1>2, <2>1, MovedResult
    <3>2. Abstract!StageAfter(m) = "playing"
      BY <2>1 DEF Abstract!StageAfter
    <3>3. Abstract!WinnerAfter(m, mover) = "none"
      BY <2>1 DEF Abstract!WinnerAfter
    <3> QED BY <3>1, <3>2, <3>3
  <2>2. CASE Outcome[m] = "draw"
    <3>1. StageOf(g) = "over" /\ WinnerOf(g) = "nobody"
      BY <1>2, <2>2, MovedResult
    <3>2. Abstract!StageAfter(m) = "over"
      BY <2>2 DEF Abstract!StageAfter
    <3>3. Abstract!WinnerAfter(m, mover) = "nobody"
      BY <2>2 DEF Abstract!WinnerAfter, Abstract!Nobody
    <3> QED BY <3>1, <3>2, <3>3
  <2>3. CASE Outcome[m] = "checkmate"
    <3>1. StageOf(g) = "over" /\ WinnerOf(g) = mover
      BY <1>2, <1>4, <2>3, MovedResult
    <3>2. Abstract!StageAfter(m) = "over"
      BY <2>3 DEF Abstract!StageAfter
    <3>3. Abstract!WinnerAfter(m, mover) = mover
      BY <2>3 DEF Abstract!WinnerAfter
    <3> QED BY <3>1, <3>2, <3>3
  <2> QED BY <2>1, <2>2, <2>3, OutcomeAssumption
<1>6. AsChessGame(g) =
        [AsChessGame(Game) EXCEPT !.moves = Append(Game.fen, m),
                                  !.stage = Abstract!StageAfter(m),
                                  !.winner = Abstract!WinnerAfter(m, mover)]
  BY <1>3, <1>5
<1> QED BY <1>1, <1>3, <1>6 DEF Abstract!Play, mover

LEMMA ResignedResigns ==
  ASSUME NEW c \in Colours, Game.state = "IN_PROGRESS", Becomes(Resigned(Game, c))
  PROVE  Abstract!Resign(c)
<1> DEFINE g == Resigned(Game, c)
<1>1. TheGame = AsChessGame(Game) /\ TheGame' = AsChessGame(g)
  BY BecomesView
<1>2. /\ AsChessGame(Game).stage = "playing"
      /\ AsChessGame(g) =
           [AsChessGame(Game) EXCEPT !.stage = "over", !.winner = Opponent(c)]
  BY ResignedView DEF Becomes
<1>3. Abstract!Other(c) = Opponent(c)
  BY DEF Abstract!Other, Opponent
<1> HIDE DEF g
<1> QED BY <1>1, <1>2, <1>3 DEF Abstract!Resign

LEMMA RematchAskedAsks ==
  ASSUME NEW c \in Colours, Game.state = "FINISHED", Becomes(RematchAsked(Game, c)),
         ~ BothPlayersAccepted(RematchAsked(Game, c))
  PROVE  Abstract!AskRematch(c)
<1> DEFINE g == RematchAsked(Game, c)
<1>1. TheGame = AsChessGame(Game) /\ TheGame' = AsChessGame(g)
  BY BecomesView
<1>2. /\ AsChessGame(Game).stage = "over"
      /\ AsChessGame(Game).wantRematch \cup {c} # Colours
      /\ AsChessGame(g) =
           [AsChessGame(Game) EXCEPT
              !.wantRematch = AsChessGame(Game).wantRematch \cup {c}]
  BY RematchAskedView DEF Becomes
<1>3. Abstract!Sides = Colours
  BY DEF Abstract!Sides, Colours
<1> HIDE DEF g
<1> QED BY <1>1, <1>2, <1>3 DEF Abstract!AskRematch

LEMMA RematchStartedAgrees ==
  ASSUME NEW c \in Colours, Game.state = "FINISHED", Becomes(RematchStarted(Game)),
         BothPlayersAccepted(RematchAsked(Game, c))
  PROVE  Abstract!AgreeRematch(c)
<1> DEFINE g == RematchStarted(Game)
<1>1. TheGame = AsChessGame(Game) /\ TheGame' = AsChessGame(g)
  BY BecomesView
<1>2. /\ AsChessGame(Game).stage = "over"
      /\ AsChessGame(Game).wantRematch \cup {c} = Colours
      /\ AsChessGame(g) =
           [AsChessGame(Game) EXCEPT !.stage = "playing", !.moves = << >>,
                                     !.winner = "none", !.wantRematch = {}]
  BY RematchStartedView DEF Becomes
<1>3. Abstract!Sides = Colours
  BY DEF Abstract!Sides, Colours
<1> HIDE DEF g
<1> QED BY <1>1, <1>2, <1>3 DEF Abstract!AgreeRematch

\* The game that is in memory is all that a step may bring back.
LEMMA SavedGame == Abstract!Save
BY DEF Abstract!Save

LEMMA SameGameStutters ==
  ASSUME Exists' <=> Exists, Exists => session'.game = session.game
  PROVE  UNCHANGED TheGame
BY DEF TheGame, Game

GameStep == Abstract!Step \/ UNCHANGED TheGame

LEMMA HandlerPlays ==
  ASSUME IInv, SmallSent, NEW s \in Lines, Handler(s)
  PROVE  GameStep
<1>1. CASE Hello(s) \/ CreateGame(s) \/ Refuse(s)
  <2>1. session' = session
    BY <1>1 DEF Hello, CreateGame, Refuse, server
  <2> QED BY <2>1 DEF GameStep, TheGame, Exists, Game
<1>2. CASE JoinGame(s)
  <2> DEFINE g == Seated(Game, PlayerOf(s))
  <2>1. Exists /\ CanJoinSession(Game) /\ PlayerOf(s) \in Players
    BY <1>2, LinesAreLines DEF JoinGame, Request, Accepts
  <2>2. GoodGame(Game) /\ GoodGame(g) /\ Exists'
    BY <1>2, <2>1, SessionShape, SeatedGood, JoinGameForward DEF IInv, Game
  <2>3. session'.game = g
    BY <1>2, <2>1, SessionShape DEF IInv, JoinGame, Game
  <2>4. Becomes(g)
    BY <2>1, <2>2, <2>3 DEF Becomes
  <2>5. Abstract!Join(PlayerOf(s))
    BY <2>1, <2>4, SeatedJoins
  <2> QED BY <2>1, <2>5, SavedGame DEF GameStep, Abstract!Step
<1>3. CASE ResumeGame(s)
  <2>1. Exists /\ Exists'
    BY <1>3, ResumeGameForward DEF IInv
  <2>2. session'.game = session.game
    BY <1>3, <2>1, SessionShape DEF IInv, ResumeGame
  <2> QED BY <2>1, <2>2, SameGameStutters DEF GameStep
<1>4. CASE SubmitMove(s)
  <2> DEFINE m == Head(up[s]).move
             g == Completed(Moved(Game, m), m)
  <2>1. Exists /\ CanSubmitMove(Game) /\ m \in Moves /\ Game.revision < MaxRevision
    BY <1>4, AcceptedIsSmall DEF SubmitMove, Request, Accepts, AcceptsMove
  <2>2. GoodGame(Game) /\ GoodGame(g) /\ Exists'
    BY <1>4, <2>1, SessionShape, CompletedGood, SubmitMoveForward DEF IInv, Game
  <2>3. session'.game = g
    BY <1>4, <2>1, SessionShape DEF IInv, SubmitMove, Game
  <2>4. Becomes(g)
    BY <2>1, <2>2, <2>3 DEF Becomes
  <2> HIDE DEF m
  <2>5. Abstract!Play(m)
    BY <2>1, <2>4, MovedPlays
  <2> QED BY <2>1, <2>5, SavedGame DEF GameStep, Abstract!Step
<1>5. CASE ResignGame(s)
  <2> DEFINE c == SeatOf(Game, PlayerOf(s))
             g == Resigned(Game, c)
  <2>1. Exists /\ c \in Colours /\ Game.state = "IN_PROGRESS"
    BY <1>5, SeatOfType DEF ResignGame, Request, Accepts
  <2>2. GoodGame(Game) /\ GoodGame(g) /\ Exists'
    BY <1>5, <2>1, SessionShape, ResignedGood, ResignGameForward DEF IInv, Game
  <2>3. session'.game = g
    BY <1>5, <2>1, SessionShape DEF IInv, ResignGame, Game
  <2>4. Becomes(g)
    BY <2>1, <2>2, <2>3 DEF Becomes
  <2> HIDE DEF c
  <2>5. Abstract!Resign(c)
    BY <2>1, <2>4, ResignedResigns
  <2> QED BY <2>1, <2>5, SavedGame DEF GameStep, Abstract!Step, Abstract!Sides, Colours
<1>6. CASE RequestRematch(s)
  <2> DEFINE c == SeatOf(Game, PlayerOf(s))
             asked == RematchAsked(Game, c)
             again == RematchStarted(Game)
  <2>1. Exists /\ c \in Colours /\ Game.state = "FINISHED" /\ Exists'
    BY <1>6, SeatOfType, RequestRematchForward DEF IInv, RequestRematch, Request, Accepts
  <2>2. GoodGame(Game) /\ GoodGame(again)
    BY <2>1, SessionShape, RematchStartedGood DEF IInv, Game
  <2>3. CASE ~ BothPlayersAccepted(asked)
    <3>1. session'.game = asked
      BY <1>6, <2>1, <2>3, SessionShape DEF IInv, RequestRematch, Game
    <3>2. Becomes(asked)
      BY <2>1, <2>2, <2>3, <3>1, RematchAskedGood DEF Becomes
    <3> HIDE DEF c
    <3>3. Abstract!AskRematch(c)
      BY <2>1, <2>3, <3>2, RematchAskedAsks
    <3> QED BY <2>1, <3>3, SavedGame DEF GameStep, Abstract!Step, Abstract!Sides, Colours
  <2>4. CASE BothPlayersAccepted(asked)
    <3>1. session'.game = again
      BY <1>6, <2>1, <2>4, SessionShape DEF IInv, RequestRematch, Game
    <3>2. Becomes(again)
      BY <2>1, <2>2, <3>1 DEF Becomes
    <3> HIDE DEF c
    <3>3. Abstract!AgreeRematch(c)
      BY <2>1, <2>4, <3>2, RematchStartedAgrees
    <3> QED BY <2>1, <3>3, SavedGame DEF GameStep, Abstract!Step, Abstract!Sides, Colours
  <2> QED BY <2>3, <2>4
<1> QED BY <1>1, <1>2, <1>3, <1>4, <1>5, <1>6 DEF Handler

LEMMA ContinuationPlays ==
  ASSUME IInv, NEW s \in Lines, Continuation(s)
  PROVE  GameStep
<1>1. CASE session' = session
  BY <1>1 DEF GameStep, TheGame, Exists, Game
<1>2. CASE CreateSession(s)
  <2>1. ~ Exists /\ Exists' /\ session'.game = CreatedBy(PlayerOf(s))
    BY <1>2, CreateSessionGood DEF CreateSession
  <2> QED BY <2>1, CreatedView DEF GameStep, TheGame, Game
<1>3. CASE StartGame(s)
  <2>1. Exists /\ Exists' /\ GoodGame(Game)
    BY <1>3, StartGameForward, SessionShape
    DEF StartGame, IInv, WaitingKnown, Continuations, Game
  <2>2. CASE IsReadyToStart(Game)
    <3>1. session'.game = Started(Game)
      BY <1>3, <2>1, <2>2, SessionShape DEF IInv, StartGame, Game
    <3>2. Becomes(Started(Game))
      BY <2>1, <2>2, <3>1, StartedGood DEF Becomes
    <3> QED BY <2>2, <3>2, StartedStarts, SavedGame DEF GameStep, Abstract!Step
  <2>3. CASE ~ IsReadyToStart(Game)
    <3>1. session'.game = session.game
      BY <1>3, <2>1, <2>3, SessionShape DEF IInv, StartGame, Game
    <3> QED BY <2>1, <3>1, SameGameStutters DEF GameStep
  <2> QED BY <2>2, <2>3
<1> QED BY <1>1, <1>2, <1>3
        DEF Continuation, FailToCreate, AnswerJoin, AnswerMove, AnswerResign,
            AnswerRematchStatus, AnswerRematchStart, AnswerResume, ReportDisconnect

LEMMA DisconnectStutters ==
  ASSUME IInv, NEW s \in Lines, HandleDisconnect(s)
  PROVE  UNCHANGED TheGame
<1>1. CASE session' = session
  BY <1>1, SameGameStutters DEF Exists
<1>2. CASE session' = SocketDisconnected(session, s) /\ \E c \in Colours : session.seat[c] = s
  <2>1. Exists
    BY <1>2, LinesAreLines DEF Exists, NoSession, Colours
  <2>2. Exists'
    BY <2>1, DisconnectForward DEF IInv
  <2>3. session'.game = session.game
    BY <1>2, <2>1, SessionShape DEF IInv, SocketDisconnected
  <2> QED BY <2>1, <2>2, <2>3, SameGameStutters
<1> QED BY <1>1, <1>2 DEF HandleDisconnect

LEMMA NextPlays ==
  ASSUME IInv, SmallSent, [Next]_vars
  PROVE  GameStep
<1>1. ASSUME session' = session PROVE GameStep
  BY <1>1 DEF GameStep, TheGame, Exists, Game
<1>2. CASE UNCHANGED vars
  BY <1>1, <1>2 DEF vars, server
<1>3. ASSUME NEW p \in Players, Open(p) \/ Page(p) PROVE GameStep
  BY <1>1, <1>3 DEF Open, RegisterSocket, Page, server
<1>4. ASSUME NEW s \in Lines, Serve(s) PROVE GameStep
  BY <1>4, HandlerPlays, ContinuationPlays, DisconnectStutters DEF Serve, GameStep
<1> QED BY <1>2, <1>3, <1>4 DEF Next

LEMMA InitGame == Init => Abstract!Init
BY DEF Init, ServerInit, TheGame, Exists, Abstract!Init

LEMMA SmallInductive == Spec => []SmallSent
<1>1. IInv /\ SmallSent /\ [Next]_vars => SmallSent'
  BY SmallSentNext
<1> QED BY <1>1, InitSmall, Inductive, PTL DEF Spec

\* Every step of the table is one of the chess game or leaves the game alone: no
\* message that comes twice, late or over an old line takes the session out of
\* the rules (the handlers of the monolith and of the page).
THEOREM AlwaysOneChessGame == Spec => OneChessGame
<1>1. IInv /\ SmallSent /\ [Next]_vars => [Abstract!Next]_TheGame
  BY NextPlays DEF GameStep, Abstract!Next
<1> QED BY <1>1, Inductive, SmallInductive, PTL DEF Spec, OneChessGame

\* The table implements the chess game: it also begins as one.
THEOREM TableImplementsChessGame == Spec => Abstract!Spec
<1>1. IInv /\ SmallSent /\ [Next]_vars => [Abstract!Next]_<<TheGame, {TheGame}>>
  BY NextPlays DEF GameStep, Abstract!Next
<1> QED BY <1>1, InitGame, Inductive, SmallInductive, PTL DEF Spec, Abstract!Spec

-----------------------------------------------------------------------------
(* What a page will show: the inductive invariant *)

\* What the handlers await that will send the whole game to the room.
StateKinds == {"seat", "start", "move", "resign", "restart", "disconnect"}

StatePending == \E s \in Lines : \E k \in StateKinds : waiting[s][k] > 0

\* The handlers that will send the consents alone.
ConsentPending == \E s \in Lines : waiting[s]["status"] > 0

\* What REMATCH_STATUS leaves as it is.
GameFields == {"state", "revision", "fen", "turnColour", "result", "white", "black"}

SameGame(v, w) ==
  /\ v.number = w.number
  /\ \A f \in GameFields : v.game[f] = w.game[f]

\* The tab will show the game, but perhaps not its consents, when it has received
\* what is on its way.
WillShowGame(s) ==
  \/ \E i \in 1 .. Len(down[s]) :
       /\ down[s][i].type = "STATE"
       /\ SameGame(down[s][i].view, session)
       /\ \A j \in 1 .. Len(down[s]) : j > i => down[s][j].type # "STATE"
  \/ /\ \A i \in 1 .. Len(down[s]) : down[s][i].type # "STATE"
     /\ HasView(s[1])
     /\ SameGame(tab[s[1]].view, session)

Consents(msg) == IF msg.type = "STATE" THEN msg.view.game.rematch ELSE msg.rematch

\* The tab will show the consents, if it shows a game.
WillShowConsents(s) ==
  \/ \E i \in 1 .. Len(down[s]) :
       /\ down[s][i].type # "WELCOME"
       /\ Consents(down[s][i]) = Game.rematch
       /\ \A j \in 1 .. Len(down[s]) : j > i => down[s][j].type = "WELCOME"
  \/ /\ \A i \in 1 .. Len(down[s]) : down[s][i].type = "WELCOME"
     /\ HasView(s[1])
     /\ tab[s[1]].view.game.rematch = Game.rematch

\* The connections the server reaches through the room.
Reached == {s \in room : here[s] = "open"}

\* Only the last connection of a tab can be open on its side.
LastLineOpen == \A s \in Lines : here[s] = "open" => s[2] = tab[s[1]].line

RoomKnown ==
  /\ \A s \in room : there[s] = "open"
  /\ room # {} => Exists

Announced ==
  /\ StatePending \/ \A s \in Reached : WillShowGame(s)
  /\ StatePending \/ ConsentPending \/ \A s \in Reached : WillShowConsents(s)

VInv == LastLineOpen /\ RoomKnown /\ Announced

-----------------------------------------------------------------------------
(* The lines and the room *)

LEMMA InitVInv == Init => VInv
<1> SUFFICES ASSUME Init PROVE VInv
  OBVIOUS
<1> USE DEF Init
<1>1. LastLineOpen
  BY DEF WireInit, LastLineOpen
<1>2. RoomKnown /\ Reached = {}
  BY DEF ServerInit, RoomKnown, Reached
<1> QED BY <1>1, <1>2 DEF VInv, Announced

\* An open connection is the last one of its tab.
LEMMA OpenIsLast ==
  ASSUME IInv, LastLineOpen, NEW s \in Lines, here[s] = "open"
  PROVE  s[1] \in Players /\ s = LineOf(s[1]) /\ Connected(s[1])
<1>1. s[1] \in Players /\ s[2] \in Nat /\ s[2] > 0 /\ s = <<s[1], s[2]>>
  BY MaxLossesAssumption DEF Lines
<1>2. s[2] = tab[s[1]].line
  BY DEF LastLineOpen
<1> QED BY <1>1, <1>2 DEF LineOf, Connected

LEMMA LastLineOpenNext == ASSUME IInv, LastLineOpen, [Next]_vars PROVE LastLineOpen'
<1> SUFFICES ASSUME NEW s \in Lines, here'[s] = "open" PROVE s[2] = tab'[s[1]].line
  BY DEF LastLineOpen
<1>0. s[1] \in Players
  BY LinesAreLines
<1>1. ASSUME NEW p \in Players, Open(p) PROVE s[2] = tab'[s[1]].line
  <2>1. PICK f \in Lines : /\ f = <<p, tab[p].line + 1>>
                           /\ here' = [here EXCEPT ![f] = "open"]
    BY <1>1, OpenedLine
  <2>2. CASE s = f
    BY <1>1, <2>1, <2>2, OpenTabs
  <2>3. CASE s # f
    <3>1. here[s] = "open"
      BY <2>1, <2>3
    <3>2. s = LineOf(s[1]) /\ Connected(s[1])
      BY <3>1, OpenIsLast
    <3>3. s[1] # p
      BY <1>1, <3>2 DEF Open, Connect
    <3>4. tab'[s[1]] = tab[s[1]]
      BY <1>0, <1>1, <3>3, OpenTabs
    <3> QED BY <3>1, <3>4 DEF LastLineOpen
  <2> QED BY <2>2, <2>3
<1>2. ASSUME ~ \E p \in Players : Open(p) PROVE s[2] = tab'[s[1]].line
  <2>1. here[s] = "open"
    BY <1>2, NextEnds DEF IInv, WiresHeld, LineStates, HandleDisconnect, CloseThere
  <2>2. tab'[s[1]].line = tab[s[1]].line
    BY <1>0, <1>2, TabLines
  <2> QED BY <2>1, <2>2 DEF LastLineOpen
<1> QED BY <1>1, <1>2

\* What a step does to the room: a socket whose end at the server is open enters it,
\* or one whose end closes leaves it.
LEMMA NextRoom ==
  ASSUME IInv, [Next]_vars
  PROVE  \/ room' = room
         \/ \E s \in Lines : /\ EnterRoom(s) /\ there' = there /\ Exists'
         \/ \E s \in Lines : HandleDisconnect(s)
<1>1. CASE UNCHANGED vars
  BY <1>1 DEF vars, server
<1>2. ASSUME NEW p \in Players, Open(p) \/ Page(p) PROVE room' = room
  BY <1>2, OpenedLine DEF Page, server
<1>3. ASSUME NEW s \in Lines, Handler(s) PROVE room' = room
  BY <1>3 DEF Handler, Hello, CreateGame, JoinGame, ResumeGame, SubmitMove, ResignGame,
              RequestRematch, Refuse, Request, server
<1>4. ASSUME NEW s \in Lines, Continuation(s)
      PROVE  room' = room \/ (EnterRoom(s) /\ there' = there /\ Exists')
  <2>1. CASE CreateSession(s)
    <3>1. Exists'
      BY <2>1, CreateSessionGood
    <3> QED BY <2>1, <3>1 DEF CreateSession, Emit
  <2>2. CASE AnswerJoin(s) \/ AnswerResume(s)
    <3>1. Exists
      BY <2>2 DEF AnswerJoin, AnswerResume, Return, IInv, WaitingKnown, Continuations
    <3>2. Exists'
      BY <3>1, NextForward DEF Forward
    <3> QED BY <2>2, <3>2 DEF AnswerJoin, AnswerResume, Emit
  <2> QED BY <1>4, <2>1, <2>2
          DEF Continuation, FailToCreate, StartGame, AnswerMove, AnswerResign,
              AnswerRematchStatus, AnswerRematchStart, ReportDisconnect
<1> QED BY <1>1, <1>2, <1>3, <1>4 DEF Next, Serve

LEMMA RoomKnownNext == ASSUME IInv, RoomKnown, [Next]_vars PROVE RoomKnown'
<1>1. Exists => Exists'
  BY NextForward DEF Forward
<1>2. room \subseteq Lines /\ there \in LineStates
  BY DEF IInv, ServerTyped, WiresHeld
<1>3. ASSUME NEW s \in Lines, HandleDisconnect(s) PROVE RoomKnown'
  <2>1. room' = room \ {s} /\ there' = [there EXCEPT ![s] = "closed"]
    BY <1>3 DEF HandleDisconnect, CloseThere
  <2> QED BY <1>1, <1>2, <2>1 DEF RoomKnown, LineStates
<1>4. ASSUME NEW s \in Lines, EnterRoom(s), there' = there, Exists' PROVE RoomKnown'
  BY <1>4 DEF RoomKnown, EnterRoom
<1>5. ASSUME room' = room, ~ \E s \in Lines : HandleDisconnect(s) PROVE RoomKnown'
  <2>1. \A s \in room : there'[s] = "open"
    <3>1. CASE there' = there
      BY <3>1 DEF RoomKnown
    <3>2. ASSUME NEW p \in Players, Open(p) PROVE \A s \in room : there'[s] = "open"
      BY <1>2, <3>2, OpenedLine DEF RoomKnown, LineStates
    <3> QED BY <1>5, <3>1, <3>2, NextEnds
  <2> QED BY <1>1, <1>5, <2>1 DEF RoomKnown
<1> QED BY <1>3, <1>4, <1>5, NextRoom

-----------------------------------------------------------------------------
(* The announcements that are still to come *)

PendingKept ==
  /\ StatePending => StatePending'
  /\ ConsentPending => ConsentPending'

LEMMA KindsAreContinuations ==
  StateKinds \subseteq Continuations /\ "status" \in Continuations
BY DEF StateKinds, Continuations

LEMMA SameWaiting == ASSUME waiting' = waiting PROVE PendingKept
BY DEF PendingKept, StatePending, ConsentPending

LEMMA SuspendPends ==
  ASSUME IInv, NEW s \in Lines, NEW k \in Continuations, Suspend(s, k)
  PROVE  /\ PendingKept
         /\ k \in StateKinds => StatePending'
         /\ k = "status" => ConsentPending'
<1>1. /\ waiting'[s][k] > 0
      /\ \A x \in Lines, j \in Continuations : waiting[x][j] > 0 => waiting'[x][j] > 0
  BY SuspendAdds DEF IInv
<1>2. StatePending => StatePending'
  BY <1>1, KindsAreContinuations DEF StatePending
<1>3. ConsentPending => ConsentPending'
  BY <1>1, KindsAreContinuations DEF ConsentPending
<1>4. k \in StateKinds => StatePending'
  BY <1>1 DEF StatePending
<1>5. k = "status" => ConsentPending'
  BY <1>1 DEF ConsentPending
<1> QED BY <1>2, <1>3, <1>4, <1>5 DEF PendingKept

\* A handler that returns leaves the others waiting.
LEMMA ReturnPends ==
  ASSUME IInv, NEW s \in Lines, NEW k \in Continuations, Return(s, k)
  PROVE  /\ k \notin StateKinds => (StatePending => StatePending')
         /\ k # "status" => (ConsentPending => ConsentPending')
<1>1. \A x \in Lines, j \in Continuations :
        x # s \/ j # k => waiting'[x][j] = waiting[x][j]
  BY DEF Return, IInv, ServerTyped
<1>2. k \notin StateKinds => (StatePending => StatePending')
  BY <1>1, KindsAreContinuations DEF StatePending
<1>3. k # "status" => (ConsentPending => ConsentPending')
  BY <1>1, KindsAreContinuations DEF ConsentPending
<1> QED BY <1>2, <1>3

LEMMA StartGamePends == ASSUME IInv, NEW s \in Lines, StartGame(s) PROVE StatePending'
<1>1. waiting'[s]["start"] > 0
  BY DEF StartGame, IInv, ServerTyped, Continuations
<1> QED BY <1>1 DEF StatePending, StateKinds

-----------------------------------------------------------------------------
(* What a tab will show *)

\* The step leaves what the tab of s will show: its page, what is on its way, and
\* maybe one more message that does not count.
LEMMA GameStillShown ==
  ASSUME IInv, NEW s \in Lines, WillShowGame(s), SameGame(session', session),
         tab'[s[1]].view = tab[s[1]].view,
         \/ down'[s] = down[s]
         \/ \E to, msg : msg.type # "STATE" /\ down' = Emitted(to, msg)
  PROVE  WillShowGame(s)'
<1>1. \A v : SameGame(v, session) => SameGame(v, session')
  BY DEF SameGame
<1>2. CASE down'[s] = down[s]
  BY <1>1, <1>2 DEF WillShowGame, HasView
<1>3. ASSUME NEW to, NEW msg, msg.type # "STATE", down' = Emitted(to, msg),
             down'[s] # down[s]
      PROVE  WillShowGame(s)'
  <2>1. /\ Len(down[s]) \in Nat /\ Len(down'[s]) = Len(down[s]) + 1
        /\ down'[s][Len(down[s]) + 1] = msg
        /\ \A i \in 1 .. Len(down[s]) : down'[s][i] = down[s][i]
    BY <1>3, EmittedOn
  <2>2. \A i \in 1 .. Len(down'[s]) : \/ i = Len(down[s]) + 1
                                      \/ i \in 1 .. Len(down[s])
    BY <2>1
  <2>3. ASSUME NEW i \in 1 .. Len(down[s]), down[s][i].type = "STATE",
               SameGame(down[s][i].view, session),
               \A j \in 1 .. Len(down[s]) : j > i => down[s][j].type # "STATE"
        PROVE  WillShowGame(s)'
    <3>1. i \in 1 .. Len(down'[s]) /\ down'[s][i] = down[s][i]
      BY <2>1
    <3>2. \A j \in 1 .. Len(down'[s]) : j > i => down'[s][j].type # "STATE"
      BY <1>3, <2>1, <2>2, <2>3
    <3> QED BY <1>1, <2>3, <3>1, <3>2 DEF WillShowGame
  <2>4. ASSUME \A i \in 1 .. Len(down[s]) : down[s][i].type # "STATE", HasView(s[1]),
               SameGame(tab[s[1]].view, session)
        PROVE  WillShowGame(s)'
    <3>1. \A i \in 1 .. Len(down'[s]) : down'[s][i].type # "STATE"
      BY <1>3, <2>1, <2>2, <2>4
    <3> QED BY <1>1, <2>4, <3>1 DEF WillShowGame, HasView
  <2> QED BY <2>3, <2>4 DEF WillShowGame
<1> QED BY <1>2, <1>3

LEMMA ConsentsStillShown ==
  ASSUME IInv, NEW s \in Lines, WillShowConsents(s),
         session'.game.rematch = session.game.rematch,
         tab'[s[1]].view = tab[s[1]].view,
         \/ down'[s] = down[s]
         \/ \E to : down' = Emitted(to, [type |-> "WELCOME"])
  PROVE  WillShowConsents(s)'
<1>1. Game'.rematch = Game.rematch
  BY DEF Game
<1>2. CASE down'[s] = down[s]
  BY <1>1, <1>2 DEF WillShowConsents, HasView, Consents
<1>3. ASSUME NEW to, down' = Emitted(to, [type |-> "WELCOME"]), down'[s] # down[s]
      PROVE  WillShowConsents(s)'
  <2>1. /\ Len(down[s]) \in Nat /\ Len(down'[s]) = Len(down[s]) + 1
        /\ down'[s][Len(down[s]) + 1].type = "WELCOME"
        /\ \A i \in 1 .. Len(down[s]) : down'[s][i] = down[s][i]
    BY <1>3, EmittedOn
  <2>2. \A i \in 1 .. Len(down'[s]) : \/ i = Len(down[s]) + 1
                                      \/ i \in 1 .. Len(down[s])
    BY <2>1
  <2>3. ASSUME NEW i \in 1 .. Len(down[s]), down[s][i].type # "WELCOME",
               Consents(down[s][i]) = Game.rematch,
               \A j \in 1 .. Len(down[s]) : j > i => down[s][j].type = "WELCOME"
        PROVE  WillShowConsents(s)'
    <3>1. i \in 1 .. Len(down'[s]) /\ down'[s][i] = down[s][i]
      BY <2>1
    <3>2. \A j \in 1 .. Len(down'[s]) : j > i => down'[s][j].type = "WELCOME"
      BY <2>1, <2>2, <2>3
    <3> QED BY <1>1, <2>3, <3>1, <3>2 DEF WillShowConsents
  <2>4. ASSUME \A i \in 1 .. Len(down[s]) : down[s][i].type = "WELCOME", HasView(s[1]),
               tab[s[1]].view.game.rematch = Game.rematch
        PROVE  WillShowConsents(s)'
    <3>1. \A i \in 1 .. Len(down'[s]) : down'[s][i].type = "WELCOME"
      BY <2>1, <2>2, <2>4
    <3> QED BY <1>1, <2>4, <3>1 DEF WillShowConsents, HasView
  <2> QED BY <2>3, <2>4 DEF WillShowConsents
<1> QED BY <1>2, <1>3

\* Who is sent the session will show it.
LEMMA SentIsShown ==
  ASSUME IInv, NEW s \in Lines, here[s] = "open", NEW to, s \in to,
         down' = Emitted(to, StateMessage(session'))
  PROVE  WillShowGame(s)' /\ WillShowConsents(s)'
<1> DEFINE msg == StateMessage(session')
           n == Len(down[s]) + 1
<1>1. msg.type = "STATE" /\ msg.view = Snapshot(session')
  BY DEF StateMessage
<1>2. down'[s] = Append(down[s], msg) /\ down[s] \in Seq(DownMessages \cup {msg})
  BY SeqMonotonic DEF Emitted, IInv, WiresHeld
<1>3. /\ Len(down'[s]) = n /\ n \in 1 .. Len(down'[s]) /\ down'[s][n] = msg
      /\ \A j \in 1 .. Len(down'[s]) : ~ (j > n)
  BY <1>2, AppendProperties, LenProperties
<1> HIDE DEF n, msg
<1>4. SameGame(msg.view, session') /\ Consents(msg) = Game'.rematch
  BY <1>1 DEF SameGame, Snapshot, Consents, Game
<1>5. WillShowGame(s)'
  BY <1>1, <1>3, <1>4 DEF WillShowGame
<1>6. WillShowConsents(s)'
  BY <1>1, <1>3, <1>4 DEF WillShowConsents
<1> QED BY <1>5, <1>6

LEMMA SentConsents ==
  ASSUME IInv, NEW s \in Lines, here[s] = "open", NEW to, s \in to, session' = session,
         down' = Emitted(to, [type |-> "REMATCH_STATUS", rematch |-> Game.rematch])
  PROVE  WillShowConsents(s)'
<1> DEFINE msg == [type |-> "REMATCH_STATUS", rematch |-> Game.rematch]
           n == Len(down[s]) + 1
<1>1. msg.type = "REMATCH_STATUS" /\ msg.rematch = Game.rematch
  OBVIOUS
<1>2. down'[s] = Append(down[s], msg) /\ down[s] \in Seq(DownMessages \cup {msg})
  BY SeqMonotonic DEF Emitted, IInv, WiresHeld
<1>3. /\ Len(down'[s]) = n /\ n \in 1 .. Len(down'[s]) /\ down'[s][n] = msg
      /\ \A j \in 1 .. Len(down'[s]) : ~ (j > n)
  BY <1>2, AppendProperties, LenProperties
<1> HIDE DEF n, msg
<1>4. Consents(msg) = Game'.rematch
  BY <1>1 DEF Consents, Game
<1> QED BY <1>1, <1>3, <1>4 DEF WillShowConsents

\* A page that showed v shows w after msg: the game of a STATE, the consents of a
\* REMATCH_STATUS if it showed a game.
ShownAfter(w, v, msg) ==
  \/ msg.type = "WELCOME" /\ w = v
  \/ msg.type = "STATE" /\ w = msg.view /\ w # NoView
  \/ /\ msg.type = "REMATCH_STATUS"
     /\ v = NoView => w = v
     /\ v # NoView => w # NoView /\ SameGame(w, v) /\ w.game.rematch = msg.rematch

LEMMA ReceivedOnPage ==
  ASSUME IInv, NEW p \in Players, NEW s \in Lines, s = LineOf(p), ReceiveDown(p)
  PROVE  \E t : /\ tab' = [tab EXCEPT ![p] = t]
               /\ ShownAfter(t.view, tab[p].view, Head(down[s]))
<1> DEFINE msg == Head(down[s])
<1>1. msg \in DownMessages /\ tab[p] \in Tabs /\ tab \in [Players -> Tabs]
  BY HeadTailProperties DEF ReceiveDown, IInv, WiresHeld, TabsHeld
<1> HIDE DEF msg, ShownAfter
<1>2. CASE msg.type = "WELCOME" /\ tab' = [tab EXCEPT ![p] = Welcomed(@)]
  <2>1. tab' = [tab EXCEPT ![p] = Welcomed(tab[p])]
    BY <1>1, <1>2
  <2>2. Welcomed(tab[p]).view = tab[p].view
    BY <1>1 DEF Welcomed, Tabs
  <2> QED BY <1>2, <2>1, <2>2 DEF msg, ShownAfter
<1>3. CASE msg.type = "STATE" /\ tab' = [tab EXCEPT ![p] = Synced(@, msg)]
  <2>1. tab' = [tab EXCEPT ![p] = Synced(tab[p], msg)]
    BY <1>1, <1>3
  <2>2. msg.view \in HeldViews
    BY <1>1, <1>3 DEF DownMessages
  <2>3. msg.view # NoView
    BY <2>2, ViewsAreViews DEF HeldViews
  <2>4. Synced(tab[p], msg).view = msg.view
    BY <1>1 DEF Synced, Tabs
  <2> QED BY <1>3, <2>1, <2>3, <2>4 DEF msg, ShownAfter
<1>4. CASE msg.type = "REMATCH_STATUS" /\ tab' = [tab EXCEPT ![p] = RematchShown(@, msg)]
  <2>1. tab' = [tab EXCEPT ![p] = RematchShown(tab[p], msg)]
    BY <1>1, <1>4
  <2>2. CASE ~ HasView(p)
    <3>1. RematchShown(tab[p], msg) = tab[p]
      BY <2>2 DEF RematchShown, HasView
    <3> QED BY <1>4, <2>1, <2>2, <3>1 DEF msg, ShownAfter, HasView
  <2>3. CASE HasView(p)
    <3> DEFINE v == tab[p].view
               w == [v EXCEPT !.game.rematch = msg.rematch]
    <3>1. msg.rematch \in [Colours -> BOOLEAN]
      BY <1>1, <1>4 DEF DownMessages
    <3>2. v \in HeldViews /\ v \in Views
      BY <2>3 DEF IInv, TabsHeld, HeldViews
    <3>3. w \in HeldViews
      BY <3>1, <3>2, ConsentShown
    <3>4. w # NoView
      BY <3>3, ViewsAreViews DEF HeldViews
    <3>5. SameGame(w, v) /\ w.game.rematch = msg.rematch
      BY <3>2 DEF Views, Games, SameGame, GameFields
    <3>6. RematchShown(tab[p], msg).view = w
      BY <1>1, <2>3 DEF RematchShown, HasView, Tabs
    <3> HIDE DEF w, v
    <3> QED BY <1>4, <2>1, <2>3, <3>4, <3>5, <3>6 DEF msg, v, ShownAfter, HasView
  <2> QED BY <2>2, <2>3
<1> QED BY <1>2, <1>3, <1>4 DEF ReceiveDown, msg

LEMMA ReceivedGameShown ==
  ASSUME IInv, NEW p \in Players, NEW s \in Lines, s = LineOf(p), ReceiveDown(p),
         session' = session, WillShowGame(s)
  PROVE  WillShowGame(s)'
<1>1. /\ down'[s] = Tail(down[s]) /\ down[s] # << >> /\ down[s] \in Seq(DownMessages)
      /\ s[1] = p /\ tab \in [Players -> Tabs]
  BY DEF ReceiveDown, IInv, WiresHeld, TabsHeld, LineOf
<1>2. /\ Len(down[s]) \in Nat /\ Len(down[s]) >= 1 /\ Head(down[s]) = down[s][1]
      /\ Len(down'[s]) = Len(down[s]) - 1
      /\ \A i \in 1 .. Len(down'[s]) :
           i + 1 \in 1 .. Len(down[s]) /\ down'[s][i] = down[s][i + 1]
  BY <1>1, TailOf
<1>3. PICK t : /\ tab' = [tab EXCEPT ![p] = t]
               /\ ShownAfter(t.view, tab[p].view, Head(down[s]))
  BY ReceivedOnPage
<1>4. tab'[s[1]] = t
  BY <1>1, <1>3
<1>5. ASSUME NEW i \in 1 .. Len(down[s]), down[s][i].type = "STATE",
             SameGame(down[s][i].view, session),
             \A j \in 1 .. Len(down[s]) : j > i => down[s][j].type # "STATE"
      PROVE  WillShowGame(s)'
  <2>1. CASE i = 1
    <3>1. ASSUME NEW j \in 1 .. Len(down'[s]) PROVE down'[s][j].type # "STATE"
      <4>1. j + 1 \in 1 .. Len(down[s]) /\ j + 1 > i /\ down'[s][j] = down[s][j + 1]
        BY <1>2, <2>1
      <4> QED BY <1>5, <4>1
    <3>2. t.view = down[s][i].view /\ t.view # NoView
      BY <1>2, <1>3, <1>5, <2>1 DEF ShownAfter
    <3> QED BY <1>4, <1>5, <3>1, <3>2 DEF WillShowGame, HasView
  <2>2. CASE i > 1
    <3>1. i - 1 \in 1 .. Len(down'[s]) /\ down'[s][i - 1] = down[s][i]
      BY <1>2, <2>2
    <3>2. ASSUME NEW j \in 1 .. Len(down'[s]), j > i - 1 PROVE down'[s][j].type # "STATE"
      <4>1. j + 1 \in 1 .. Len(down[s]) /\ j + 1 > i /\ down'[s][j] = down[s][j + 1]
        BY <1>2, <3>2
      <4> QED BY <1>5, <4>1
    <3> QED BY <1>5, <3>1, <3>2 DEF WillShowGame
  <2> QED BY <2>1, <2>2
<1>6. ASSUME \A i \in 1 .. Len(down[s]) : down[s][i].type # "STATE", HasView(s[1]),
             SameGame(tab[s[1]].view, session)
      PROVE  WillShowGame(s)'
  <2>1. \A i \in 1 .. Len(down'[s]) : down'[s][i].type # "STATE"
    BY <1>2, <1>6
  <2>2. Head(down[s]).type # "STATE"
    BY <1>2, <1>6
  <2>3. t.view # NoView /\ SameGame(t.view, session)
    BY <1>1, <1>3, <1>6, <2>2 DEF ShownAfter, SameGame, HasView
  <2> QED BY <1>4, <2>1, <2>3 DEF WillShowGame, HasView
<1> QED BY <1>5, <1>6 DEF WillShowGame

LEMMA ReceivedConsentsShown ==
  ASSUME IInv, NEW p \in Players, NEW s \in Lines, s = LineOf(p), ReceiveDown(p),
         session' = session, WillShowGame(s), WillShowConsents(s)
  PROVE  WillShowConsents(s)'
<1>1. /\ down'[s] = Tail(down[s]) /\ down[s] # << >> /\ down[s] \in Seq(DownMessages)
      /\ s[1] = p /\ tab \in [Players -> Tabs] /\ Game' = Game
  BY DEF ReceiveDown, IInv, WiresHeld, TabsHeld, LineOf, Game
<1>2. /\ Len(down[s]) \in Nat /\ Len(down[s]) >= 1 /\ Head(down[s]) = down[s][1]
      /\ Len(down'[s]) = Len(down[s]) - 1
      /\ \A i \in 1 .. Len(down'[s]) :
           i + 1 \in 1 .. Len(down[s]) /\ down'[s][i] = down[s][i + 1]
  BY <1>1, TailOf
<1>3. PICK t : /\ tab' = [tab EXCEPT ![p] = t]
               /\ ShownAfter(t.view, tab[p].view, Head(down[s]))
  BY ReceivedOnPage
<1>4. tab'[s[1]] = t
  BY <1>1, <1>3
<1>5. ASSUME NEW i \in 1 .. Len(down[s]), down[s][i].type # "WELCOME",
             Consents(down[s][i]) = Game.rematch,
             \A j \in 1 .. Len(down[s]) : j > i => down[s][j].type = "WELCOME"
      PROVE  WillShowConsents(s)'
  <2>1. CASE i = 1
    <3>1. ASSUME NEW j \in 1 .. Len(down'[s]) PROVE down'[s][j].type = "WELCOME"
      <4>1. j + 1 \in 1 .. Len(down[s]) /\ j + 1 > i /\ down'[s][j] = down[s][j + 1]
        BY <1>2, <2>1
      <4> QED BY <1>5, <4>1
    <3>2. CASE Head(down[s]).type = "STATE"
      <4>1. t.view # NoView /\ t.view.game.rematch = Game.rematch
        BY <1>2, <1>3, <1>5, <2>1, <3>2 DEF ShownAfter, Consents
      <4> QED BY <1>1, <1>4, <3>1, <4>1 DEF WillShowConsents, HasView
    <3>3. CASE Head(down[s]).type = "REMATCH_STATUS"
      <4>1. \A j \in 1 .. Len(down[s]) : down[s][j].type # "STATE"
        BY <1>2, <1>5, <2>1, <3>3
      <4>2. HasView(p)
        BY <1>1, <4>1 DEF WillShowGame
      <4>3. t.view # NoView /\ t.view.game.rematch = Game.rematch
        BY <1>2, <1>3, <1>5, <2>1, <3>3, <4>2 DEF ShownAfter, HasView, Consents
      <4> QED BY <1>1, <1>4, <3>1, <4>3 DEF WillShowConsents, HasView
    <3> QED BY <1>2, <1>3, <1>5, <2>1, <3>2, <3>3 DEF ShownAfter
  <2>2. CASE i > 1
    <3>1. i - 1 \in 1 .. Len(down'[s]) /\ down'[s][i - 1] = down[s][i]
      BY <1>2, <2>2
    <3>2. ASSUME NEW j \in 1 .. Len(down'[s]), j > i - 1 PROVE down'[s][j].type = "WELCOME"
      <4>1. j + 1 \in 1 .. Len(down[s]) /\ j + 1 > i /\ down'[s][j] = down[s][j + 1]
        BY <1>2, <3>2
      <4> QED BY <1>5, <4>1
    <3> QED BY <1>1, <1>5, <3>1, <3>2 DEF WillShowConsents
  <2> QED BY <2>1, <2>2
<1>6. ASSUME \A i \in 1 .. Len(down[s]) : down[s][i].type = "WELCOME", HasView(s[1]),
             tab[s[1]].view.game.rematch = Game.rematch
      PROVE  WillShowConsents(s)'
  <2>1. \A i \in 1 .. Len(down'[s]) : down'[s][i].type = "WELCOME"
    BY <1>2, <1>6
  <2>2. Head(down[s]).type = "WELCOME"
    BY <1>2, <1>6
  <2>3. t.view = tab[p].view
    BY <1>3, <2>2 DEF ShownAfter
  <2> QED BY <1>1, <1>4, <1>6, <2>1, <2>3 DEF WillShowConsents, HasView
<1> QED BY <1>5, <1>6 DEF WillShowConsents

-----------------------------------------------------------------------------
(* The steps *)

\* What WillShowGame and WillShowConsents read of the session.
SessionShown == SameGame(session', session) /\ session'.game.rematch = session.game.rematch

LEMMA SameGameShown ==
  ASSUME session'.number = session.number, session'.game = session.game PROVE SessionShown
BY DEF SessionShown, SameGame

LEMMA ReachedAreLines == ASSUME IInv PROVE Reached \subseteq Lines
BY DEF Reached, IInv, ServerTyped

LEMMA PendingAnnounced == ASSUME StatePending' PROVE Announced'
BY DEF Announced

\* A step that announces nothing and changes nothing that is announced.
LEMMA NothingToAnnounce ==
  ASSUME IInv, Announced, PendingKept, SessionShown, Reached' \subseteq Reached,
         \A s \in Reached' : tab'[s[1]].view = tab[s[1]].view,
         \/ \A s \in Reached' : down'[s] = down[s]
         \/ \E to : down' = Emitted(to, [type |-> "WELCOME"])
  PROVE  Announced'
<1>1. \A s \in Reached' : s \in Reached /\ s \in Lines
  BY ReachedAreLines
<1>2. ~ StatePending' => \A s \in Reached' : WillShowGame(s)'
  <2> SUFFICES ASSUME ~ StatePending', NEW s \in Reached' PROVE WillShowGame(s)'
    OBVIOUS
  <2>1. WillShowGame(s)
    BY <1>1 DEF Announced, PendingKept
  <2>2. SameGame(session', session)
    BY DEF SessionShown
  <2>3. CASE down'[s] = down[s]
    BY <1>1, <2>1, <2>2, <2>3, GameStillShown
  <2>4. ASSUME NEW to, down' = Emitted(to, [type |-> "WELCOME"]) PROVE WillShowGame(s)'
    <3>1. [type |-> "WELCOME"].type # "STATE"
      OBVIOUS
    <3> QED BY <1>1, <2>1, <2>2, <2>4, <3>1, GameStillShown
  <2> QED BY <2>3, <2>4
<1>3. ~ StatePending' /\ ~ ConsentPending' => \A s \in Reached' : WillShowConsents(s)'
  <2> SUFFICES ASSUME ~ StatePending', ~ ConsentPending', NEW s \in Reached'
               PROVE  WillShowConsents(s)'
    OBVIOUS
  <2>1. WillShowConsents(s)
    BY <1>1 DEF Announced, PendingKept
  <2>2. session'.game.rematch = session.game.rematch
    BY DEF SessionShown
  <2>3. CASE down'[s] = down[s]
    BY <1>1, <2>1, <2>2, <2>3, ConsentsStillShown
  <2>4. ASSUME NEW to, down' = Emitted(to, [type |-> "WELCOME"]) PROVE WillShowConsents(s)'
    BY <1>1, <2>1, <2>2, <2>4, ConsentsStillShown
  <2> QED BY <2>3, <2>4
<1> QED BY <1>2, <1>3 DEF Announced

\* A step that sends the session to the room.
LEMMA SessionAnnounced ==
  ASSUME IInv, room' \subseteq Lines, here' = here,
         down' = Emitted(room', StateMessage(session'))
  PROVE  Announced'
<1>1. \A s \in Reached' : s \in Lines /\ s \in room' /\ here[s] = "open"
  BY DEF Reached
<1>2. \A s \in Reached' : WillShowGame(s)' /\ WillShowConsents(s)'
  BY <1>1, SentIsShown
<1> QED BY <1>2 DEF Announced

LEMMA OpenAnnounced ==
  ASSUME IInv, VInv, NEW p \in Players, Open(p) PROVE Announced'
<1>1. PICK f \in Lines : /\ there[f] = "new" /\ here' = [here EXCEPT ![f] = "open"]
                         /\ down' = down /\ session' = session /\ room' = room
                         /\ waiting' = waiting
  BY OpenedLine
<1>2. f \notin room
  BY <1>1 DEF VInv, RoomKnown
<1>3. Reached' = Reached
  BY <1>1, <1>2 DEF Reached, IInv, WiresHeld, LineStates, ServerTyped
<1>4. \A s \in Reached' : tab'[s[1]].view = tab[s[1]].view
  BY <1>3, ReachedAreLines, LinesAreLines, OpenTabs
<1>5. PendingKept /\ SessionShown
  BY <1>1, SameWaiting, SameGameShown
<1> QED BY <1>1, <1>3, <1>4, <1>5, NothingToAnnounce DEF VInv

\* A page that loses its connection, or is loaded again, is not reached any more.
LEMMA PageAnnounced ==
  ASSUME IInv, VInv, NEW p \in Players, Page(p) PROVE Announced'
<1>0. room' = room /\ session' = session /\ waiting' = waiting
  BY DEF Page, server
<1>1. PendingKept /\ SessionShown
  BY <1>0, SameWaiting, SameGameShown
<1>2. \A s \in Reached : /\ s \in Lines /\ s[1] \in Players
                          /\ s = LineOf(s[1]) /\ Connected(s[1])
  BY ReachedAreLines, OpenIsLast DEF Reached, VInv
<1>3. here \in LineStates /\ down \in [Lines -> Seq(DownMessages)]
      /\ tab \in [Players -> Tabs]
  BY DEF IInv, WiresHeld, TabsHeld
<1>4. CASE User(p)
  <2>1. tab' = tab /\ down' = down /\ here' = here
    BY <1>4 DEF User, HandleCreateRoom, HandleJoinRoom, HandleResumeGame,
                HandleRequestRematch, HandleResign, HandlePieceDrop, EmitSocketMessage,
                SendUp, wires
  <2>2. Reached' = Reached
    BY <1>0, <2>1 DEF Reached
  <2> QED BY <1>1, <2>1, <2>2, NothingToAnnounce DEF VInv
<1>5. CASE Disconnect(p) \/ Reload(p)
  <2>1. \A q \in Players : q # p => tab'[q] = tab[q]
    BY <1>3, <1>5 DEF Disconnect, Reload
  <2>2. CASE Connected(p)
    <3>1. /\ here' = [here EXCEPT ![LineOf(p)] = "closed"]
          /\ down' = [down EXCEPT ![LineOf(p)] = << >>]
          /\ LineOf(p) \in Lines
      BY <1>5, <2>2, ConnectedLine DEF Disconnect, Reload, CloseHere, Connected, IInv
    <3>2. Reached' \subseteq Reached \ {LineOf(p)}
      BY <1>0, <1>3, <3>1 DEF Reached, LineStates, IInv, ServerTyped
    <3>3. \A s \in Reached' : s[1] # p /\ down'[s] = down[s]
      BY <1>2, <1>3, <3>1, <3>2
    <3>4. \A s \in Reached' : tab'[s[1]].view = tab[s[1]].view
      BY <1>2, <2>1, <3>2, <3>3
    <3> QED BY <1>1, <3>2, <3>3, <3>4, NothingToAnnounce DEF VInv
  <2>3. CASE ~ Connected(p)
    <3>1. here' = here /\ down' = down
      BY <1>5, <2>3 DEF Disconnect, Reload, wires
    <3>2. Reached' = Reached
      BY <1>0, <3>1 DEF Reached
    <3>3. \A s \in Reached' : tab'[s[1]].view = tab[s[1]].view
      BY <1>2, <2>1, <2>3, <3>2
    <3> QED BY <1>1, <3>1, <3>2, <3>3, NothingToAnnounce DEF VInv
  <2> QED BY <2>2, <2>3
<1>6. CASE ReceiveDown(p)
  <2>1. here' = here /\ Reached' = Reached /\ LineOf(p) \in Lines
    BY <1>0, <1>6, ConnectedLine DEF ReceiveDown, Reached, Connected, IInv
  <2>2. \A q \in Players : q # p => tab'[q] = tab[q]
    BY <1>3, <1>6 DEF ReceiveDown
  <2>3. \A s \in Lines : s # LineOf(p) => down'[s] = down[s]
    BY <1>3, <1>6, <2>1 DEF ReceiveDown
  <2>4. \A s \in Reached : s # LineOf(p) =>
          tab'[s[1]].view = tab[s[1]].view /\ down'[s] = down[s]
    BY <1>2, <2>2, <2>3
  <2>5. ~ StatePending' => \A s \in Reached' : WillShowGame(s)'
    <3> SUFFICES ASSUME ~ StatePending', NEW s \in Reached PROVE WillShowGame(s)'
      BY <2>1
    <3>1. WillShowGame(s) /\ s \in Lines
      BY <1>1, <1>2 DEF VInv, Announced, PendingKept
    <3>2. CASE s = LineOf(p)
      BY <1>0, <1>6, <3>1, <3>2, ReceivedGameShown
    <3>3. CASE s # LineOf(p)
      BY <1>1, <2>4, <3>1, <3>3, GameStillShown DEF SessionShown
    <3> QED BY <3>2, <3>3
  <2>6. ~ StatePending' /\ ~ ConsentPending' => \A s \in Reached' : WillShowConsents(s)'
    <3> SUFFICES ASSUME ~ StatePending', ~ ConsentPending', NEW s \in Reached
                 PROVE  WillShowConsents(s)'
      BY <2>1
    <3>1. WillShowGame(s) /\ WillShowConsents(s) /\ s \in Lines
      BY <1>1, <1>2 DEF VInv, Announced, PendingKept
    <3>2. CASE s = LineOf(p)
      BY <1>0, <1>6, <3>1, <3>2, ReceivedConsentsShown
    <3>3. CASE s # LineOf(p)
      BY <1>1, <2>4, <3>1, <3>3, ConsentsStillShown DEF SessionShown
    <3> QED BY <3>2, <3>3
  <2> QED BY <2>5, <2>6 DEF Announced
<1> QED BY <1>4, <1>5, <1>6 DEF Page

\* A player asks for a rematch: only the consents have changed.
LEMMA AskedAnnounced ==
  ASSUME IInv, VInv, NEW s \in Lines, RequestRematch(s), UNCHANGED browsers
  PROVE  Announced'
<1> DEFINE c == SeatOf(Game, PlayerOf(s))
           asked == RematchAsked(Game, c)
<1>1. /\ down' = down /\ here' = here /\ room' = room /\ tab' = tab
      /\ Exists /\ c \in Colours
  BY SeatOfType DEF RequestRematch, Request, Receive, Accepts, browsers
<1>2. CASE Suspend(s, "restart")
  <2>1. "restart" \in StateKinds /\ "restart" \in Continuations
    BY DEF StateKinds, Continuations
  <2> QED BY <1>2, <2>1, SuspendPends, PendingAnnounced
<1>3. CASE Suspend(s, "status") /\ session' = [session EXCEPT !.game = asked]
  <2>1. PendingKept /\ ConsentPending'
    BY <1>3, SuspendPends, KindsAreContinuations
  <2>2. SameGame(session', session)
    <3>1. asked = [Game EXCEPT !.rematch[c] = TRUE] /\ Game \in Games
      BY <1>1, GameOfSession DEF RematchAsked, IInv
    <3>2. \A f \in GameFields : asked[f] = Game[f]
      BY <3>1 DEF GameFields, Games
    <3>3. session'.number = session.number /\ session'.game = asked
      BY <1>1, <1>3, SessionShape DEF IInv
    <3> HIDE DEF asked
    <3> QED BY <3>2, <3>3 DEF SameGame, Game
  <2>3. Reached' = Reached
    BY <1>1 DEF Reached
  <2>4. ASSUME ~ StatePending', NEW x \in Reached' PROVE WillShowGame(x)'
    <3>1. WillShowGame(x) /\ x \in Lines
      BY <2>1, <2>3, <2>4, ReachedAreLines DEF VInv, Announced, PendingKept
    <3> QED BY <1>1, <2>2, <3>1, GameStillShown
  <2> QED BY <2>1, <2>4 DEF Announced
<1> QED BY <1>2, <1>3 DEF RequestRematch

LEMMA HandlerAnnounced ==
  ASSUME IInv, VInv, NEW s \in Lines, Handler(s), UNCHANGED browsers PROVE Announced'
<1>1. CASE Hello(s)
  <2>1. /\ down' = Emitted({s}, [type |-> "WELCOME"]) /\ here' = here /\ room' = room
        /\ session' = session /\ waiting' = waiting /\ tab' = tab
    BY <1>1 DEF Hello, Receive, browsers
  <2>2. PendingKept /\ SessionShown /\ Reached' = Reached
    BY <2>1, SameWaiting, SameGameShown DEF Reached
  <2> QED BY <2>1, <2>2, NothingToAnnounce DEF VInv
<1>2. CASE CreateGame(s) \/ ResumeGame(s) \/ Refuse(s)
  <2>1. /\ down' = down /\ here' = here /\ room' = room /\ tab' = tab
    BY <1>2 DEF CreateGame, ResumeGame, Refuse, Request, Receive, server, browsers
  <2>2. SessionShown
    <3>1. CASE session' = session
      BY <3>1, SameGameShown
    <3>2. CASE ResumeGame(s)
      <4>1. Exists
        BY <3>2 DEF ResumeGame, Request, Accepts
      <4>2. session'.number = session.number /\ session'.game = session.game
        BY <3>2, <4>1, SessionShape DEF ResumeGame, IInv
      <4> QED BY <4>2, SameGameShown
    <3> QED BY <1>2, <3>1, <3>2 DEF CreateGame, Refuse, server
  <2>3. PendingKept
    <3>1. "create" \in Continuations /\ "resume" \in Continuations
      BY DEF Continuations
    <3>2. waiting' = waiting \/ Suspend(s, "create") \/ Suspend(s, "resume")
      BY <1>2 DEF CreateGame, ResumeGame, Refuse, server
    <3> QED BY <3>1, <3>2, SameWaiting, SuspendPends
  <2>4. Reached' = Reached
    BY <2>1 DEF Reached
  <2> QED BY <2>1, <2>2, <2>3, <2>4, NothingToAnnounce DEF VInv
<1>3. CASE JoinGame(s) \/ SubmitMove(s) \/ ResignGame(s)
  <2>1. Suspend(s, "seat") \/ Suspend(s, "move") \/ Suspend(s, "resign")
    BY <1>3 DEF JoinGame, SubmitMove, ResignGame
  <2>2. /\ {"seat", "move", "resign"} \subseteq StateKinds
        /\ {"seat", "move", "resign"} \subseteq Continuations
    BY DEF StateKinds, Continuations
  <2> QED BY <2>1, <2>2, SuspendPends, PendingAnnounced
<1> QED BY <1>1, <1>2, <1>3, AskedAnnounced DEF Handler

\* A socket that closes leaves the room; a seat that it leaves will be reported.
LEMMA DisconnectAnnounced ==
  ASSUME IInv, VInv, NEW s \in Lines, HandleDisconnect(s), UNCHANGED browsers
  PROVE  Announced'
<1>1. /\ down' = down /\ here' = here /\ tab' = tab /\ room' = room \ {s}
  BY DEF HandleDisconnect, CloseThere, browsers
<1>2. CASE Suspend(s, "disconnect")
  <2>1. "disconnect" \in StateKinds /\ "disconnect" \in Continuations
    BY DEF StateKinds, Continuations
  <2> QED BY <1>2, <2>1, SuspendPends, PendingAnnounced
<1>3. CASE session' = session /\ waiting' = waiting
  <2>1. PendingKept /\ SessionShown
    BY <1>3, SameWaiting, SameGameShown
  <2>2. Reached' \subseteq Reached
    BY <1>1 DEF Reached
  <2> QED BY <1>1, <2>1, <2>2, NothingToAnnounce DEF VInv
<1> QED BY <1>2, <1>3 DEF HandleDisconnect

\* The consents are sent to the room; the game that it shows, or will show, is the
\* same.
LEMMA StatusAnnounced ==
  ASSUME IInv, VInv, NEW s \in Lines, AnswerRematchStatus(s), UNCHANGED browsers
  PROVE  Announced'
<1> DEFINE msg == [type |-> "REMATCH_STATUS", rematch |-> Game.rematch]
<1>1. /\ down' = Emitted(room, msg) /\ here' = here /\ room' = room /\ tab' = tab
      /\ session' = session /\ Return(s, "status") /\ msg.type # "STATE"
  BY DEF AnswerRematchStatus, Emit, browsers
<1>2. StatePending => StatePending'
  <2>1. "status" \notin StateKinds
    BY DEF StateKinds
  <2> QED BY <1>1, <2>1, ReturnPends, KindsAreContinuations
<1>3. Reached' = Reached
  BY <1>1 DEF Reached
<1>4. ASSUME ~ StatePending', NEW x \in Reached' PROVE WillShowGame(x)'
  <2>1. WillShowGame(x) /\ x \in Lines
    BY <1>2, <1>3, <1>4, ReachedAreLines DEF VInv, Announced
  <2>2. SameGame(session', session)
    BY <1>1 DEF SameGame
  <2> HIDE DEF msg
  <2> QED BY <1>1, <2>1, <2>2, GameStillShown
<1>5. ASSUME NEW x \in Reached' PROVE WillShowConsents(x)'
  <2>1. x \in room /\ x \in Lines /\ here[x] = "open"
    BY <1>3, ReachedAreLines DEF Reached
  <2> QED BY <1>1, <2>1, SentConsents
<1> QED BY <1>4, <1>5 DEF Announced

\* A socket that resumes enters the room and is sent the session; the others have
\* been told, or will be.
LEMMA ResumeAnnounced ==
  ASSUME IInv, VInv, NEW s \in Lines, AnswerResume(s), UNCHANGED browsers
  PROVE  Announced'
<1>1. /\ down' = Emitted({s} \cap room', StateMessage(session')) /\ here' = here
      /\ tab' = tab /\ session' = session /\ Return(s, "resume") /\ EnterRoom(s)
  BY DEF AnswerResume, Emit, browsers
<1>2. PendingKept
  <2>1. "resume" \notin StateKinds /\ "resume" \in Continuations
    BY DEF StateKinds, Continuations
  <2> QED BY <1>1, <2>1, ReturnPends DEF PendingKept
<1>3. SessionShown
  BY <1>1, SameGameShown
<1>4. ASSUME NEW x \in Reached'
      PROVE  /\ x \in Lines
             /\ \/ WillShowGame(x)' /\ WillShowConsents(x)'
                \/ x \in Reached /\ down'[x] = down[x]
  <2>1. x \in room' /\ here[x] = "open" /\ x \in Lines
    BY <1>1 DEF Reached, EnterRoom, IInv, ServerTyped
  <2>2. CASE x = s
    BY <1>1, <2>1, <2>2, SentIsShown
  <2>3. CASE x # s
    <3>1. x \in Reached
      BY <1>1, <2>1, <2>3 DEF Reached, EnterRoom
    <3>2. down'[x] = down[x]
      BY <1>1, <2>1, <2>3 DEF Emitted
    <3> QED BY <2>1, <3>1, <3>2
  <2> QED BY <2>1, <2>2, <2>3
<1>5. ASSUME ~ StatePending', NEW x \in Reached' PROVE WillShowGame(x)'
  <2>1. CASE x \in Reached /\ down'[x] = down[x]
    <3>1. WillShowGame(x)
      BY <1>2, <1>5, <2>1 DEF VInv, Announced, PendingKept
    <3> QED BY <1>1, <1>3, <1>4, <2>1, <3>1, GameStillShown DEF SessionShown
  <2> QED BY <1>4, <2>1
<1>6. ASSUME ~ StatePending', ~ ConsentPending', NEW x \in Reached'
      PROVE  WillShowConsents(x)'
  <2>1. CASE x \in Reached /\ down'[x] = down[x]
    <3>1. WillShowConsents(x)
      BY <1>2, <1>6, <2>1 DEF VInv, Announced, PendingKept
    <3> QED BY <1>1, <1>3, <1>4, <2>1, <3>1, ConsentsStillShown DEF SessionShown
  <2> QED BY <1>4, <2>1
<1> QED BY <1>5, <1>6 DEF Announced

LEMMA ContinuationAnnounced ==
  ASSUME IInv, VInv, NEW s \in Lines, Continuation(s), UNCHANGED browsers
  PROVE  Announced'
<1>0. room' \subseteq Lines
  BY RoomStaysTyped DEF IInv
<1>1. CASE CreateSession(s)
  <2>1. room = {}
    BY <1>1, CreateSessionGood DEF VInv, RoomKnown
  <2>2. room' \subseteq {s}
    BY <1>1, <2>1 DEF CreateSession, EnterRoom
  <2>3. {s} \cap room' = room'
    BY <2>2
  <2>4. down' = Emitted(room', StateMessage(session')) /\ here' = here
    BY <1>1, <2>3 DEF CreateSession, Emit
  <2> QED BY <1>0, <2>4, SessionAnnounced
<1>2. CASE FailToCreate(s)
  <2>1. /\ down' = down /\ here' = here /\ room' = room /\ tab' = tab
        /\ session' = session /\ Return(s, "create")
    BY <1>2 DEF FailToCreate, wires, browsers
  <2>2. "create" \notin StateKinds /\ "create" \in Continuations
    BY DEF StateKinds, Continuations
  <2>3. PendingKept /\ SessionShown /\ Reached' = Reached
    BY <2>1, <2>2, ReturnPends, SameGameShown DEF PendingKept, Reached
  <2> QED BY <2>1, <2>3, NothingToAnnounce DEF VInv
<1>3. CASE StartGame(s)
  BY <1>3, StartGamePends, PendingAnnounced
<1>4. CASE AnswerJoin(s) \/ AnswerMove(s) \/ AnswerResign(s) \/ AnswerRematchStart(s)
             \/ ReportDisconnect(s)
  <2>1. down' = Emitted(room', StateMessage(session')) /\ here' = here
    BY <1>4 DEF AnswerJoin, AnswerMove, AnswerResign, AnswerRematchStart,
                ReportDisconnect, Emit
  <2> QED BY <1>0, <2>1, SessionAnnounced
<1> QED BY <1>1, <1>2, <1>3, <1>4, StatusAnnounced, ResumeAnnounced DEF Continuation

LEMMA AnnouncedNext == ASSUME IInv, VInv, [Next]_vars PROVE Announced'
<1>1. CASE UNCHANGED vars
  <2>1. /\ down' = down /\ here' = here /\ room' = room /\ tab' = tab
        /\ session' = session /\ waiting' = waiting
    BY <1>1 DEF vars, wires, browsers, server
  <2>2. PendingKept /\ SessionShown /\ Reached' = Reached
    BY <2>1, SameWaiting, SameGameShown DEF Reached
  <2> QED BY <2>1, <2>2, NothingToAnnounce DEF VInv
<1>2. ASSUME NEW s \in Lines, Serve(s) PROVE Announced'
  BY <1>2, HandlerAnnounced, ContinuationAnnounced, DisconnectAnnounced DEF Serve
<1> QED BY <1>1, <1>2, OpenAnnounced, PageAnnounced DEF Next

-----------------------------------------------------------------------------
(* The theorem *)

\* When all is quiet, nothing is left to be announced or received.
LEMMA QuietIsShown == IInv /\ VInv => QuietViewsCurrent
<1> SUFFICES ASSUME IInv, VInv, Quiet, NEW p \in Players, LineOf(p) \in room
             PROVE  tab[p].view = Snapshot(session)
  BY DEF QuietViewsCurrent
<1> DEFINE s == LineOf(p)
           v == tab[p].view
<1>1. s \in Lines /\ s \in Reached /\ s[1] = p /\ Exists
  BY DEF IInv, ServerTyped, VInv, RoomKnown, Quiet, Reached, LineOf
<1>2. ~ StatePending /\ ~ ConsentPending
  <2>1. \A x \in Lines, k \in Continuations : waiting[x][k] = 0
    BY DEF Quiet
  <2> QED BY <2>1, KindsAreContinuations DEF StatePending, ConsentPending
<1>3. WillShowGame(s) /\ WillShowConsents(s)
  BY <1>1, <1>2 DEF VInv, Announced
<1>4. Len(down[s]) = 0
  BY <1>1, EmptySeq DEF Quiet
<1>5. v # NoView /\ SameGame(v, session) /\ v.game.rematch = Game.rematch
  BY <1>1, <1>3, <1>4 DEF WillShowGame, WillShowConsents, HasView
<1>6. v \in Views
  BY <1>5 DEF IInv, TabsHeld, HasView, HeldViews
<1>7. Game \in Games
  BY <1>1, GameOfSession DEF IInv
<1> HIDE DEF v
<1>8. v.game = Game
  BY <1>5, <1>6, <1>7 DEF SameGame, GameFields, Views, Games, Game
<1>9. v = [number |-> session.number, game |-> session.game]
  BY <1>5, <1>6, <1>8 DEF Views, SameGame, Game
<1> QED BY <1>9 DEF Snapshot, v

LEMMA ViewsInductive == Spec => []VInv
<1>1. IInv /\ VInv /\ [Next]_vars => VInv'
  BY LastLineOpenNext, RoomKnownNext, AnnouncedNext DEF VInv
<1> QED BY <1>1, InitVInv, Inductive, PTL DEF Spec

\* When all is quiet, every page in the room shows the game as it is, with the
\* consents to a rematch: the last announcement of several that overlap is a true
\* one, and no page misses it.
THEOREM QuietViewsAlwaysCurrent == Spec => []QuietViewsCurrent
BY QuietIsShown, Inductive, ViewsInductive, PTL
=============================================================================
