---------------------------- MODULE TableProofs ----------------------------
(***************************************************************************)
(* For any number of players, moves, losses and requests: the server knows *)
(* who is there, who is there hears of the game, no page goes back in      *)
(* time, and no move is applied to a position its player did not see.      *)
(*                                                                         *)
(* The heart of it is Earlier: whatever is shown in a tab, on its way to   *)
(* it, or kept in a move that was sent, is the session of an earlier       *)
(* moment, because every step of the server takes the session forward.     *)
(***************************************************************************)
EXTENDS TableProperties, GameSessionProofs, SequenceTheorems

-----------------------------------------------------------------------------
(* The types as sets *)

MoveLists == UNION {[D -> Moves] : D \in SUBSET (Nat \ {0})}

Games == [state : SessionStates, revision : Nat, fen : MoveLists,
          turnColour : Colours \cup {"null"}, result : Results,
          white : Players, black : Players \cup {NoPlayer},
          rematch : [Colours -> BOOLEAN]]

Views == [number : Nat, game : Games]

Tabs == [line : 0 .. MaxLosses + 1, initialised : BOOLEAN, saved : BOOLEAN,
         view : Views \cup {NoView}]

Sessions == [number : Nat, game : Games \cup {NoPlayer},
             seat : [Colours -> Lines \cup {NoLine}],
             connected : [Colours -> BOOLEAN]]

LineStates == [Lines -> {"new", "open", "closed"}]

-----------------------------------------------------------------------------
(* The inductive invariant *)

\* v is w or came before it, and is the same position if nothing happened since.
Earlier(v, w) ==
  /\ NotAfter(v, w)
  /\ v.number = w.number /\ v.game.revision = w.game.revision =>
       v.game.fen = w.game.fen

\* What has been shown of the session.
HeldViews == {v \in Views : Exists /\ Earlier(v, session)}

Requests == [type : {"HELLO", "GAME_CREATE", "GAME_JOIN", "GAME_RESUME",
                     "REMATCH_REQUEST", "RESIGN"}]

Submission(m, v) == [type |-> "MOVE_SUBMIT", move |-> m,
                     expectedRevision |-> v.game.revision, seen |-> v]

UpMessages == Requests \cup {Submission(m, v) : m \in Moves, v \in HeldViews}

DownMessages ==
  [type : {"WELCOME"}] \cup [type : {"STATE"}, view : HeldViews]
    \cup [type : {"REMATCH_STATUS"}, rematch : [Colours -> BOOLEAN]]

WiresHeld ==
  /\ here \in LineStates /\ there \in LineStates
  /\ up \in [Lines -> Seq(UpMessages)]
  /\ down \in [Lines -> Seq(DownMessages)]

TabsHeld ==
  /\ tab \in [Players -> Tabs]
  /\ \A p \in Players : HasView(p) => tab[p].view \in HeldViews
  /\ kept \in [Players -> Seq(UpMessages)]
  /\ clicks \in Nat

SessionGood ==
  /\ session \in Sessions
  /\ Exists => GoodGame(Game) /\ session.seat["white"] # NoLine

ServerTyped ==
  /\ registry \in [Lines -> {"absent", "registered", "initialised"}]
  /\ room \subseteq Lines
  /\ waiting \in [Lines -> [Continuations -> Nat]]

\* A line that the tab has not reached yet has not been used.
LinesFresh ==
  \A s \in Lines : s[2] > tab[s[1]].line => here[s] = "new" /\ there[s] = "new"

DownWhileOpen == \A s \in Lines : here[s] # "open" => down[s] = << >>

\* Who waits has been connected, and waits in a session that exists.
WaitingKnown ==
  \A s \in Lines, k \in Continuations :
    waiting[s][k] > 0 => there[s] # "new" /\ (k # "create" => Exists)

SeatsKnown ==
  \A c \in Colours : session.seat[c] # NoLine => there[session.seat[c]] # "new"

\* What is on its way to a tab is in the order in which it was.
DownOrdered ==
  \A s \in Lines : \A i, j \in 1 .. Len(down[s]) :
    i < j /\ down[s][i].type = "STATE" /\ down[s][j].type = "STATE" =>
      Earlier(down[s][i].view, down[s][j].view)

ViewBeforeDown ==
  \A p \in Players :
    HasView(p) /\ LineOf(p) \in Lines =>
      \A i \in 1 .. Len(down[LineOf(p)]) :
        down[LineOf(p)][i].type = "STATE" =>
          Earlier(tab[p].view, down[LineOf(p)][i].view)

IInv ==
  /\ WiresHeld /\ TabsHeld /\ SessionGood /\ ServerTyped
  /\ LinesFresh /\ DownWhileOpen /\ WaitingKnown /\ SeatsKnown
  /\ SeatPresence /\ PresentPlayersHear
  /\ DownOrdered /\ ViewBeforeDown

-----------------------------------------------------------------------------
(* Facts about games and views *)

LEMMA GamesAreGames == \A g : IsGame(g) <=> g \in Games
<1>1. ASSUME NEW g, IsGame(g) PROVE g \in Games
  <2>1. g.fen \in MoveLists
    BY <1>1 DEF IsGame, IsMoveList, MoveLists
  <2> QED BY <1>1, <2>1 DEF IsGame, Games
<1>2. ASSUME NEW g, g \in Games PROVE IsGame(g)
  <2>1. IsMoveList(g.fen)
    BY <1>2 DEF Games, IsMoveList, MoveLists
  <2> QED BY <1>2, <2>1 DEF IsGame, Games
<1> QED BY <1>1, <1>2

LEMMA ViewsAreViews == \A v \in Views : IsView(v) /\ v # NoView
<1> SUFFICES ASSUME NEW v \in Views PROVE IsView(v) /\ v # NoView
  OBVIOUS
<1>1. DOMAIN v = {"number", "game"} /\ v = [number |-> v.number, game |-> v.game]
  BY DEF Views
<1>2. DOMAIN NoView = {"number"}
  BY DEF NoView
<1>3. "game" \notin {"number"}
  OBVIOUS
<1> QED BY <1>1, <1>2, <1>3, GamesAreGames DEF IsView, Views

LEMMA EarlierReflexive ==
  ASSUME NEW v, v.number \in Nat, v.game \in Games PROVE Earlier(v, v)
BY DEF Earlier, NotAfter, Games, Rank

LEMMA EarlierTransitive ==
  ASSUME NEW u, NEW v, NEW w,
         u.number \in Nat, v.number \in Nat, w.number \in Nat,
         u.game \in Games, v.game \in Games, w.game \in Games,
         Earlier(u, v), Earlier(v, w)
  PROVE  Earlier(u, w)
<1>1. \A g \in Games : Rank(g) \in Nat /\ g.revision \in Nat
  BY DEF Games, Rank
<1> QED BY <1>1 DEF Earlier, NotAfter

\* What has been shown has been shown for good.
LEMMA HeldForGood ==
  ASSUME NEW v \in HeldViews, Exists', session' \in Sessions, session \in Sessions,
         Game \in Games, Game' \in Games, Earlier(session, session')
  PROVE  v \in HeldViews'
<1>1. v \in Views /\ Earlier(v, session)
  BY DEF HeldViews
<1>2. Earlier(v, session')
  BY <1>1, EarlierTransitive DEF Views, Sessions, Game
<1> QED BY <1>1, <1>2 DEF HeldViews

LEMMA GameOfSession ==
  ASSUME SessionGood, Exists PROVE Game \in Games
BY GamesAreGames DEF SessionGood, GoodGame

LEMMA SnapshotHeld == SessionGood /\ Exists => Snapshot(session) \in HeldViews
<1> SUFFICES ASSUME SessionGood, Exists PROVE Snapshot(session) \in HeldViews
  OBVIOUS
<1>1. session \in Sessions /\ Game \in Games
  BY GameOfSession DEF SessionGood
<1>2. Snapshot(session) \in Views
  BY <1>1 DEF Snapshot, Sessions, Views, Game
<1>3. Earlier(session, session)
  BY <1>1, EarlierReflexive DEF Sessions, Game
<1>4. Earlier(Snapshot(session), session)
  BY <1>3 DEF Snapshot, Earlier, NotAfter
<1> QED BY <1>2, <1>4 DEF HeldViews

-----------------------------------------------------------------------------
(* The initial state *)

LEMMA InitIInv == Init => IInv
<1> SUFFICES ASSUME Init PROVE IInv
  OBVIOUS
<1> USE DEF Init
<1>1. WiresHeld
  BY EmptySeq DEF WireInit, WiresHeld, LineStates
<1>2. TabsHeld
  BY EmptySeq, BoundsAssumption, MaxLossesAssumption
  DEF BrowserInit, TabsHeld, Tabs, NewTab, HasView
<1>3. SessionGood
  BY DEF ServerInit, SessionGood, Exists, Sessions, NoSession, Colours
<1>4. ServerTyped
  BY DEF ServerInit, ServerTyped
<1>5. LinesFresh /\ DownWhileOpen
  BY DEF WireInit, LinesFresh, DownWhileOpen
<1>6. WaitingKnown
  BY DEF ServerInit, WaitingKnown
<1>7. SeatsKnown /\ SeatPresence /\ PresentPlayersHear
  BY DEF ServerInit, SeatsKnown, SeatPresence, PresentPlayersHear, NoSession
<1>8. DownOrdered
  BY EmptySeq DEF WireInit, DownOrdered
<1>9. ViewBeforeDown
  BY DEF BrowserInit, ViewBeforeDown, HasView, NewTab
<1> QED BY <1>1, <1>2, <1>3, <1>4, <1>5, <1>6, <1>7, <1>8, <1>9 DEF IInv

LEMMA IInvImplies == IInv => TypeOK /\ SeatPresence /\ PresentPlayersHear
<1> SUFFICES ASSUME IInv PROVE TypeOK
  BY DEF IInv
<1> USE DEF IInv
<1>1. \A msg \in UpMessages : IsUp(msg)
  BY ViewsAreViews DEF UpMessages, Requests, Submission, HeldViews, IsUp
<1>2. \A msg \in DownMessages : IsDown(msg)
  <2> SUFFICES ASSUME NEW msg \in DownMessages PROVE IsDown(msg)
    OBVIOUS
  <2>1. CASE msg \in [type : {"WELCOME"}]
    BY <2>1 DEF IsDown
  <2>2. CASE msg \in [type : {"STATE"}, view : HeldViews]
    BY <2>2, ViewsAreViews DEF IsDown, HeldViews
  <2>3. CASE msg \in [type : {"REMATCH_STATUS"}, rematch : [Colours -> BOOLEAN]]
    BY <2>3 DEF IsDown
  <2> QED BY <2>1, <2>2, <2>3 DEF DownMessages
<1>3. \A S : \A q \in Seq(S) : IsSequence(q) /\ \A i \in 1 .. Len(q) : q[i] \in S
  BY LenProperties, ElementOfSeq DEF IsSequence
<1>4. /\ up = [s \in Lines |-> up[s]]
      /\ \A s \in Lines : IsSequence(up[s]) /\ \A i \in 1 .. Len(up[s]) : IsUp(up[s][i])
  BY <1>1, <1>3 DEF WiresHeld
<1>5. /\ down = [s \in Lines |-> down[s]]
      /\ \A s \in Lines : IsSequence(down[s]) /\ \A i \in 1 .. Len(down[s]) : IsDown(down[s][i])
  BY <1>2, <1>3 DEF WiresHeld
<1>6. /\ kept = [p \in Players |-> kept[p]]
      /\ \A p \in Players : IsSequence(kept[p]) /\ \A i \in 1 .. Len(kept[p]) : IsUp(kept[p][i])
  BY <1>1, <1>3 DEF TabsHeld
<1>7. tab = [p \in Players |-> tab[p]] /\ \A p \in Players : IsTab(tab[p])
  BY ViewsAreViews DEF TabsHeld, Tabs, IsTab
<1>8. IsSession(session)
  BY DEF SessionGood, Sessions, IsSession, Exists, Game, GoodGame
<1> QED BY <1>4, <1>5, <1>6, <1>7, <1>8
        DEF TypeOK, WiresHeld, LineStates, TabsHeld, ServerTyped

-----------------------------------------------------------------------------
(* The server takes the session forward. *)

LEMMA LinesAreLines ==
  \A s \in Lines : s # NoLine /\ PlayerOf(s) \in Players /\ s[1] \in Players /\ s[2] \in Nat
BY MaxLossesAssumption DEF Lines, NoLine, PlayerOf

LEMMA SeatOfType ==
  ASSUME NEW g, NEW p, SeatOf(g, p) # "null" PROVE SeatOf(g, p) \in Colours
BY DEF SeatOf, Colours

\* A session with another game and other seats is the same session later.
LEMMA SessionForward ==
  ASSUME SessionGood, Exists, NEW g, GoodGame(g), NEW n \in Nat,
         NEW st \in [Colours -> Lines \cup {NoLine}], st["white"] # NoLine,
         NEW cn \in [Colours -> BOOLEAN],
         session' = [number |-> n, game |-> g, seat |-> st, connected |-> cn],
         Earlier(session, [number |-> n, game |-> g])
  PROVE  SessionGood' /\ Exists' /\ Earlier(session, session')
<1>1. session' \in Sessions /\ session'.seat["white"] # NoLine /\ session'.game = g
  BY GamesAreGames DEF Sessions, GoodGame
<1>2. session' # NoSession
  BY <1>1 DEF NoSession, Colours
<1>3. Earlier(session, session')
  BY DEF Earlier, NotAfter
<1> QED BY <1>1, <1>2, <1>3 DEF SessionGood, Exists, Game

LEMMA SessionShape ==
  ASSUME SessionGood, Exists
  PROVE  /\ session = [number |-> session.number, game |-> session.game,
                       seat |-> session.seat, connected |-> session.connected]
         /\ session.number \in Nat
         /\ session.seat \in [Colours -> Lines \cup {NoLine}]
         /\ session.connected \in [Colours -> BOOLEAN]
         /\ session.seat["white"] # NoLine
         /\ GoodGame(session.game) /\ session.game \in Games
BY GameOfSession DEF SessionGood, Sessions, Game

LEMMA JoinGameForward ==
  ASSUME SessionGood, NEW s \in Lines, JoinGame(s)
  PROVE  SessionGood' /\ Exists /\ Exists' /\ Earlier(session, session')
<1> DEFINE g == Seated(Game, PlayerOf(s))
           st == [session.seat EXCEPT !["black"] = s]
           cn == [session.connected EXCEPT !["black"] = TRUE]
<1>1. Exists /\ CanJoinSession(Game)
  BY DEF JoinGame, Request, Accepts
<1>2. GoodGame(g)
  BY <1>1, SessionShape, SeatedGood, LinesAreLines DEF Game
<1>3. session' = [number |-> session.number, game |-> g, seat |-> st, connected |-> cn]
  BY <1>1, SessionShape DEF JoinGame, Game
<1>4. Earlier(session, [number |-> session.number, game |-> g])
  BY <1>1, SessionShape DEF Seated, Game, Earlier, NotAfter, Rank, Games, SessionStates
<1>5. /\ st \in [Colours -> Lines \cup {NoLine}] /\ st["white"] # NoLine
      /\ cn \in [Colours -> BOOLEAN]
  BY <1>1, SessionShape DEF Colours
<1> HIDE DEF g, st, cn
<1> QED BY <1>1, <1>2, <1>3, <1>4, <1>5, SessionForward, SessionShape

LEMMA ResumeGameForward ==
  ASSUME SessionGood, NEW s \in Lines, ResumeGame(s)
  PROVE  SessionGood' /\ Exists /\ Exists' /\ Earlier(session, session')
<1> DEFINE c == SeatOf(Game, PlayerOf(s))
           st == [session.seat EXCEPT ![c] = s]
           cn == [session.connected EXCEPT ![c] = TRUE]
<1>1. Exists /\ c \in Colours
  BY SeatOfType DEF ResumeGame, Request, Accepts
<1>2. session' = [number |-> session.number, game |-> session.game,
                  seat |-> st, connected |-> cn]
  BY <1>1, SessionShape DEF ResumeGame
<1>3. Earlier(session, [number |-> session.number, game |-> session.game])
  BY <1>1, SessionShape DEF Earlier, NotAfter, Rank, Games, SessionStates
<1>4. /\ st \in [Colours -> Lines \cup {NoLine}] /\ st["white"] # NoLine
      /\ cn \in [Colours -> BOOLEAN]
  BY <1>1, SessionShape, LinesAreLines DEF Colours
<1> HIDE DEF c, st, cn
<1> QED BY <1>1, <1>2, <1>3, <1>4, SessionForward, SessionShape

LEMMA DisconnectForward ==
  ASSUME SessionGood, NEW s \in Lines, HandleDisconnect(s)
  PROVE  /\ SessionGood'
         /\ Exists => Exists' /\ Earlier(session, session')
<1>1. CASE UNCHANGED session
  BY <1>1, EarlierReflexive, SessionShape DEF SessionGood, Exists, Game, Sessions
<1>2. CASE session' = SocketDisconnected(session, s) /\ \E c \in Colours : session.seat[c] = s
  <2> DEFINE cn == [c \in Colours |-> session.connected[c] /\ session.seat[c] # s]
  <2>1. Exists
    BY <1>2, LinesAreLines DEF Exists, NoSession
  <2>2. session' = [number |-> session.number, game |-> session.game,
                    seat |-> session.seat, connected |-> cn]
    BY <1>2, <2>1, SessionShape DEF SocketDisconnected
  <2>3. Earlier(session, [number |-> session.number, game |-> session.game])
    BY <2>1, SessionShape DEF Earlier, NotAfter, Rank, Games, SessionStates
  <2>4. cn \in [Colours -> BOOLEAN]
    BY <2>1, SessionShape
  <2> HIDE DEF cn
  <2> QED BY <2>1, <2>2, <2>3, <2>4, SessionForward, SessionShape
<1> QED BY <1>1, <1>2 DEF HandleDisconnect

LEMMA CompletedForward ==
  ASSUME NEW g, GoodGame(g), CanSubmitMove(g), NEW m \in Moves
  PROVE  /\ Completed(Moved(g, m), m).revision = g.revision + 1
         /\ Completed(Moved(g, m), m).state \in {"IN_PROGRESS", "FINISHED"}
<1> DEFINE h == Moved(g, m)
<1>1. h.revision = g.revision + 1 /\ h.state = "IN_PROGRESS" /\ IsGame(h)
  BY MovedPosition
<1> HIDE DEF h
<1>2. CASE Outcome[m] = "checkmate"
  <2>1. Completed(h, m) = [h EXCEPT !.state = "FINISHED", !.turnColour = "null",
                      !.result = IF TurnAfter(h.revision) = "white"
                                 THEN "BLACK_WIN_CHECKMATE"
                                 ELSE "WHITE_WIN_CHECKMATE"]
    BY <1>2 DEF Completed
  <2> QED BY <1>1, <2>1 DEF IsGame, h
<1>3. CASE Outcome[m] = "draw"
  <2>1. Completed(h, m)
          = [h EXCEPT !.state = "FINISHED", !.turnColour = "null", !.result = "DRAW"]
    BY <1>3 DEF Completed
  <2> QED BY <1>1, <2>1 DEF IsGame, h
<1>4. CASE Outcome[m] = "none"
  <2>1. Completed(h, m) = h
    BY <1>4 DEF Completed
  <2> QED BY <1>1, <2>1 DEF h
<1> QED BY <1>2, <1>3, <1>4, OutcomeAssumption

\* A rule that changes the game alone, and the number if it starts a rematch.
LEMMA GameForward ==
  ASSUME SessionGood, Exists, NEW g, GoodGame(g), NEW n \in Nat,
         session' = [session EXCEPT !.game = g, !.number = n],
         Earlier(session, [number |-> n, game |-> g])
  PROVE  SessionGood' /\ Exists' /\ Earlier(session, session')
<1>1. session' = [number |-> n, game |-> g,
                  seat |-> session.seat, connected |-> session.connected]
  BY SessionShape
<1> QED BY <1>1, SessionForward, SessionShape

LEMMA SubmitMoveForward ==
  ASSUME SessionGood, NEW s \in Lines, SubmitMove(s), Head(up[s]).move \in Moves
  PROVE  SessionGood' /\ Exists /\ Exists' /\ Earlier(session, session')
<1> DEFINE m == Head(up[s]).move
           g == Completed(Moved(Game, m), m)
<1>1. Exists /\ CanSubmitMove(Game)
  BY DEF SubmitMove, Request, Accepts, AcceptsMove
<1>2. GoodGame(g)
  BY <1>1, SessionShape, CompletedGood DEF Game
<1>3. session' = [session EXCEPT !.game = g, !.number = session.number]
  BY <1>1, SessionShape DEF SubmitMove, Game
<1>4. g.revision = Game.revision + 1 /\ g.state \in {"IN_PROGRESS", "FINISHED"}
  BY <1>1, SessionShape, CompletedForward DEF Game
<1> HIDE DEF g
<1>5. Earlier(session, [number |-> session.number, game |-> g])
  BY <1>1, <1>4, SessionShape DEF Game, Earlier, NotAfter, Rank, Games, CanSubmitMove
<1> QED BY <1>1, <1>2, <1>3, <1>5, GameForward, SessionShape

LEMMA ResignGameForward ==
  ASSUME SessionGood, NEW s \in Lines, ResignGame(s)
  PROVE  SessionGood' /\ Exists /\ Exists' /\ Earlier(session, session')
<1> DEFINE c == SeatOf(Game, PlayerOf(s))
           g == Resigned(Game, c)
<1>1. Exists /\ c \in Colours /\ Game.state = "IN_PROGRESS"
  BY SeatOfType DEF ResignGame, Request, Accepts
<1>2. GoodGame(g)
  BY <1>1, SessionShape, ResignedGood DEF Game
<1>3. session' = [session EXCEPT !.game = g, !.number = session.number]
  BY <1>1, SessionShape DEF ResignGame, Game
<1>4. g.revision = Game.revision /\ g.fen = Game.fen /\ g.state = "FINISHED"
  BY <1>1, SessionShape DEF Game, Games, Resigned
<1> HIDE DEF g
<1>5. Earlier(session, [number |-> session.number, game |-> g])
  BY <1>1, <1>4, SessionShape DEF Game, Earlier, NotAfter, Rank, Games
<1> QED BY <1>1, <1>2, <1>3, <1>5, GameForward, SessionShape

LEMMA RequestRematchForward ==
  ASSUME SessionGood, NEW s \in Lines, RequestRematch(s)
  PROVE  SessionGood' /\ Exists /\ Exists' /\ Earlier(session, session')
<1> DEFINE c == SeatOf(Game, PlayerOf(s))
           asked == RematchAsked(Game, c)
           again == RematchStarted(Game)
<1>1. Exists /\ c \in Colours /\ Game.state = "FINISHED"
  BY SeatOfType DEF RequestRematch, Request, Accepts
<1>2. CASE ~ BothPlayersAccepted(asked) /\ session' = [session EXCEPT !.game = asked]
  <2>1. GoodGame(asked)
    BY <1>1, <1>2, SessionShape, RematchAskedGood DEF Game
  <2>2. session' = [session EXCEPT !.game = asked, !.number = session.number]
    BY <1>1, <1>2, SessionShape
  <2>3. Earlier(session, [number |-> session.number, game |-> asked])
    BY <1>1, SessionShape DEF Game, Earlier, NotAfter, Rank, Games, RematchAsked
  <2> HIDE DEF asked
  <2> QED BY <1>1, <2>1, <2>2, <2>3, GameForward, SessionShape
<1>3. CASE session' = [session EXCEPT !.game = again, !.number = @ + 1]
  <2>1. GoodGame(again)
    BY <1>1, SessionShape, RematchStartedGood DEF Game
  <2>2. session' = [session EXCEPT !.game = again, !.number = session.number + 1]
    BY <1>1, <1>3, SessionShape
  <2>3. Earlier(session, [number |-> session.number + 1, game |-> again])
    BY <1>1, SessionShape DEF Earlier, NotAfter
  <2>4. session.number + 1 \in Nat
    BY <1>1, SessionShape
  <2> HIDE DEF again
  <2> QED BY <1>1, <2>1, <2>2, <2>3, <2>4, GameForward
<1> QED BY <1>1, <1>2, <1>3 DEF RequestRematch, Game

LEMMA StartGameForward ==
  ASSUME SessionGood, Exists, NEW s \in Lines, StartGame(s)
  PROVE  SessionGood' /\ Exists' /\ Earlier(session, session')
<1> DEFINE g == IF IsReadyToStart(Game) THEN Started(Game) ELSE Game
<1>1. GoodGame(g)
  BY SessionShape, StartedGood DEF Game
<1>2. session' = [session EXCEPT !.game = g, !.number = session.number]
  BY SessionShape DEF StartGame, Game
<1>3. Earlier(session, [number |-> session.number, game |-> g])
  BY SessionShape DEF Game, Earlier, NotAfter, Rank, Games, Started, IsReadyToStart
<1> HIDE DEF g
<1> QED BY <1>1, <1>2, <1>3, GameForward, SessionShape

LEMMA CreateSessionGood ==
  ASSUME NEW s \in Lines, CreateSession(s)
  PROVE  SessionGood' /\ ~ Exists /\ Exists'
<1>1. ~ Exists /\ session'.game = CreatedBy(PlayerOf(s)) /\ session'.seat["white"] = s
      /\ session' = [number |-> 0, game |-> CreatedBy(PlayerOf(s)),
              seat |-> [c \in Colours |-> IF c = "white" THEN s ELSE NoLine],
              connected |-> [c \in Colours |-> c = "white"]]
  BY DEF CreateSession, Colours
<1>2. GoodGame(CreatedBy(PlayerOf(s))) /\ CreatedBy(PlayerOf(s)) \in Games
  BY CreatedGood, LinesAreLines, GamesAreGames DEF GoodGame
<1>3. session' \in Sessions
  BY <1>1, <1>2 DEF Sessions, Colours
<1>4. session' # NoSession
  BY <1>1, LinesAreLines DEF NoSession, Colours
<1> QED BY <1>1, <1>2, <1>3, <1>4, LinesAreLines DEF SessionGood, Exists, Game

LEMMA SameSession ==
  ASSUME session' = session
  PROVE  /\ SessionGood => SessionGood'
         /\ Exists' <=> Exists
         /\ HeldViews' = HeldViews /\ UpMessages' = UpMessages /\ DownMessages' = DownMessages
BY DEF SessionGood, Exists, Game, HeldViews, UpMessages, DownMessages

Forward == SessionGood' /\ (Exists => Exists' /\ Earlier(session, session'))

LEMMA StutterForward == ASSUME SessionGood, session' = session PROVE Forward
BY SameSession, SessionShape, EarlierReflexive DEF Forward

LEMMA HandlerForward ==
  ASSUME IInv, NEW s \in Lines, Handler(s) PROVE Forward
<1>1. CASE Hello(s) \/ CreateGame(s) \/ Refuse(s)
  BY <1>1, StutterForward DEF IInv, Hello, CreateGame, Refuse, server
<1>2. CASE JoinGame(s) \/ ResumeGame(s) \/ ResignGame(s) \/ RequestRematch(s)
  BY <1>2, JoinGameForward, ResumeGameForward, ResignGameForward, RequestRematchForward
  DEF IInv, Forward
<1>3. CASE SubmitMove(s)
  <2>1. Head(up[s]) \in UpMessages /\ Head(up[s]).type = "MOVE_SUBMIT"
    BY <1>3, HeadTailProperties DEF SubmitMove, Request, Receive, IInv, WiresHeld
  <2>2. Head(up[s]).move \in Moves
    BY <2>1 DEF UpMessages, Requests, Submission
  <2> QED BY <1>3, <2>2, SubmitMoveForward DEF IInv, Forward
<1> QED BY <1>1, <1>2, <1>3 DEF Handler

LEMMA ContinuationForward ==
  ASSUME IInv, NEW s \in Lines, Continuation(s) PROVE Forward
<1>1. CASE CreateSession(s)
  BY <1>1, CreateSessionGood DEF Forward
<1>2. CASE StartGame(s)
  <2>1. Exists
    BY <1>2 DEF StartGame, IInv, WaitingKnown, Continuations
  <2> QED BY <1>2, <2>1, StartGameForward DEF IInv, Forward
<1>3. CASE session' = session
  BY <1>3, StutterForward DEF IInv
<1> QED BY <1>1, <1>2, <1>3
        DEF Continuation, FailToCreate, AnswerJoin, AnswerMove, AnswerResign,
            AnswerRematchStatus, AnswerRematchStart, AnswerResume, ReportDisconnect

LEMMA NextForward == ASSUME IInv, [Next]_vars PROVE Forward
<1>1. CASE UNCHANGED vars
  BY <1>1, StutterForward DEF IInv, vars, server
<1>2. ASSUME NEW p \in Players, Open(p) \/ Page(p) PROVE Forward
  BY <1>2, StutterForward DEF IInv, Open, RegisterSocket, Page, server
<1>3. ASSUME NEW s \in Lines, Serve(s) PROVE Forward
  BY <1>3, HandlerForward, ContinuationForward, DisconnectForward DEF Serve, IInv, Forward
<1> QED BY <1>1, <1>2, <1>3 DEF Next

\* What has been shown has been shown for good.
LEMMA HeldGrows ==
  ASSUME SessionGood, Forward
  PROVE  /\ HeldViews \subseteq HeldViews'
         /\ UpMessages \subseteq UpMessages' /\ DownMessages \subseteq DownMessages'
<1>1. HeldViews \subseteq HeldViews'
  <2> SUFFICES ASSUME NEW v \in HeldViews PROVE v \in HeldViews'
    OBVIOUS
  <2>1. Exists /\ Exists'
    BY DEF HeldViews, Forward
  <2>2. Game \in Games /\ Game' \in Games /\ session \in Sessions /\ session' \in Sessions
    BY <2>1, GamesAreGames DEF Forward, SessionGood, GoodGame
  <2> QED BY <2>1, <2>2, HeldForGood DEF Forward
<1> QED BY <1>1 DEF UpMessages, DownMessages

-----------------------------------------------------------------------------
(* The messages of a step *)

LEMMA EmittedHeld ==
  ASSUME NEW S, down \in [Lines -> Seq(S)], NEW to, NEW msg \in S
  PROVE  Emitted(to, msg) \in [Lines -> Seq(S)]
<1>1. \A s \in Lines : Append(down[s], msg) \in Seq(S)
  BY AppendProperties
<1> QED BY <1>1 DEF Emitted

\* The server emits nothing, or the session as it is then, or something else
\* than the session.
Emits ==
  \/ down' = down
  \/ \E to \in SUBSET Lines : \E msg \in DownMessages' :
       /\ msg.type = "STATE" => msg.view = Snapshot(session')
       /\ down' = Emitted(to, msg)

LEMMA StateMessageEmits ==
  ASSUME SessionGood', Exists', NEW to \in SUBSET Lines,
         down' = Emitted(to, StateMessage(session'))
  PROVE  Emits
<1>1. (Snapshot(session) \in HeldViews)'
  BY SnapshotHeld, PTL
<1> QED BY <1>1 DEF StateMessage, DownMessages, Emits

LEMMA HandlerEmits ==
  ASSUME NEW s \in Lines, Handler(s) \/ HandleDisconnect(s) PROVE Emits
<1>1. CASE Hello(s)
  <2>1. down' = Emitted({s}, [type |-> "WELCOME"])
    BY <1>1 DEF Hello
  <2>2. [type |-> "WELCOME"] \in DownMessages'
    BY DEF DownMessages
  <2>3. {s} \in SUBSET Lines
    OBVIOUS
  <2> QED BY <2>1, <2>2, <2>3 DEF Emits
<1>2. CASE down' = down
  BY <1>2 DEF Emits
<1> QED BY <1>1, <1>2
        DEF Handler, Request, CreateGame, JoinGame, ResumeGame, SubmitMove, ResignGame,
            RequestRematch, Refuse, HandleDisconnect, CloseThere

LEMMA RoomStaysTyped ==
  ASSUME ServerTyped, NEW s \in Lines, Continuation(s) PROVE room' \subseteq Lines
<1>1. CASE EnterRoom(s)
  BY <1>1 DEF EnterRoom, ServerTyped
<1>2. CASE room' = room
  BY <1>2 DEF ServerTyped
<1> QED BY <1>1, <1>2
        DEF Continuation, CreateSession, FailToCreate, StartGame, AnswerJoin, AnswerMove,
            AnswerResign, AnswerRematchStatus, AnswerRematchStart, AnswerResume,
            ReportDisconnect

LEMMA ContinuationEmits ==
  ASSUME IInv, NEW s \in Lines, Continuation(s) PROVE Emits
<1>1. SessionGood' /\ (Exists => Exists')
  BY ContinuationForward DEF Forward
<1>2. room \in SUBSET Lines /\ room' \in SUBSET Lines /\ {s} \cap room' \in SUBSET Lines
  BY RoomStaysTyped DEF IInv, ServerTyped
<1>3. \A k \in Continuations \ {"create"} : Return(s, k) => Exists
  BY DEF Return, IInv, WaitingKnown
<1>4. CASE CreateSession(s)
  <2>1. Exists' /\ \E to \in SUBSET Lines : down' = Emitted(to, StateMessage(session'))
    BY <1>2, <1>4, CreateSessionGood DEF CreateSession, Emit
  <2> QED BY <1>1, <2>1, StateMessageEmits
<1>5. CASE FailToCreate(s) \/ StartGame(s)
  BY <1>5 DEF FailToCreate, StartGame, wires, Emits
<1>6. CASE AnswerRematchStatus(s)
  <2> DEFINE msg == [type |-> "REMATCH_STATUS", rematch |-> Game.rematch]
  <2>1. Game \in Games
    BY <1>3, <1>6, GameOfSession DEF AnswerRematchStatus, Continuations, IInv
  <2>2. msg \in DownMessages'
    BY <2>1 DEF DownMessages, Games
  <2>3. down' = Emitted(room, msg)
    BY <1>6 DEF AnswerRematchStatus, Emit
  <2> QED BY <1>2, <2>2, <2>3 DEF Emits
<1>7. ASSUME NEW k \in Continuations \ {"create"}, Return(s, k), session' = session,
             \/ Emit(room, StateMessage(session))
             \/ Emit(room', StateMessage(session))
             \/ Emit({s} \cap room', StateMessage(session))
      PROVE  Emits
  <2>1. Exists'
    BY <1>1, <1>3, <1>7
  <2>2. \E to \in SUBSET Lines : down' = Emitted(to, StateMessage(session'))
    BY <1>2, <1>7 DEF Emit
  <2> QED BY <1>1, <2>1, <2>2, StateMessageEmits
<1> QED BY <1>4, <1>5, <1>6, <1>7
        DEF Continuation, AnswerJoin, AnswerMove, AnswerResign, AnswerRematchStart,
            AnswerResume, ReportDisconnect, Continuations

LEMMA ConnectedLine ==
  ASSUME TabsHeld, NEW p \in Players, tab[p].line > 0 PROVE LineOf(p) \in Lines
BY MaxLossesAssumption DEF TabsHeld, Tabs, LineOf, Lines

\* What a step does to the messages on their way to the tabs.
LEMMA NextDown ==
  ASSUME IInv, [Next]_vars
  PROVE  \/ Emits
         \/ \E s \in Lines : here'[s] = "closed" /\ down' = [down EXCEPT ![s] = << >>]
         \/ \E p \in Players : ReceiveDown(p)
<1>1. CASE UNCHANGED vars
  BY <1>1 DEF Emits, vars, wires
<1>2. ASSUME NEW p \in Players, Open(p) PROVE Emits
  BY <1>2 DEF Open, Connect, OpenLine, Emits
<1>3. ASSUME NEW p \in Players, Page(p)
      PROVE  \/ Emits
             \/ \E s \in Lines : here'[s] = "closed" /\ down' = [down EXCEPT ![s] = << >>]
             \/ \E q \in Players : ReceiveDown(q)
  <2>1. CASE User(p)
    <3>1. down' = down
      BY <2>1 DEF User, HandleCreateRoom, HandleJoinRoom, HandleResumeGame,
                  HandleRequestRematch, HandleResign, HandlePieceDrop, EmitSocketMessage,
                  SendUp, wires
    <3> QED BY <3>1 DEF Emits
  <2>2. CASE Disconnect(p) \/ Reload(p)
    <3>1. CASE down' = down
      BY <3>1 DEF Emits
    <3>2. CASE Connected(p) /\ CloseHere(LineOf(p))
      <4>1. LineOf(p) \in Lines
        BY <3>2, ConnectedLine DEF IInv, Connected
      <4>2. here'[LineOf(p)] = "closed"
        BY <3>2, <4>1 DEF CloseHere, IInv, WiresHeld, LineStates
      <4> QED BY <3>2, <4>1, <4>2 DEF CloseHere
    <3> QED BY <2>2, <3>1, <3>2 DEF Disconnect, Reload, wires
  <2> QED BY <1>3, <2>1, <2>2 DEF Page
<1>4. ASSUME NEW s \in Lines, Serve(s) PROVE Emits
  BY <1>4, HandlerEmits, ContinuationEmits DEF Serve
<1> QED BY <1>1, <1>2, <1>3, <1>4 DEF Next

\* The messages of the tabs are those they kept and those they send, of whatever set
\* these are.
LEMMA EmitSocketMessageHeld ==
  ASSUME NEW S, up \in [Lines -> Seq(S)], kept \in [Players -> Seq(S)],
         NEW p \in Players, NEW msg \in S, EmitSocketMessage(p, msg)
  PROVE  up' \in [Lines -> Seq(S)] /\ kept' \in [Players -> Seq(S)]
<1>1. \A q \in Seq(S) : Append(q, msg) \in Seq(S)
  BY AppendProperties
<1>2. kept' \in [Players -> Seq(S)]
  BY <1>1 DEF EmitSocketMessage
<1>3. up' \in [Lines -> Seq(S)]
  BY <1>1 DEF EmitSocketMessage, SendUp, wires
<1> QED BY <1>2, <1>3

LEMMA UserHeld ==
  ASSUME NEW S, up \in [Lines -> Seq(S)], kept \in [Players -> Seq(S)],
         Requests \subseteq S, NEW p \in Players, User(p),
         \A m \in Moves : HandlePieceDrop(p, m) => Submission(m, tab[p].view) \in S
  PROVE  up' \in [Lines -> Seq(S)] /\ kept' \in [Players -> Seq(S)]
<1>1. ASSUME NEW t \in {"HELLO", "GAME_CREATE", "GAME_JOIN", "GAME_RESUME",
                        "REMATCH_REQUEST", "RESIGN"},
             EmitSocketMessage(p, [type |-> t])
      PROVE  up' \in [Lines -> Seq(S)] /\ kept' \in [Players -> Seq(S)]
  <2>1. [type |-> t] \in S
    BY DEF Requests
  <2> QED BY <1>1, <2>1, EmitSocketMessageHeld
<1>2. ASSUME NEW m \in Moves, HandlePieceDrop(p, m)
      PROVE  up' \in [Lines -> Seq(S)] /\ kept' \in [Players -> Seq(S)]
  <2>1. Submission(m, tab[p].view) \in S
    BY <1>2
  <2>2. EmitSocketMessage(p, Submission(m, tab[p].view))
    BY <1>2 DEF HandlePieceDrop, Submission, Shown
  <2> QED BY <2>1, <2>2, EmitSocketMessageHeld
<1> QED BY <1>1, <1>2 DEF User, HandleCreateRoom, HandleJoinRoom, HandleResumeGame,
                          HandleRequestRematch, HandleResign

LEMMA ReceiveHeld ==
  ASSUME NEW S, up \in [Lines -> Seq(S)], NEW s \in Lines, Receive(s)
  PROVE  up' \in [Lines -> Seq(S)]
<1>1. Tail(up[s]) \in Seq(S)
  BY HeadTailProperties DEF Receive
<1> QED BY <1>1 DEF Receive

LEMMA NextSent ==
  ASSUME NEW S, up \in [Lines -> Seq(S)], kept \in [Players -> Seq(S)],
         Requests \subseteq S, [Next]_vars,
         \A p \in Players, m \in Moves :
           HandlePieceDrop(p, m) => Submission(m, tab[p].view) \in S
  PROVE  up' \in [Lines -> Seq(S)] /\ kept' \in [Players -> Seq(S)]
<1>0. << >> \in Seq(S)
  BY EmptySeq
<1>1. CASE UNCHANGED vars
  BY <1>1 DEF vars, wires, browsers
<1>2. ASSUME NEW p \in Players, Open(p)
      PROVE  up' \in [Lines -> Seq(S)] /\ kept' \in [Players -> Seq(S)]
  <2>1. Append(kept[p], [type |-> "HELLO"]) \in Seq(S)
    BY AppendProperties DEF Requests
  <2> QED BY <1>0, <1>2, <2>1 DEF Open, Connect, OpenLine
<1>3. ASSUME NEW p \in Players, Page(p)
      PROVE  up' \in [Lines -> Seq(S)] /\ kept' \in [Players -> Seq(S)]
  <2>1. CASE Disconnect(p) \/ Reload(p) \/ ReceiveDown(p)
    BY <1>0, <2>1 DEF Disconnect, Reload, ReceiveDown, CloseHere, wires
  <2> QED BY <1>3, <2>1, UserHeld DEF Page
<1>4. ASSUME NEW s \in Lines, Serve(s)
      PROVE  up' \in [Lines -> Seq(S)] /\ kept' \in [Players -> Seq(S)]
  <2>1. kept' \in [Players -> Seq(S)]
    BY <1>4 DEF Serve, browsers
  <2>2. CASE Handler(s)
    <3>1. Receive(s)
      BY <2>2 DEF Handler, Hello, Request, CreateGame, JoinGame, ResumeGame, SubmitMove,
                  ResignGame, RequestRematch, Refuse
    <3> QED BY <2>1, <3>1, ReceiveHeld
  <2>3. CASE Continuation(s)
    <3>1. up' = up
      BY <2>3 DEF Continuation, CreateSession, FailToCreate, StartGame, AnswerJoin,
                  AnswerMove, AnswerResign, AnswerRematchStatus, AnswerRematchStart,
                  AnswerResume, ReportDisconnect, Emit, wires
    <3> QED BY <2>1, <3>1
  <2>4. CASE HandleDisconnect(s)
    BY <1>0, <2>1, <2>4 DEF HandleDisconnect, CloseThere
  <2> QED BY <1>4, <2>2, <2>3, <2>4 DEF Serve
<1> QED BY <1>1, <1>2, <1>3, <1>4 DEF Next

LEMMA NextUp ==
  ASSUME IInv, [Next]_vars
  PROVE  up' \in [Lines -> Seq(UpMessages)] /\ kept' \in [Players -> Seq(UpMessages)]
<1>1. up \in [Lines -> Seq(UpMessages)] /\ kept \in [Players -> Seq(UpMessages)]
  BY DEF IInv, WiresHeld, TabsHeld
<1>2. ASSUME NEW p \in Players, NEW m \in Moves, HandlePieceDrop(p, m)
      PROVE  Submission(m, tab[p].view) \in UpMessages
  BY <1>2 DEF HandlePieceDrop, CanDragPieces, IInv, TabsHeld, UpMessages
<1>3. Requests \subseteq UpMessages
  BY DEF UpMessages
<1> QED BY <1>1, <1>2, <1>3, NextSent

\* What a step does to the ends of the lines: one of them is opened, by its tab,
\* or closed, on one side, or none is touched.
LEMMA NextEnds ==
  ASSUME IInv, [Next]_vars
  PROVE  \/ here' = here /\ there' = there
         \/ \E p \in Players : Open(p)
         \/ \E s \in Lines : /\ here' = [here EXCEPT ![s] = "closed"] /\ there' = there
                             /\ s[2] <= tab[s[1]].line /\ down' = [down EXCEPT ![s] = << >>]
         \/ \E s \in Lines : HandleDisconnect(s)
<1>1. CASE UNCHANGED vars
  BY <1>1 DEF vars, wires
<1>2. ASSUME NEW p \in Players, Page(p)
      PROVE  \/ here' = here /\ there' = there
             \/ \E s \in Lines : /\ here' = [here EXCEPT ![s] = "closed"] /\ there' = there
                                 /\ s[2] <= tab[s[1]].line
                                 /\ down' = [down EXCEPT ![s] = << >>]
  <2>1. CASE Connected(p) /\ CloseHere(LineOf(p))
    <3>1. LineOf(p) \in Lines /\ LineOf(p)[2] <= tab[LineOf(p)[1]].line
      BY <2>1, ConnectedLine DEF IInv, TabsHeld, Tabs, Connected, LineOf
    <3> QED BY <2>1, <3>1 DEF CloseHere
  <2>2. CASE here' = here /\ there' = there
    BY <2>2
  <2> QED BY <1>2, <2>1, <2>2
          DEF Page, Disconnect, Reload, ReceiveDown, User, HandleCreateRoom, HandleJoinRoom,
              HandleResumeGame, HandleRequestRematch, HandleResign, HandlePieceDrop,
              EmitSocketMessage, SendUp, wires
<1>3. ASSUME NEW s \in Lines, Handler(s) PROVE here' = here /\ there' = there
  BY <1>3 DEF Handler, Hello, Request, CreateGame, JoinGame, ResumeGame, SubmitMove,
              ResignGame, RequestRematch, Refuse, Receive
<1>4. ASSUME NEW s \in Lines, Continuation(s) PROVE here' = here /\ there' = there
  BY <1>4 DEF Continuation, CreateSession, FailToCreate, StartGame, AnswerJoin,
              AnswerMove, AnswerResign, AnswerRematchStatus, AnswerRematchStart,
              AnswerResume, ReportDisconnect, Emit, wires
<1> QED BY <1>1, <1>2, <1>3, <1>4 DEF Next, Serve

LEMMA WiresHeldNext == ASSUME IInv, [Next]_vars PROVE WiresHeld'
<1>1. /\ DownMessages \subseteq DownMessages' /\ UpMessages \subseteq UpMessages'
  BY HeldGrows, NextForward DEF IInv
<1>2. up' \in [Lines -> Seq(UpMessages')]
  <2>1. \A q \in Seq(UpMessages) : q \in Seq(UpMessages')
    BY <1>1, SeqMonotonic
  <2> QED BY <2>1, NextUp
<1>3. down \in [Lines -> Seq(DownMessages')]
  <2>1. \A q \in Seq(DownMessages) : q \in Seq(DownMessages')
    BY <1>1, SeqMonotonic
  <2> QED BY <2>1 DEF IInv, WiresHeld
<1>4. down' \in [Lines -> Seq(DownMessages')]
  <2>1. CASE Emits
    BY <1>3, <2>1, EmittedHeld DEF Emits
  <2>2. ASSUME NEW s \in Lines, down' = [down EXCEPT ![s] = << >>]
        PROVE  down' \in [Lines -> Seq(DownMessages')]
    BY <1>3, <2>2, EmptySeq
  <2>3. ASSUME NEW p \in Players, ReceiveDown(p)
        PROVE  down' \in [Lines -> Seq(DownMessages')]
    <3>1. LineOf(p) \in Lines
      BY <2>3, ConnectedLine DEF ReceiveDown, Connected, IInv
    <3>2. Tail(down[LineOf(p)]) \in Seq(DownMessages')
      BY <1>3, <2>3, <3>1, HeadTailProperties DEF ReceiveDown
    <3> QED BY <1>3, <2>3, <3>1, <3>2 DEF ReceiveDown
  <2> QED BY <2>1, <2>2, <2>3, NextDown
<1>5. here' \in LineStates /\ there' \in LineStates
  BY NextEnds DEF IInv, WiresHeld, LineStates, Open, Connect, OpenLine, HandleDisconnect,
                  CloseThere
<1> QED BY <1>2, <1>4, <1>5 DEF WiresHeld

-----------------------------------------------------------------------------
(* What the tabs show *)

\* Two views that differ at most in the consents to a rematch.
SameUpToConsent(v, w) ==
  /\ v.number = w.number
  /\ v.game.revision = w.game.revision
  /\ v.game.state = w.game.state
  /\ v.game.fen = w.game.fen

LEMMA ConsentShown ==
  ASSUME NEW v \in HeldViews, NEW r \in [Colours -> BOOLEAN]
  PROVE  /\ [v EXCEPT !.game.rematch = r] \in HeldViews
         /\ SameUpToConsent(v, [v EXCEPT !.game.rematch = r])
<1> DEFINE w == [v EXCEPT !.game.rematch = r]
<1>1. v \in Views /\ Exists /\ Earlier(v, session)
  BY DEF HeldViews
<1>2. w \in Views
  BY <1>1 DEF Views, Games
<1>3. SameUpToConsent(v, w)
  BY <1>1 DEF Views, Games, SameUpToConsent
<1>4. Earlier(w, session)
  BY <1>1, <1>3 DEF Earlier, NotAfter, Rank, SameUpToConsent
<1> QED BY <1>1, <1>2, <1>3, <1>4 DEF HeldViews

\* A message changes only what its tab shows: to the session it brings, or in
\* the consents.
LEMMA ReceiveDownShows ==
  ASSUME IInv, NEW p \in Players, ReceiveDown(p)
  PROVE  \E t \in Tabs :
           /\ tab' = [tab EXCEPT ![p] = t]
           /\ t.line = tab[p].line
           /\ \/ t.view = tab[p].view
              \/ /\ Head(down[LineOf(p)]).type = "STATE"
                 /\ t.view = Head(down[LineOf(p)]).view /\ t.view \in HeldViews
              \/ /\ HasView(p)
                 /\ t.view \in HeldViews /\ SameUpToConsent(tab[p].view, t.view)
<1> DEFINE msg == Head(down[LineOf(p)])
<1>1. msg \in DownMessages /\ tab[p] \in Tabs
  BY ConnectedLine, HeadTailProperties
  DEF ReceiveDown, Connected, IInv, WiresHeld, TabsHeld
<1> HIDE DEF msg
<1>2. CASE msg.type = "WELCOME" /\ tab' = [tab EXCEPT ![p] = Welcomed(@)]
  <2>1. Welcomed(tab[p]) \in Tabs /\ Welcomed(tab[p]).line = tab[p].line
        /\ Welcomed(tab[p]).view = tab[p].view
    BY <1>1 DEF Welcomed, Tabs
  <2>2. tab' = [tab EXCEPT ![p] = Welcomed(tab[p])]
    BY <1>2 DEF IInv, TabsHeld
  <2> QED BY <2>1, <2>2
<1>3. CASE msg.type = "STATE" /\ tab' = [tab EXCEPT ![p] = Synced(@, msg)]
  <2>1. msg.view \in HeldViews
    BY <1>1, <1>3 DEF DownMessages
  <2>2. Synced(tab[p], msg) \in Tabs /\ Synced(tab[p], msg).line = tab[p].line
        /\ Synced(tab[p], msg).view = msg.view
    BY <1>1, <2>1 DEF Synced, Tabs, HeldViews
  <2>3. tab' = [tab EXCEPT ![p] = Synced(tab[p], msg)]
    BY <1>3 DEF IInv, TabsHeld
  <2> QED BY <1>3, <2>1, <2>2, <2>3 DEF msg
<1>4. CASE msg.type = "REMATCH_STATUS" /\ tab' = [tab EXCEPT ![p] = RematchShown(@, msg)]
  <2>1. msg.rematch \in [Colours -> BOOLEAN]
    BY <1>1, <1>4 DEF DownMessages
  <2>2. tab' = [tab EXCEPT ![p] = RematchShown(tab[p], msg)]
    BY <1>4 DEF IInv, TabsHeld
  <2>3. CASE ~ HasView(p)
    <3>1. RematchShown(tab[p], msg) = tab[p]
      BY <2>3 DEF RematchShown, HasView
    <3> QED BY <1>1, <2>2, <3>1
  <2>4. CASE HasView(p)
    <3> DEFINE v == tab[p].view
               w == [v EXCEPT !.game.rematch = msg.rematch]
               t == [tab[p] EXCEPT !.view = w]
    <3>1. w \in HeldViews /\ SameUpToConsent(v, w)
      BY <2>1, <2>4, ConsentShown DEF IInv, TabsHeld
    <3>2. RematchShown(tab[p], msg) = t
      BY <2>4 DEF RematchShown, HasView
    <3>3. t \in Tabs /\ t.line = tab[p].line /\ t.view = w
      BY <1>1, <3>1 DEF Tabs, HeldViews
    <3> HIDE DEF w, t
    <3> QED BY <2>2, <2>4, <3>1, <3>2, <3>3
  <2> QED BY <2>3, <2>4
<1> QED BY <1>2, <1>3, <1>4 DEF ReceiveDown, msg

\* What a step does to the tabs.
LEMMA NextTabs ==
  ASSUME IInv, [Next]_vars
  PROVE  \/ tab' = tab
         \/ \E p \in Players : Open(p) \/ ReceiveDown(p)
         \/ \E p \in Players : \E t \in Tabs :
              /\ tab' = [tab EXCEPT ![p] = t] /\ t.line = tab[p].line
              /\ t.view = tab[p].view \/ (Reload(p) /\ t.view = NoView)
<1>1. CASE UNCHANGED vars
  BY <1>1 DEF vars, browsers
<1>2. ASSUME NEW p \in Players, Disconnect(p)
      PROVE  \E t \in Tabs : /\ tab' = [tab EXCEPT ![p] = t] /\ t.line = tab[p].line
                             /\ t.view = tab[p].view
  <2> DEFINE t == [tab[p] EXCEPT !.initialised = FALSE]
  <2>1. tab' = [tab EXCEPT ![p] = t]
    BY <1>2 DEF Disconnect, IInv, TabsHeld, Tabs
  <2>2. t \in Tabs /\ t.line = tab[p].line /\ t.view = tab[p].view
    BY DEF IInv, TabsHeld, Tabs
  <2> HIDE DEF t
  <2> QED BY <2>1, <2>2
<1>3. ASSUME NEW p \in Players, Reload(p)
      PROVE  \E t \in Tabs : /\ tab' = [tab EXCEPT ![p] = t] /\ t.line = tab[p].line
                             /\ t.view = NoView
  <2> DEFINE t == [tab[p] EXCEPT !.initialised = FALSE, !.view = NoView]
  <2>1. tab' = [tab EXCEPT ![p] = t]
    BY <1>3 DEF Reload, IInv, TabsHeld, Tabs
  <2>2. t \in Tabs /\ t.line = tab[p].line /\ t.view = NoView
    BY DEF IInv, TabsHeld, Tabs
  <2> HIDE DEF t
  <2> QED BY <2>1, <2>2
<1>4. ASSUME NEW p \in Players, User(p) PROVE tab' = tab
  BY <1>4 DEF User, HandleCreateRoom, HandleJoinRoom, HandleResumeGame,
              HandleRequestRematch, HandleResign, HandlePieceDrop, EmitSocketMessage
<1> QED BY <1>1, <1>2, <1>3, <1>4 DEF Next, Page, Serve, browsers

LEMMA OpenTabs ==
  ASSUME IInv, NEW p \in Players, Open(p)
  PROVE  /\ tab' \in [Players -> Tabs]
         /\ tab'[p].line = tab[p].line + 1
         /\ \A q \in Players : tab'[q].view = tab[q].view /\ (q # p => tab'[q] = tab[q])
         /\ <<p, tab[p].line + 1>> \in Lines
<1> DEFINE t == [tab[p] EXCEPT !.line = tab[p].line + 1]
<1>1. tab[p] \in Tabs /\ tab[p].line \in Nat /\ tab[p].line <= MaxLosses
  BY MaxLossesAssumption DEF Open, Connect, IInv, TabsHeld, Tabs
<1>2. tab' = [tab EXCEPT ![p] = t]
  BY DEF Open, Connect, IInv, TabsHeld
<1>3. t \in Tabs /\ t.line = tab[p].line + 1 /\ t.view = tab[p].view
  BY <1>1, MaxLossesAssumption DEF Tabs
<1>4. <<p, tab[p].line + 1>> \in Lines
  BY <1>1, MaxLossesAssumption DEF Lines
<1> HIDE DEF t
<1> QED BY <1>2, <1>3, <1>4 DEF IInv, TabsHeld

\* Every tab has its type and shows what was shown before, a session that has
\* come, or nothing.
LEMMA TabsHeldNext == ASSUME IInv, [Next]_vars PROVE TabsHeld'
<1>1. /\ HeldViews \subseteq HeldViews' /\ UpMessages \subseteq UpMessages'
  BY HeldGrows, NextForward DEF IInv
<1>2. kept' \in [Players -> Seq(UpMessages')]
  <2>1. \A q \in Seq(UpMessages) : q \in Seq(UpMessages')
    BY <1>1, SeqMonotonic
  <2> QED BY <2>1, NextUp
<1>3. clicks' \in Nat
  <2>1. clicks \in Nat
    BY DEF IInv, TabsHeld
  <2>2. ASSUME NEW p \in Players, User(p) PROVE clicks' = clicks + 1
    BY <2>2 DEF User, HandleCreateRoom, HandleJoinRoom, HandleResumeGame,
                HandleRequestRematch, HandleResign, HandlePieceDrop, EmitSocketMessage
  <2>3. ASSUME NEW p \in Players, Open(p) \/ Page(p), ~ User(p) PROVE clicks' = clicks
    BY <2>3 DEF Open, Connect, Page, Disconnect, Reload, ReceiveDown
  <2>4. CASE UNCHANGED browsers
    BY <2>1, <2>4 DEF browsers
  <2> QED BY <2>1, <2>2, <2>3, <2>4 DEF Next, vars, Serve
<1>4. /\ tab' \in [Players -> Tabs]
      /\ \A p \in Players : tab'[p].view # NoView => tab'[p].view \in HeldViews
  <2>1. tab \in [Players -> Tabs]
        /\ \A p \in Players : tab[p].view # NoView => tab[p].view \in HeldViews
    BY DEF IInv, TabsHeld, HasView
  <2>2. ASSUME NEW p \in Players, ReceiveDown(p)
        PROVE  /\ tab' \in [Players -> Tabs]
               /\ \A q \in Players : tab'[q].view # NoView => tab'[q].view \in HeldViews
    BY <2>1, <2>2, ReceiveDownShows
  <2> QED BY <2>1, <2>2, OpenTabs, NextTabs
<1> QED BY <1>1, <1>2, <1>3, <1>4 DEF TabsHeld, HasView
-----------------------------------------------------------------------------
(* The lines *)

LEMMA TabLines ==
  ASSUME IInv, [Next]_vars
  PROVE  \A q \in Players : /\ tab[q].line \in Nat /\ tab'[q].line \in Nat
                            /\ tab'[q].line >= tab[q].line
                            /\ ~ Open(q) => tab'[q].line = tab[q].line
<1>1. \A q \in Players : tab[q].line \in Nat
  BY MaxLossesAssumption DEF IInv, TabsHeld, Tabs
<1>2. ASSUME NEW p \in Players, Open(p)
      PROVE  \A q \in Players : tab'[q].line = IF q = p THEN tab[q].line + 1 ELSE tab[q].line
  BY <1>2, OpenTabs
<1>3. ASSUME NEW p \in Players, Open(p), NEW q \in Players, q # p
      PROVE  tab'[q].line = tab[q].line
  BY <1>3, OpenTabs
<1>4. ASSUME NEW p \in Players, NEW t \in Tabs, tab' = [tab EXCEPT ![p] = t],
             t.line = tab[p].line
      PROVE  \A q \in Players : tab'[q].line = tab[q].line
  BY <1>4 DEF IInv, TabsHeld
<1>5. ASSUME NEW p \in Players, ReceiveDown(p)
      PROVE  \A q \in Players : tab'[q].line = tab[q].line
  BY <1>4, <1>5, ReceiveDownShows
<1>6. CASE tab' = tab
  BY <1>1, <1>6
<1> QED BY <1>1, <1>2, <1>3, <1>4, <1>5, <1>6, NextTabs

\* The line that a tab opens has not been used.
LEMMA OpenedLine ==
  ASSUME IInv, NEW p \in Players, Open(p)
  PROVE  \E f \in Lines :
           /\ f = <<p, tab[p].line + 1>> /\ here[f] = "new" /\ there[f] = "new"
           /\ here' = [here EXCEPT ![f] = "open"] /\ there' = [there EXCEPT ![f] = "open"]
           /\ down' = down /\ session' = session /\ room' = room /\ waiting' = waiting
<1> DEFINE f == <<p, tab[p].line + 1>>
<1>1. f \in Lines
  BY OpenTabs
<1>2. f[2] > tab[f[1]].line
  BY MaxLossesAssumption DEF IInv, TabsHeld, Tabs
<1>3. here[f] = "new" /\ there[f] = "new"
  BY <1>1, <1>2 DEF IInv, LinesFresh
<1> QED BY <1>1, <1>3 DEF Open, Connect, OpenLine, RegisterSocket

LEMMA LinesFreshNext == ASSUME IInv, [Next]_vars PROVE LinesFresh'
<1> SUFFICES ASSUME NEW s \in Lines, s[2] > tab'[s[1]].line
             PROVE  here'[s] = "new" /\ there'[s] = "new"
  BY DEF LinesFresh
<1>1. s[1] \in Players /\ s[2] \in Nat
  BY LinesAreLines
<1>2. s[2] > tab[s[1]].line
  BY <1>1, TabLines
<1>3. here[s] = "new" /\ there[s] = "new"
  BY <1>2 DEF IInv, LinesFresh
<1>4. ASSUME NEW p \in Players, Open(p) PROVE here'[s] = "new" /\ there'[s] = "new"
  <2>1. PICK f \in Lines : /\ f = <<p, tab[p].line + 1>>
                           /\ here' = [here EXCEPT ![f] = "open"]
                           /\ there' = [there EXCEPT ![f] = "open"]
    BY <1>4, OpenedLine
  <2>2. f # s
    BY <1>1, <1>4, <2>1, OpenTabs DEF IInv, TabsHeld, Tabs
  <2> QED BY <1>3, <2>1, <2>2
<1>5. ASSUME NEW x \in Lines, here' = [here EXCEPT ![x] = "closed"], there' = there,
             x[2] <= tab[x[1]].line
      PROVE  here'[s] = "new" /\ there'[s] = "new"
  <2>1. x # s
    BY <1>1, <1>2, <1>5, TabLines
  <2> QED BY <1>3, <1>5, <2>1
<1>6. ASSUME NEW x \in Lines, HandleDisconnect(x)
      PROVE  here'[s] = "new" /\ there'[s] = "new"
  <2>1. x # s
    BY <1>3, <1>6 DEF HandleDisconnect, CloseThere
  <2> QED BY <1>3, <1>6, <2>1 DEF HandleDisconnect, CloseThere
<1> QED BY <1>3, <1>4, <1>5, <1>6, NextEnds

LEMMA DownWhileOpenNext == ASSUME IInv, [Next]_vars PROVE DownWhileOpen'
<1> SUFFICES ASSUME NEW s \in Lines, here'[s] # "open" PROVE down'[s] = << >>
  BY DEF DownWhileOpen
<1>0. here[s] # "open" => down[s] = << >>
  BY DEF IInv, DownWhileOpen
<1>1. CASE here' = here
  <2>1. here[s] # "open"
    BY <1>1
  <2>2. CASE Emits
    BY <1>0, <2>1, <2>2 DEF Emits, Emitted
  <2>3. ASSUME NEW x \in Lines, down' = [down EXCEPT ![x] = << >>] PROVE down'[s] = << >>
    BY <1>0, <2>1, <2>3 DEF IInv, WiresHeld
  <2>4. ASSUME NEW p \in Players, ReceiveDown(p) PROVE down'[s] = << >>
    <3>1. LineOf(p) # s
      BY <2>1, <2>4 DEF ReceiveDown, Connected
    <3> QED BY <1>0, <2>1, <2>4, <3>1 DEF ReceiveDown, IInv, WiresHeld
  <2> QED BY <2>2, <2>3, <2>4, NextDown
<1>2. ASSUME NEW p \in Players, Open(p) PROVE down'[s] = << >>
  <2>1. PICK f \in Lines : here' = [here EXCEPT ![f] = "open"] /\ down' = down
    BY <1>2, OpenedLine
  <2> QED BY <1>0, <2>1 DEF IInv, WiresHeld, LineStates
<1>3. ASSUME NEW x \in Lines, here' = [here EXCEPT ![x] = "closed"],
             down' = [down EXCEPT ![x] = << >>]
      PROVE  down'[s] = << >>
  BY <1>0, <1>3 DEF IInv, WiresHeld
<1>4. ASSUME NEW x \in Lines, HandleDisconnect(x) PROVE here' = here
  BY <1>4 DEF HandleDisconnect, CloseThere
<1> QED BY <1>1, <1>2, <1>3, <1>4, NextEnds

\* A connection that the server has seen stays one that it has seen.
LEMMA SeenForGood ==
  ASSUME IInv, [Next]_vars, NEW s \in Lines, there[s] # "new" PROVE there'[s] # "new"
<1>1. ASSUME NEW x \in Lines, there' = [there EXCEPT ![x] = "closed"]
      PROVE  there'[s] # "new"
  BY <1>1 DEF IInv, WiresHeld, LineStates
<1>2. ASSUME NEW x \in Lines, there' = [there EXCEPT ![x] = "open"] PROVE there'[s] # "new"
  BY <1>2 DEF IInv, WiresHeld, LineStates
<1> QED BY <1>1, <1>2, OpenedLine, NextEnds DEF HandleDisconnect, CloseThere

-----------------------------------------------------------------------------
(* The handlers that wait *)

\* A handler suspends on an open connection, and in a session unless it creates.
LEMMA HandlerSuspends ==
  ASSUME NEW s \in Lines, Handler(s)
  PROVE  \/ waiting' = waiting
         \/ \E k \in Continuations : /\ Suspend(s, k) /\ there[s] = "open"
                                     /\ k # "create" => Exists
<1>1. CASE CreateGame(s)
  BY <1>1 DEF CreateGame, Request, Receive, Continuations
<1>2. CASE Hello(s) \/ Refuse(s)
  BY <1>2 DEF Hello, Refuse, server
<1>3. CASE JoinGame(s) \/ ResumeGame(s)
  <2>1. there[s] = "open" /\ Exists
    BY <1>3 DEF JoinGame, ResumeGame, Request, Receive, Accepts
  <2> QED BY <1>3, <2>1 DEF JoinGame, ResumeGame, Continuations
<1>4. CASE SubmitMove(s) \/ ResignGame(s)
  <2>1. there[s] = "open" /\ Exists
    BY <1>4 DEF SubmitMove, ResignGame, Request, Receive, Accepts
  <2> QED BY <1>4, <2>1 DEF SubmitMove, ResignGame, Continuations
<1>5. CASE RequestRematch(s)
  <2>1. there[s] = "open" /\ Exists
    BY <1>5 DEF RequestRematch, Request, Receive, Accepts
  <2> QED BY <1>5, <2>1 DEF RequestRematch, Continuations
<1> QED BY <1>1, <1>2, <1>3, <1>4, <1>5 DEF Handler

LEMMA ContinuationReturns ==
  ASSUME NEW s \in Lines, Continuation(s)
  PROVE  StartGame(s) \/ \E k \in Continuations : Return(s, k)
BY DEF Continuation, CreateSession, FailToCreate, AnswerJoin, AnswerMove, AnswerResign,
       AnswerRematchStatus, AnswerRematchStart, AnswerResume, ReportDisconnect,
       Continuations

LEMMA DisconnectSuspends ==
  ASSUME SessionGood, NEW s \in Lines, HandleDisconnect(s)
  PROVE  \/ waiting' = waiting
         \/ Suspend(s, "disconnect") /\ there[s] = "open" /\ Exists
<1>1. (\E c \in Colours : session.seat[c] = s) => Exists
  BY LinesAreLines DEF Exists, NoSession
<1> QED BY <1>1 DEF HandleDisconnect, CloseThere

\* What one step can do to the handlers that wait.
LEMMA NextWaiting ==
  ASSUME IInv, [Next]_vars
  PROVE  \/ waiting' = waiting
         \/ \E s \in Lines, k \in Continuations : /\ Suspend(s, k) /\ there[s] = "open"
                                                  /\ k # "create" => Exists
         \/ \E s \in Lines, k \in Continuations : Return(s, k)
         \/ \E s \in Lines : StartGame(s)
<1>1. "disconnect" \in Continuations
  BY DEF Continuations
<1>2. ASSUME NEW p \in Players, Open(p) \/ Page(p) PROVE waiting' = waiting
  BY <1>2, OpenedLine DEF Page, server
<1>3. CASE UNCHANGED vars
  BY <1>3 DEF vars, server
<1> QED BY <1>1, <1>2, <1>3, HandlerSuspends, ContinuationReturns, DisconnectSuspends
        DEF Next, Serve, IInv

LEMMA WaitingNext == ASSUME IInv, [Next]_vars
                     PROVE  waiting' \in [Lines -> [Continuations -> Nat]] /\ WaitingKnown'
<1>0. waiting \in [Lines -> [Continuations -> Nat]]
  BY DEF IInv, ServerTyped
<1>1. Exists => Exists'
  BY NextForward DEF Forward
<1>2. waiting' \in [Lines -> [Continuations -> Nat]]
  <2>1. ASSUME NEW s \in Lines, NEW k \in Continuations, Suspend(s, k) \/ Return(s, k)
        PROVE  waiting' \in [Lines -> [Continuations -> Nat]]
    BY <1>0, <2>1 DEF Suspend, Return
  <2>2. ASSUME NEW s \in Lines, StartGame(s)
        PROVE  waiting' \in [Lines -> [Continuations -> Nat]]
    BY <1>0, <2>2 DEF StartGame, Continuations
  <2> QED BY <1>0, <2>1, <2>2, NextWaiting
<1>3. ASSUME NEW s \in Lines, NEW k \in Continuations, waiting'[s][k] > 0
      PROVE  waiting[s][k] > 0 \/ (there[s] # "new" /\ (k # "create" => Exists))
  <2>1. ASSUME NEW x \in Lines, NEW j \in Continuations, Suspend(x, j), there[x] = "open",
               j # "create" => Exists
        PROVE  waiting[s][k] > 0 \/ (there[s] # "new" /\ (k # "create" => Exists))
    <3>1. CASE x = s /\ j = k
      BY <2>1, <3>1
    <3>2. CASE x # s \/ j # k
      <4>1. waiting'[s][k] = waiting[s][k]
        BY <1>0, <2>1, <3>2 DEF Suspend
      <4> QED BY <1>3, <4>1
    <3> QED BY <3>1, <3>2
  <2>2. ASSUME NEW x \in Lines, NEW j \in Continuations, Return(x, j)
        PROVE  waiting[s][k] > 0
    BY <1>0, <1>3, <2>2 DEF Return
  <2>3. ASSUME NEW x \in Lines, StartGame(x)
        PROVE  waiting[s][k] > 0 \/ (there[s] # "new" /\ (k # "create" => Exists))
    <3>1. waiting[x]["seat"] > 0 /\ "seat" \in Continuations /\ "start" \in Continuations
      BY <2>3 DEF StartGame, Continuations
    <3>2. there[x] # "new" /\ Exists
      BY <3>1 DEF IInv, WaitingKnown
    <3>3. CASE x # s
      BY <1>0, <1>3, <2>3, <3>3 DEF StartGame
    <3>4. CASE x = s
      BY <3>1, <3>2, <3>4
    <3> QED BY <3>3, <3>4
  <2> QED BY <1>3, <2>1, <2>2, <2>3, NextWaiting
<1>4. WaitingKnown'
  <2> SUFFICES ASSUME NEW s \in Lines, NEW k \in Continuations, waiting'[s][k] > 0
               PROVE  there'[s] # "new" /\ (k # "create" => Exists')
    BY DEF WaitingKnown
  <2>1. there[s] # "new" /\ (k # "create" => Exists)
    BY <1>3 DEF IInv, WaitingKnown
  <2> QED BY <1>1, <2>1, SeenForGood
<1> QED BY <1>2, <1>4

LEMMA ServerTypedNext == ASSUME IInv, [Next]_vars PROVE ServerTyped'
<1>0. ServerTyped
  BY DEF IInv
<1>1. waiting' \in [Lines -> [Continuations -> Nat]]
  BY WaitingNext
<1>2. CASE UNCHANGED <<registry, room>>
  BY <1>0, <1>1, <1>2 DEF ServerTyped
<1>3. ASSUME NEW p \in Players, Open(p) PROVE ServerTyped'
  BY <1>0, <1>1, <1>3 DEF Open, RegisterSocket, ServerTyped
<1>4. ASSUME NEW s \in Lines, Handler(s) PROVE ServerTyped'
  <2>1. CASE Hello(s)
    BY <1>0, <1>1, <2>1 DEF Hello, ServerTyped
  <2> QED BY <1>2, <1>4, <2>1 DEF Handler, Request, CreateGame, JoinGame, ResumeGame,
                                  SubmitMove, ResignGame, RequestRematch, Refuse, server
<1>5. ASSUME NEW s \in Lines, Continuation(s) PROVE ServerTyped'
  <2>1. room' \subseteq Lines
    BY <1>0, <1>5, RoomStaysTyped
  <2>2. registry' = registry \/ registry' = [registry EXCEPT ![s] = "absent"]
    BY <1>5 DEF Continuation, CreateSession, FailToCreate, StartGame, AnswerJoin,
                AnswerMove, AnswerResign, AnswerRematchStatus, AnswerRematchStart,
                AnswerResume, ReportDisconnect
  <2> QED BY <1>0, <1>1, <2>1, <2>2 DEF ServerTyped
<1>6. ASSUME NEW s \in Lines, HandleDisconnect(s) PROVE ServerTyped'
  BY <1>0, <1>1, <1>6 DEF HandleDisconnect, ServerTyped
<1>7. ASSUME NEW p \in Players, Page(p) PROVE ServerTyped'
  BY <1>2, <1>7 DEF Page, server
<1>8. CASE UNCHANGED vars
  BY <1>2, <1>8 DEF vars, server
<1> QED BY <1>3, <1>4, <1>5, <1>6, <1>7, <1>8 DEF Next, Serve

-----------------------------------------------------------------------------
(* Presence *)

Presence == SeatsKnown /\ SeatPresence /\ PresentPlayersHear

\* Whoever waited to enter the room still waits, or is in it.
StillHeard ==
  \A s \in Lines : there'[s] = "open" =>
    /\ s \in room => s \in room'
    /\ (\E k \in {"seat", "start", "resume"} : waiting[s][k] > 0) =>
         \/ s \in room'
         \/ \E k \in {"seat", "start", "resume"} : waiting'[s][k] > 0

LEMMA SuspendAdds ==
  ASSUME ServerTyped, NEW s \in Lines, NEW k \in Continuations, Suspend(s, k)
  PROVE  /\ waiting'[s][k] > 0
         /\ \A x \in Lines, j \in Continuations : waiting[x][j] > 0 => waiting'[x][j] > 0
BY DEF ServerTyped, Suspend

\* A step that changes no seat, and at most closes sockets without a seat.
LEMMA SameSeats ==
  ASSUME IInv, session'.seat = session.seat, session'.connected = session.connected,
         StillHeard,
         \A c \in Colours : session.seat[c] # NoLine =>
           there'[session.seat[c]] = there[session.seat[c]]
  PROVE  Presence'
<1>1. \A c \in Colours : session.seat[c] # NoLine => session.seat[c] \in Lines
  BY DEF IInv, SessionGood, Sessions
<1>2. SeatsKnown' /\ SeatPresence'
  BY DEF IInv, SeatsKnown, SeatPresence
<1>3. PresentPlayersHear'
  BY <1>1 DEF IInv, PresentPlayersHear, StillHeard
<1> QED BY <1>2, <1>3 DEF Presence

\* A connection that is open takes a seat, and waits to enter the room.
LEMMA TakesSeat ==
  ASSUME IInv, NEW s \in Lines, there[s] = "open", there' = there, room' = room,
         NEW k \in {"seat", "start", "resume"}, Suspend(s, k), NEW c \in Colours,
         session' = [session EXCEPT !.seat[c] = s, !.connected[c] = TRUE]
           \/ \E g : session' = [session EXCEPT !.game = g, !.seat[c] = s,
                                                !.connected[c] = TRUE]
  PROVE  Presence'
<1>0. k \in Continuations /\ waiting \in [Lines -> [Continuations -> Nat]]
  BY DEF Continuations, IInv, ServerTyped
<1>1. \A x \in Lines, j \in Continuations : waiting[x][j] > 0 => waiting'[x][j] > 0
  BY <1>0, SuspendAdds DEF IInv
<1>2. waiting'[s][k] > 0
  BY <1>0, SuspendAdds DEF IInv
<1>3. /\ session'.seat = [session.seat EXCEPT ![c] = s]
      /\ session'.connected = [session.connected EXCEPT ![c] = TRUE]
      /\ session.seat \in [Colours -> Lines \cup {NoLine}]
      /\ session.connected \in [Colours -> BOOLEAN]
  BY DEF IInv, SessionGood, Sessions
<1>4. \A d \in Colours : \/ session'.seat[d] = s /\ session'.connected[d]
                         \/ /\ session'.seat[d] = session.seat[d]
                            /\ session'.connected[d] = session.connected[d]
  BY <1>3
<1>5. SeatsKnown' /\ SeatPresence'
  BY <1>4 DEF IInv, SeatsKnown, SeatPresence
<1>6. PresentPlayersHear'
  <2> SUFFICES ASSUME NEW d \in Colours, session'.seat[d] # NoLine, session'.connected[d],
                      there'[session'.seat[d]] = "open"
               PROVE  \/ session'.seat[d] \in room'
                      \/ \E j \in {"seat", "start", "resume"} :
                           waiting'[session'.seat[d]][j] > 0
    BY DEF PresentPlayersHear
  <2>1. CASE session'.seat[d] = s
    BY <1>2, <2>1
  <2>2. CASE session'.seat[d] = session.seat[d] /\ session'.connected[d] = session.connected[d]
    <3>1. session.seat[d] \in Lines
      BY <1>3, <2>2
    <3>2. \/ session.seat[d] \in room
          \/ \E j \in {"seat", "start", "resume"} : waiting[session.seat[d]][j] > 0
      BY <2>2 DEF IInv, PresentPlayersHear
    <3>3. \A j \in {"seat", "start", "resume"} :
            waiting[session.seat[d]][j] > 0 => waiting'[session.seat[d]][j] > 0
      BY <1>1, <3>1 DEF Continuations
    <3> QED BY <2>2, <3>2, <3>3
  <2> QED BY <1>4, <2>1, <2>2
<1> QED BY <1>5, <1>6 DEF Presence

LEMMA HandlerHeard ==
  ASSUME IInv, NEW s \in Lines, Handler(s) PROVE StillHeard
<1>0. waiting \in [Lines -> [Continuations -> Nat]]
      /\ \A k \in {"seat", "start", "resume"} : k \in Continuations
  BY DEF IInv, ServerTyped, Continuations
<1>1. room' = room
  BY DEF Handler, Hello, CreateGame, JoinGame, ResumeGame, SubmitMove, ResignGame,
         RequestRematch, Refuse, Request, server
<1>2. \A x \in Lines, j \in Continuations : waiting[x][j] > 0 => waiting'[x][j] > 0
  <2>1. CASE waiting' = waiting
    BY <2>1
  <2> QED BY <2>1, HandlerSuspends, SuspendAdds DEF IInv
<1> QED BY <1>0, <1>1, <1>2 DEF StillHeard

LEMMA HandlerPresence ==
  ASSUME IInv, NEW s \in Lines, Handler(s) PROVE Presence'
<1>1. StillHeard /\ there' = there
  BY HandlerHeard DEF Handler, Hello, CreateGame, JoinGame, ResumeGame, SubmitMove,
     ResignGame, RequestRematch, Refuse, Request, Receive
<1>2. CASE session'.seat = session.seat /\ session'.connected = session.connected
  BY <1>1, <1>2, SameSeats
<1>3. CASE JoinGame(s)
  <2>1. there[s] = "open" /\ room' = room /\ "black" \in Colours
    BY <1>3 DEF JoinGame, Request, Receive, Colours
  <2>2. \E g : session' = [session EXCEPT !.game = g, !.seat["black"] = s,
                                          !.connected["black"] = TRUE]
    <3>1. session' = [session EXCEPT !.game = Seated(session.game, PlayerOf(s)),
                                     !.seat["black"] = s, !.connected["black"] = TRUE]
      BY <1>3 DEF JoinGame, IInv, SessionGood, Sessions
    <3> QED BY <3>1
  <2>3. Suspend(s, "seat")
    BY <1>3 DEF JoinGame
  <2> QED BY <1>1, <2>1, <2>2, <2>3, TakesSeat
<1>4. CASE ResumeGame(s)
  <2> DEFINE c == SeatOf(Game, PlayerOf(s))
  <2>1. there[s] = "open" /\ room' = room /\ Suspend(s, "resume")
        /\ session' = [session EXCEPT !.seat[c] = s, !.connected[c] = TRUE]
    BY <1>4 DEF ResumeGame, Request, Receive
  <2>2. c \in Colours
    BY <1>4, SeatOfType DEF ResumeGame, Request, Accepts
  <2> HIDE DEF c
  <2> QED BY <1>1, <2>1, <2>2, TakesSeat
<1>5. CASE SubmitMove(s) \/ ResignGame(s) \/ RequestRematch(s)
  <2>1. session.seat = session'.seat /\ session.connected = session'.connected
    BY <1>5 DEF SubmitMove, ResignGame, RequestRematch, IInv, SessionGood, Sessions
  <2> QED BY <1>2, <2>1
<1>6. CASE Hello(s) \/ CreateGame(s) \/ Refuse(s)
  BY <1>2, <1>6 DEF Hello, CreateGame, Refuse, server
<1> QED BY <1>3, <1>4, <1>5, <1>6 DEF Handler

\* A handler returns and leaves its socket in the room.
LEMMA ReturnHeard ==
  ASSUME IInv, NEW s \in Lines, NEW k \in Continuations, Return(s, k), there' = there,
         \/ EnterRoom(s)
         \/ room' = room /\ k \notin {"seat", "start", "resume"}
  PROVE  StillHeard
<1>0. waiting \in [Lines -> [Continuations -> Nat]]
      /\ \A j \in {"seat", "start", "resume"} : j \in Continuations
  BY DEF IInv, ServerTyped, Continuations
<1>1. \A x \in Lines, j \in Continuations :
        x # s \/ j # k => waiting'[x][j] = waiting[x][j]
  BY <1>0 DEF Return
<1>2. room \subseteq room'
  BY DEF EnterRoom
<1>3. CASE EnterRoom(s)
  <2>1. there'[s] = "open" => s \in room'
    BY <1>3 DEF EnterRoom
  <2> QED BY <1>0, <1>1, <1>2, <2>1 DEF StillHeard
<1>4. CASE k \notin {"seat", "start", "resume"}
  BY <1>0, <1>1, <1>2, <1>4 DEF StillHeard
<1> QED BY <1>3, <1>4

LEMMA StartGameHeard ==
  ASSUME IInv, NEW s \in Lines, StartGame(s) PROVE StillHeard
<1>0. waiting \in [Lines -> [Continuations -> Nat]]
      /\ \A j \in {"seat", "start", "resume"} : j \in Continuations
  BY DEF IInv, ServerTyped, Continuations
<1>1. waiting'[s]["start"] > 0
  BY <1>0 DEF StartGame
<1>2. \A x \in Lines : x # s => waiting'[x] = waiting[x]
  BY <1>0 DEF StartGame
<1>3. room' = room
  BY DEF StartGame
<1> QED BY <1>0, <1>1, <1>2, <1>3 DEF StillHeard

LEMMA CreateSessionPresence ==
  ASSUME IInv, NEW s \in Lines, CreateSession(s) PROVE Presence'
<1>1. /\ session'.seat = [c \in Colours |-> IF c = "white" THEN s ELSE NoLine]
      /\ session'.connected = [c \in Colours |-> c = "white"]
      /\ there' = there /\ EnterRoom(s)
  BY DEF CreateSession, Emit
<1>2. /\ session'.seat["white"] = s /\ session'.connected["white"]
      /\ session'.seat["black"] = NoLine
  BY <1>1 DEF Colours
<1>3. there[s] # "new"
  BY DEF CreateSession, Return, IInv, WaitingKnown, Continuations
<1>4. there'[s] = "open" => s \in room'
  BY <1>1 DEF EnterRoom
<1>5. SeatsKnown' /\ SeatPresence'
  BY <1>1, <1>2, <1>3 DEF SeatsKnown, SeatPresence, Colours
<1>6. PresentPlayersHear'
  BY <1>1, <1>2, <1>4 DEF PresentPlayersHear, Colours
<1> QED BY <1>5, <1>6 DEF Presence

LEMMA ContinuationPresence ==
  ASSUME IInv, NEW s \in Lines, Continuation(s) PROVE Presence'
<1>1. CASE CreateSession(s)
  BY <1>1, CreateSessionPresence
<1>2. CASE StartGame(s)
  <2>1. /\ session'.seat = session.seat /\ session'.connected = session.connected
        /\ there' = there
    BY <1>2 DEF StartGame, wires, IInv, SessionGood, Sessions
  <2> QED BY <1>2, <2>1, StartGameHeard, SameSeats
<1>3. ASSUME NEW k \in Continuations, Return(s, k), there' = there, session' = session,
             \/ EnterRoom(s)
             \/ room' = room /\ k \notin {"seat", "start", "resume"}
      PROVE  Presence'
  BY <1>3, ReturnHeard, SameSeats
<1>4. CASE AnswerJoin(s) \/ AnswerResume(s)
  <2>1. there' = there /\ session' = session /\ EnterRoom(s)
    BY <1>4 DEF AnswerJoin, AnswerResume, Emit
  <2> QED BY <1>3, <1>4, <2>1 DEF AnswerJoin, AnswerResume, Continuations
<1>5. CASE \/ FailToCreate(s) \/ AnswerMove(s) \/ AnswerResign(s)
           \/ AnswerRematchStatus(s) \/ AnswerRematchStart(s) \/ ReportDisconnect(s)
  <2>1. there' = there /\ session' = session /\ room' = room
    BY <1>5 DEF FailToCreate, AnswerMove, AnswerResign, AnswerRematchStatus,
                AnswerRematchStart, ReportDisconnect, Emit, wires
  <2>2. \E k \in Continuations \ {"seat", "start", "resume"} : Return(s, k)
    BY <1>5 DEF FailToCreate, AnswerMove, AnswerResign, AnswerRematchStatus,
                AnswerRematchStart, ReportDisconnect, Continuations
  <2> QED BY <1>3, <2>1, <2>2
<1> QED BY <1>1, <1>2, <1>4, <1>5 DEF Continuation

LEMMA DisconnectPresence ==
  ASSUME IInv, NEW s \in Lines, HandleDisconnect(s) PROVE Presence'
<1>1. /\ there \in LineStates /\ there' = [there EXCEPT ![s] = "closed"]
      /\ there'[s] = "closed" /\ room' = room \ {s}
  BY DEF HandleDisconnect, CloseThere, IInv, WiresHeld, LineStates
<1>2. StillHeard
  <2>1. \A x \in Lines, j \in Continuations : waiting[x][j] > 0 => waiting'[x][j] > 0
    BY DisconnectSuspends, SuspendAdds DEF IInv, Continuations
  <2>2. \A j \in {"seat", "start", "resume"} : j \in Continuations
    BY DEF Continuations
  <2> QED BY <1>1, <2>1, <2>2 DEF StillHeard
<1>3. /\ session'.seat = session.seat
      /\ \A c \in Colours : /\ session.seat[c] # s =>
                                 session'.connected[c] = session.connected[c]
                            /\ session.seat[c] = s => ~ session'.connected[c]
  <2>1. CASE \E c \in Colours : session.seat[c] = s
    BY <2>1 DEF HandleDisconnect, SocketDisconnected, IInv, SessionGood, Sessions
  <2>2. CASE ~ \E c \in Colours : session.seat[c] = s
    BY <2>2 DEF HandleDisconnect
  <2> QED BY <2>1, <2>2
<1>4. \A c \in Colours : session.seat[c] # NoLine /\ session.seat[c] # s =>
        session.seat[c] \in Lines /\ there'[session.seat[c]] = there[session.seat[c]]
  BY <1>1 DEF IInv, SessionGood, Sessions, LineStates
<1>5. SeatsKnown'
  BY <1>1, <1>3, <1>4 DEF IInv, SeatsKnown
<1>6. SeatPresence'
  BY <1>1, <1>3, <1>4 DEF IInv, SeatPresence
<1>7. PresentPlayersHear'
  BY <1>1, <1>2, <1>3, <1>4 DEF IInv, PresentPlayersHear, StillHeard
<1> QED BY <1>5, <1>6, <1>7 DEF Presence

LEMMA PresenceNext == ASSUME IInv, [Next]_vars PROVE Presence'
<1>1. CASE there' = there /\ session' = session /\ room' = room /\ waiting' = waiting
  <2>1. StillHeard
    BY <1>1 DEF StillHeard
  <2> QED BY <1>1, <2>1, SameSeats
<1>2. ASSUME NEW p \in Players, Open(p) PROVE Presence'
  <2>1. PICK f \in Lines : /\ there[f] = "new" /\ there' = [there EXCEPT ![f] = "open"]
                           /\ session' = session /\ room' = room /\ waiting' = waiting
    BY <1>2, OpenedLine
  <2>2. StillHeard
    BY <2>1 DEF StillHeard
  <2>3. \A c \in Colours : session.seat[c] # NoLine =>
          there'[session.seat[c]] = there[session.seat[c]]
    BY <2>1 DEF IInv, SeatsKnown
  <2> QED BY <2>1, <2>2, <2>3, SameSeats
<1>3. ASSUME NEW p \in Players, Page(p) PROVE there' = there
  BY <1>3 DEF Page, Disconnect, Reload, ReceiveDown, CloseHere, User, HandleCreateRoom,
              HandleJoinRoom, HandleResumeGame, HandleRequestRematch, HandleResign,
              HandlePieceDrop, EmitSocketMessage, SendUp, wires
<1>4. ASSUME NEW p \in Players, Page(p) PROVE Presence'
  BY <1>1, <1>3, <1>4 DEF Page, server
<1>5. CASE UNCHANGED vars
  BY <1>1, <1>5 DEF vars, wires, server
<1> QED BY <1>2, <1>4, <1>5, HandlerPresence, ContinuationPresence, DisconnectPresence
        DEF Next, Serve

-----------------------------------------------------------------------------
(* Ghosts *)

\* What a step may do to the seat of colour c.
SeatStep(c) ==
  \/ session'.seat[c] = NoLine
  \/ there'[session'.seat[c]] = "open"
  \/ ~ session'.connected[c]
  \/ /\ session'.seat[c] = session.seat[c]
     /\ session'.connected[c] = session.connected[c]
     /\ there'[session.seat[c]] = there[session.seat[c]]

LEMMA HandlerSeatStep ==
  ASSUME IInv, NEW s \in Lines, Handler(s), NEW c \in Colours
  PROVE  SeatStep(c)
<1>1. there' = there
  BY DEF Handler, Hello, CreateGame, JoinGame, ResumeGame, SubmitMove, ResignGame,
         RequestRematch, Refuse, Request, Receive
<1>2. CASE session'.seat = session.seat /\ session'.connected = session.connected
  BY <1>1, <1>2 DEF SeatStep
<1>3. ASSUME NEW d \in Colours, there[s] = "open",
             session'.seat = [session.seat EXCEPT ![d] = s],
             session'.connected = [session.connected EXCEPT ![d] = TRUE]
      PROVE  SeatStep(c)
  <2>1. \/ session'.seat[c] = s
        \/ /\ session'.seat[c] = session.seat[c]
           /\ session'.connected[c] = session.connected[c]
    BY <1>3 DEF IInv, SessionGood, Sessions
  <2> QED BY <1>1, <1>3, <2>1 DEF SeatStep
<1>4. CASE JoinGame(s)
  <2>1. /\ there[s] = "open" /\ "black" \in Colours
        /\ session'.seat = [session.seat EXCEPT !["black"] = s]
        /\ session'.connected = [session.connected EXCEPT !["black"] = TRUE]
    BY <1>4 DEF JoinGame, Request, Receive, Colours, IInv, SessionGood, Sessions
  <2> QED BY <1>3, <2>1
<1>5. CASE ResumeGame(s)
  <2> DEFINE d == SeatOf(Game, PlayerOf(s))
  <2>1. d \in Colours
    BY <1>5, SeatOfType DEF ResumeGame, Request, Accepts
  <2>2. /\ there[s] = "open"
        /\ session' = [session EXCEPT !.seat[d] = s, !.connected[d] = TRUE]
    BY <1>5 DEF ResumeGame, Request, Receive
  <2> HIDE DEF d
  <2>3. /\ session'.seat = [session.seat EXCEPT ![d] = s]
        /\ session'.connected = [session.connected EXCEPT ![d] = TRUE]
    BY <2>2 DEF IInv, SessionGood, Sessions
  <2> QED BY <1>3, <2>1, <2>2, <2>3
<1>6. CASE SubmitMove(s) \/ ResignGame(s) \/ RequestRematch(s)
  <2>1. session.seat = session'.seat /\ session.connected = session'.connected
    BY <1>6 DEF SubmitMove, ResignGame, RequestRematch, IInv, SessionGood, Sessions
  <2> QED BY <1>2, <2>1
<1>7. CASE Hello(s) \/ CreateGame(s) \/ Refuse(s)
  BY <1>2, <1>7 DEF Hello, CreateGame, Refuse, server
<1> QED BY <1>4, <1>5, <1>6, <1>7 DEF Handler

LEMMA DisconnectSeatStep ==
  ASSUME IInv, NEW s \in Lines, HandleDisconnect(s), NEW c \in Colours
  PROVE  SeatStep(c)
<1>1. there' = [there EXCEPT ![s] = "closed"] /\ there \in LineStates
  BY DEF HandleDisconnect, CloseThere, IInv, WiresHeld
<1>2. /\ session'.seat = session.seat
      /\ session.seat[c] # s => session'.connected[c] = session.connected[c]
      /\ session.seat[c] = s => ~ session'.connected[c]
  <2>1. CASE \E d \in Colours : session.seat[d] = s
    BY <2>1 DEF HandleDisconnect, SocketDisconnected, IInv, SessionGood, Sessions
  <2>2. CASE ~ \E d \in Colours : session.seat[d] = s
    BY <2>2 DEF HandleDisconnect
  <2> QED BY <2>1, <2>2
<1>3. session.seat[c] # NoLine /\ session.seat[c] # s =>
        there'[session.seat[c]] = there[session.seat[c]]
  BY <1>1 DEF IInv, SessionGood, Sessions, LineStates
<1> QED BY <1>2, <1>3 DEF SeatStep

LEMMA NextSeatStep ==
  ASSUME IInv, Exists, [Next]_vars, NEW c \in Colours
  PROVE  SeatStep(c)
<1>1. CASE there' = there /\ session' = session
  BY <1>1 DEF SeatStep
<1>2. ASSUME NEW p \in Players, Open(p) PROVE SeatStep(c)
  <2>1. PICK f \in Lines : /\ there[f] = "new" /\ there' = [there EXCEPT ![f] = "open"]
                           /\ session' = session /\ room' = room /\ waiting' = waiting
    BY <1>2, OpenedLine
  <2>2. session.seat[c] # NoLine =>
          there'[session.seat[c]] = there[session.seat[c]]
    BY <2>1 DEF IInv, SeatsKnown
  <2> QED BY <2>1, <2>2 DEF SeatStep
<1>3. ASSUME NEW p \in Players, Page(p) PROVE there' = there /\ session' = session
  BY <1>3 DEF Page, Disconnect, Reload, ReceiveDown, CloseHere, User, HandleCreateRoom,
              HandleJoinRoom, HandleResumeGame, HandleRequestRematch, HandleResign,
              HandlePieceDrop, EmitSocketMessage, SendUp, wires, server
<1>4. ASSUME NEW s \in Lines, Continuation(s) PROVE SeatStep(c)
  <2>1. CASE StartGame(s)
    BY <2>1 DEF StartGame, wires, IInv, SessionGood, Sessions, SeatStep
  <2>2. CASE ~ StartGame(s)
    <3>1. there' = there /\ session' = session
      BY <1>4, <2>2 DEF Continuation, CreateSession, FailToCreate, AnswerJoin, AnswerMove,
         AnswerResign, AnswerRematchStatus, AnswerRematchStart, AnswerResume,
         ReportDisconnect, Emit, wires
    <3> QED BY <1>1, <3>1
  <2> QED BY <2>1, <2>2
<1>5. CASE UNCHANGED vars
  BY <1>1, <1>5 DEF vars, wires, server
<1> QED BY <1>1, <1>2, <1>3, <1>4, <1>5, HandlerSeatStep, DisconnectSeatStep
        DEF Next, Serve

-----------------------------------------------------------------------------
(* The order of what is on its way to the tabs *)

\* What follows the first message follows it still.
LEMMA TailOf ==
  ASSUME NEW S, NEW q \in Seq(S), q # << >>
  PROVE  /\ Len(q) \in Nat /\ Len(q) >= 1 /\ Head(q) = q[1] /\ Len(Tail(q)) = Len(q) - 1
         /\ \A i \in 1 .. Len(Tail(q)) : i + 1 \in 1 .. Len(q) /\ Tail(q)[i] = q[i + 1]
BY HeadTailProperties, LenProperties

\* The message a step of the server adds is not before what is on its way.
LEMMA AddedLast ==
  ASSUME IInv, Forward, NEW to \in SUBSET Lines, NEW msg \in DownMessages',
         msg.type = "STATE" => msg.view = Snapshot(session'),
         NEW v \in HeldViews, msg.type = "STATE"
  PROVE  Earlier(v, msg.view)
<1>1. v \in HeldViews'
  BY HeldGrows DEF IInv
<1>2. Earlier(v, session')
  BY <1>1 DEF HeldViews
<1> QED BY <1>2 DEF Earlier, NotAfter, Snapshot

\* What a line holds after the server has emitted: what it held, and maybe one more.
LEMMA EmittedOn ==
  ASSUME IInv, NEW to, NEW msg, NEW s \in Lines
  PROVE  \/ Emitted(to, msg)[s] = down[s]
         \/ /\ Len(down[s]) \in Nat /\ Len(Emitted(to, msg)[s]) = Len(down[s]) + 1
            /\ Emitted(to, msg)[s][Len(down[s]) + 1] = msg
            /\ \A i \in 1 .. Len(down[s]) : Emitted(to, msg)[s][i] = down[s][i]
<1>1. down[s] \in Seq(DownMessages \cup {msg})
  BY SeqMonotonic DEF IInv, WiresHeld
<1> QED BY <1>1, AppendProperties, LenProperties DEF Emitted

LEMMA DownHeld ==
  ASSUME IInv, NEW s \in Lines, NEW i \in 1 .. Len(down[s]), down[s][i].type = "STATE"
  PROVE  down[s][i].view \in HeldViews
<1>1. down[s][i] \in DownMessages
  BY ElementOfSeq DEF IInv, WiresHeld
<1> QED BY <1>1 DEF DownMessages

LEMMA DownOrderedNext == ASSUME IInv, [Next]_vars PROVE DownOrdered'
<1> SUFFICES ASSUME NEW s \in Lines, NEW i \in 1 .. Len(down'[s]),
                    NEW j \in 1 .. Len(down'[s]), i < j,
                    down'[s][i].type = "STATE", down'[s][j].type = "STATE"
             PROVE  Earlier(down'[s][i].view, down'[s][j].view)
  BY DEF DownOrdered
<1>1. CASE down'[s] = down[s]
  BY <1>1 DEF IInv, DownOrdered
<1>2. ASSUME NEW to \in SUBSET Lines, NEW msg \in DownMessages',
             msg.type = "STATE" => msg.view = Snapshot(session'),
             down' = Emitted(to, msg)
      PROVE  Earlier(down'[s][i].view, down'[s][j].view)
  <2>1. CASE down'[s] # down[s]
    <3>1. /\ Len(down[s]) \in Nat /\ Len(down'[s]) = Len(down[s]) + 1
          /\ down'[s][Len(down[s]) + 1] = msg
          /\ \A x \in 1 .. Len(down[s]) : down'[s][x] = down[s][x]
      BY <1>2, <2>1, EmittedOn
    <3>2. i \in 1 .. Len(down[s]) /\ down'[s][i] = down[s][i]
      BY <3>1
    <3>3. CASE j \in 1 .. Len(down[s])
      BY <3>1, <3>2, <3>3 DEF IInv, DownOrdered
    <3>4. CASE j = Len(down[s]) + 1
      <4>1. down[s][i].view \in HeldViews
        BY <3>2, DownHeld
      <4>2. msg.type = "STATE"
        BY <3>1, <3>4
      <4> QED BY <1>2, <3>1, <3>2, <3>4, <4>1, <4>2, AddedLast, NextForward
    <3> QED BY <3>1, <3>3, <3>4
  <2> QED BY <1>1, <2>1
<1>3. ASSUME NEW x \in Lines, down' = [down EXCEPT ![x] = << >>]
      PROVE  Earlier(down'[s][i].view, down'[s][j].view)
  <2>1. x # s
    BY <1>3, EmptySeq DEF IInv, WiresHeld
  <2> QED BY <1>1, <1>3, <2>1
<1>4. ASSUME NEW p \in Players, ReceiveDown(p)
      PROVE  Earlier(down'[s][i].view, down'[s][j].view)
  <2>1. CASE LineOf(p) = s
    <3>1. down'[s] = Tail(down[s]) /\ down[s] # << >> /\ down[s] \in Seq(DownMessages)
      BY <1>4, <2>1 DEF ReceiveDown, IInv, WiresHeld
    <3>2. /\ i + 1 \in 1 .. Len(down[s]) /\ down'[s][i] = down[s][i + 1]
          /\ j + 1 \in 1 .. Len(down[s]) /\ down'[s][j] = down[s][j + 1]
      BY <3>1, TailOf
    <3> QED BY <3>2 DEF IInv, DownOrdered
  <2>2. CASE LineOf(p) # s
    BY <1>1, <1>4, <2>2 DEF ReceiveDown
  <2> QED BY <2>1, <2>2
<1> QED BY <1>2, <1>3, <1>4, <1>1, NextDown DEF Emits

LEMMA ViewBeforeDownNext == ASSUME IInv, [Next]_vars PROVE ViewBeforeDown'
<1> SUFFICES ASSUME NEW p \in Players, tab'[p].view # NoView, LineOf(p)' \in Lines,
                    NEW i \in 1 .. Len(down'[LineOf(p)']),
                    down'[LineOf(p)'][i].type = "STATE"
             PROVE  Earlier(tab'[p].view, down'[LineOf(p)'][i].view)
  BY DEF ViewBeforeDown, HasView
<1> DEFINE s == LineOf(p)
<1>1. ASSUME tab'[p].view = tab[p].view, LineOf(p)' = s,
             NEW j \in 1 .. Len(down[s]), down'[s][i] = down[s][j]
      PROVE  Earlier(tab'[p].view, down'[LineOf(p)'][i].view)
  BY <1>1 DEF IInv, ViewBeforeDown, HasView
<1>2. ASSUME NEW q \in Players, Open(q)
      PROVE  Earlier(tab'[p].view, down'[LineOf(p)'][i].view)
  <2>1. down' = down /\ \A x \in Players : tab'[x].view = tab[x].view
    BY <1>2, OpenedLine, OpenTabs
  <2>2. CASE q = p
    <3>1. LineOf(p)' = <<p, tab[p].line + 1>>
      BY <1>2, <2>2, OpenTabs DEF LineOf
    <3>2. down[LineOf(p)'] = << >>
      BY <1>2, <2>2, <3>1, OpenedLine DEF IInv, DownWhileOpen
    <3> QED BY <2>1, <3>2, EmptySeq
  <2>3. CASE q # p
    <3>1. tab'[p] = tab[p]
      BY <1>2, <2>3, OpenTabs
    <3>2. LineOf(p)' = s
      BY <3>1 DEF LineOf
    <3> QED BY <1>1, <2>1, <3>2
  <2> QED BY <2>2, <2>3
<1>3. ASSUME NEW q \in Players, ReceiveDown(q)
      PROVE  Earlier(tab'[p].view, down'[LineOf(p)'][i].view)
  <2>1. /\ LineOf(q) \in Lines /\ down[LineOf(q)] # << >>
        /\ down' = [down EXCEPT ![LineOf(q)] = Tail(@)]
        /\ tab \in [Players -> Tabs] /\ down \in [Lines -> Seq(DownMessages)]
    BY <1>3, ConnectedLine DEF ReceiveDown, Connected, IInv, TabsHeld, WiresHeld
  <2>2. PICK t \in Tabs :
           /\ tab' = [tab EXCEPT ![q] = t]
           /\ t.line = tab[q].line
           /\ \/ t.view = tab[q].view
              \/ /\ Head(down[LineOf(q)]).type = "STATE"
                 /\ t.view = Head(down[LineOf(q)]).view /\ t.view \in HeldViews
              \/ /\ HasView(q)
                 /\ t.view \in HeldViews /\ SameUpToConsent(tab[q].view, t.view)
    BY <1>3, ReceiveDownShows
  <2>3. LineOf(p)' = s
    BY <2>1, <2>2 DEF LineOf
  <2>4. CASE q # p
    <3>1. LineOf(q) # s
      BY <2>4 DEF LineOf
    <3>2. tab'[p] = tab[p] /\ down'[s] = down[s]
      BY <2>1, <2>2, <2>3, <2>4, <3>1
    <3> QED BY <1>1, <2>3, <3>2
  <2>5. CASE q = p
    <3>1. tab'[p] = t /\ down'[s] = Tail(down[s])
      BY <2>1, <2>2, <2>5
    <3>2. /\ Len(down[s]) >= 1 /\ Len(down[s]) \in Nat /\ Head(down[s]) = down[s][1]
          /\ i + 1 \in 1 .. Len(down[s]) /\ down'[s][i] = down[s][i + 1]
      BY <2>1, <2>3, <2>5, <3>1, TailOf DEF IInv, WiresHeld
    <3>3. CASE t.view = tab[p].view
      BY <1>1, <2>3, <3>1, <3>2, <3>3
    <3>4. CASE Head(down[s]).type = "STATE" /\ t.view = Head(down[s]).view
      <4>1. 1 \in 1 .. Len(down[s]) /\ 1 < i + 1
        BY <3>2
      <4>2. Earlier(down[s][1].view, down[s][i + 1].view)
        BY <2>1, <2>3, <2>5, <3>2, <3>4, <4>1 DEF IInv, DownOrdered
      <4> QED BY <2>3, <3>1, <3>2, <3>4, <4>2
    <3>5. CASE HasView(p) /\ SameUpToConsent(tab[p].view, t.view)
      <4>1. Earlier(tab[p].view, down[s][i + 1].view)
        BY <2>1, <2>3, <2>5, <3>2, <3>5 DEF IInv, ViewBeforeDown
      <4>2. Earlier(t.view, down[s][i + 1].view)
        BY <3>5, <4>1 DEF SameUpToConsent, Earlier, NotAfter, Rank
      <4> QED BY <2>3, <3>1, <3>2, <4>2
    <3> QED BY <2>2, <2>5, <3>3, <3>4, <3>5
  <2> QED BY <2>4, <2>5
<1>4. ASSUME ~ \E q \in Players : Open(q) \/ ReceiveDown(q)
      PROVE  Earlier(tab'[p].view, down'[LineOf(p)'][i].view)
  <2>1. tab'[p].line = tab[p].line /\ tab'[p].view = tab[p].view
    <3>1. CASE tab' = tab
      BY <3>1
    <3>2. ASSUME NEW q \in Players, NEW t \in Tabs, tab' = [tab EXCEPT ![q] = t],
                 t.line = tab[q].line, t.view \in {tab[q].view, NoView}
          PROVE  tab'[p].line = tab[p].line /\ tab'[p].view = tab[p].view
      BY <3>2 DEF IInv, TabsHeld
    <3> QED BY <1>4, <3>1, <3>2, NextTabs
  <2>2. LineOf(p)' = s /\ s \in Lines
    BY <2>1 DEF LineOf
  <2>3. CASE down'[s] = down[s]
    BY <1>1, <2>1, <2>2, <2>3
  <2>4. ASSUME NEW x \in Lines, down' = [down EXCEPT ![x] = << >>]
        PROVE  down'[s] = down[s]
    <3>1. x # s
      BY <2>2, <2>4, EmptySeq DEF IInv, WiresHeld
    <3> QED BY <2>4, <3>1
  <2>5. ASSUME NEW to \in SUBSET Lines, NEW msg \in DownMessages',
               msg.type = "STATE" => msg.view = Snapshot(session'),
               down' = Emitted(to, msg), down'[s] # down[s]
        PROVE  Earlier(tab'[p].view, down'[LineOf(p)'][i].view)
    <3>1. /\ Len(down[s]) \in Nat /\ Len(down'[s]) = Len(down[s]) + 1
          /\ down'[s][Len(down[s]) + 1] = msg
          /\ \A x \in 1 .. Len(down[s]) : down'[s][x] = down[s][x]
      BY <2>2, <2>5, EmittedOn
    <3>2. CASE i \in 1 .. Len(down[s])
      BY <1>1, <2>1, <2>2, <3>1, <3>2
    <3>3. CASE i = Len(down[s]) + 1
      <4>1. tab[p].view \in HeldViews
        BY <2>1 DEF IInv, TabsHeld, HasView
      <4>2. down'[s][i] = msg /\ msg.type = "STATE"
        BY <2>2, <3>1, <3>3
      <4>3. Earlier(tab[p].view, msg.view)
        BY <2>5, <4>1, <4>2, AddedLast, NextForward
      <4> QED BY <2>1, <2>2, <4>2, <4>3
    <3> QED BY <2>2, <3>1, <3>2, <3>3
  <2> QED BY <1>4, <2>3, <2>4, <2>5, NextDown DEF Emits
<1> QED BY <1>2, <1>3, <1>4

-----------------------------------------------------------------------------
(* The theorems *)

LEMMA NextIInv == ASSUME IInv, [Next]_vars PROVE IInv'
<1>1. SessionGood'
  BY NextForward DEF Forward
<1> QED BY <1>1, WiresHeldNext, TabsHeldNext, ServerTypedNext, LinesFreshNext,
           DownWhileOpenNext, WaitingNext, PresenceNext, DownOrderedNext,
           ViewBeforeDownNext
        DEF IInv, Presence

LEMMA Inductive == Spec => []IInv
<1>1. IInv /\ [Next]_vars => IInv'
  BY NextIInv
<1> QED BY <1>1, InitIInv, PTL DEF Spec

\* Every variable has its type: every session that a tab shows, that is on its
\* way or in a move that was sent is a session with a game.
THEOREM TypeCorrect == Spec => []TypeOK
BY Inductive, IInvImplies, PTL

\* A seat whose socket is open is never marked as left, whatever other connections
\* of the same player close late, and the guest's is marked as soon as its own
\* socket closes (disconnectService.js:25).  Of the creator's seat only the first
\* half is true of the code.
THEOREM SeatPresenceAlways == Spec => []SeatPresence
BY Inductive, IInvImplies, PTL

\* Once the session exists, no seat comes to count as connected with a socket that
\* has closed, neither by the close of the socket nor by a handler that goes on
\* after its await: both seats, whoever closes, resumes and reconnects when.
THEOREM OnlyCreationEverLeavesGhosts == Spec => OnlyCreationLeavesGhosts
<1>1. IInv /\ [Next]_vars =>
        [Exists => \A c \in Colours : GhostSeat(c)' => GhostSeat(c)]_vars
  <2> SUFFICES ASSUME IInv, [Next]_vars, Exists, NEW c \in Colours
               PROVE  GhostSeat(c)' => GhostSeat(c)
    OBVIOUS
  <2>1. SeatStep(c)
    BY NextSeatStep
  <2> QED BY <2>1 DEF SeatStep, GhostSeat
<1> QED BY <1>1, Inductive, PTL DEF Spec, OnlyCreationLeavesGhosts

\* A player who counts as connected is in the room, or a handler of the same
\* socket is about to enter it.
THEOREM PresentPlayersAlwaysHear == Spec => []PresentPlayersHear
BY Inductive, IInvImplies, PTL

LEMMA ViewAdvances ==
  ASSUME IInv, [Next]_vars, NEW p \in Players, HasView(p)
  PROVE  Reload(p) \/ (tab'[p].view # NoView /\ NotAfter(tab[p].view, tab'[p].view))
<1> DEFINE v == tab[p].view
<1>1. v \in HeldViews /\ v # NoView
  BY DEF IInv, TabsHeld, HasView
<1>2. CASE tab'[p].view = v
  <2>1. NotAfter(v, v)
    BY <1>1, EarlierReflexive DEF HeldViews, Views, Earlier
  <2> QED BY <1>1, <1>2, <2>1
<1>3. ASSUME NEW q \in Players, ReceiveDown(q)
      PROVE  Reload(p) \/ (tab'[p].view # NoView /\ NotAfter(tab[p].view, tab'[p].view))
  <2>1. tab \in [Players -> Tabs] /\ LineOf(q) \in Lines /\ down[LineOf(q)] # << >>
        /\ down[LineOf(q)] \in Seq(DownMessages)
    BY <1>3, ConnectedLine DEF ReceiveDown, Connected, IInv, TabsHeld, WiresHeld
  <2>2. PICK t \in Tabs :
           /\ tab' = [tab EXCEPT ![q] = t]
           /\ \/ t.view = tab[q].view
              \/ /\ Head(down[LineOf(q)]).type = "STATE"
                 /\ t.view = Head(down[LineOf(q)]).view /\ t.view \in HeldViews
              \/ /\ HasView(q)
                 /\ t.view \in HeldViews /\ SameUpToConsent(tab[q].view, t.view)
    BY <1>3, ReceiveDownShows
  <2>3. CASE tab'[p].view # v
    <3>1. q = p /\ tab'[p] = t /\ t.view # v
      BY <2>1, <2>2, <2>3
    <3>2. t.view \in HeldViews
      BY <2>2, <3>1
    <3>3. t.view # NoView
      BY <3>2, ViewsAreViews DEF HeldViews
    <3>4. CASE Head(down[LineOf(p)]).type = "STATE" /\ t.view = Head(down[LineOf(p)]).view
      <4>1. 1 \in 1 .. Len(down[LineOf(p)]) /\ Head(down[LineOf(p)]) = down[LineOf(p)][1]
        BY <2>1, <3>1, TailOf
      <4>2. Earlier(v, t.view)
        BY <2>1, <3>1, <3>4, <4>1 DEF IInv, ViewBeforeDown
      <4> QED BY <3>1, <3>3, <4>2 DEF Earlier
    <3>5. CASE SameUpToConsent(v, t.view)
      <4>1. NotAfter(v, v)
        BY <1>1, EarlierReflexive DEF HeldViews, Views, Earlier
      <4>2. NotAfter(v, t.view)
        BY <3>5, <4>1 DEF SameUpToConsent, NotAfter, Rank
      <4> QED BY <3>1, <3>3, <4>2
    <3> QED BY <2>2, <3>1, <3>4, <3>5
  <2> QED BY <1>2, <2>3
<1>4. ASSUME NEW q \in Players, NEW t \in Tabs, tab' = [tab EXCEPT ![q] = t],
             t.view = tab[q].view \/ (Reload(q) /\ t.view = NoView)
      PROVE  Reload(p) \/ tab'[p].view = v
  <2>1. CASE q = p
    BY <1>4, <2>1 DEF IInv, TabsHeld
  <2>2. CASE q # p
    BY <1>4, <2>2 DEF IInv, TabsHeld
  <2> QED BY <2>1, <2>2
<1> QED BY <1>2, <1>3, <1>4, OpenTabs, NextTabs

\* A page never shows an older state of the game than before, and loses the
\* game only when it is loaded again, although messages are applied as they come.
THEOREM ViewsAlwaysAdvance == Spec => ViewsAdvance
<1>1. IInv /\ [Next]_vars =>
        [\A p \in Players :
           HasView(p) =>
             \/ Reload(p)
             \/ tab'[p].view # NoView /\ NotAfter(tab[p].view, tab'[p].view)]_vars
  BY ViewAdvances
<1> QED BY <1>1, Inductive, PTL DEF Spec, ViewsAdvance

\* A move is applied to the position its player was shown, unless a rematch has
\* begun since: the revision in the message stands for the position.
THEOREM MovesAlwaysAsSeen == Spec => MovesAsSeen
<1>1. ASSUME IInv, NEW s \in Lines, SubmitMove(s),
             Head(up[s]).seen.number = session.number
      PROVE  Head(up[s]).seen.game.fen = Game.fen
  <2>1. Head(up[s]) \in UpMessages /\ Head(up[s]).type = "MOVE_SUBMIT"
    BY <1>1, HeadTailProperties DEF SubmitMove, Request, Receive, IInv, WiresHeld
  <2>2. PICK m \in Moves, v \in HeldViews : Head(up[s]) = Submission(m, v)
    BY <2>1 DEF UpMessages, Requests
  <2>3. Head(up[s]).seen = v /\ Head(up[s]).expectedRevision = v.game.revision
    BY <2>2 DEF Submission
  <2>4. v.game.revision = Game.revision
    BY <1>1, <2>1, <2>3 DEF SubmitMove, Request, Accepts, AcceptsMove
  <2>5. Earlier(v, session)
    BY DEF HeldViews
  <2> QED BY <1>1, <2>3, <2>4, <2>5 DEF Earlier, Game
<1>2. IInv /\ [Next]_vars =>
        [\A s \in Lines :
           SubmitMove(s) =>
             LET seen == Head(up[s]).seen
             IN seen.number = session.number => seen.game.fen = Game.fen]_vars
  BY <1>1
<1> QED BY <1>2, Inductive, PTL DEF Spec, MovesAsSeen
=============================================================================
