-------------------------- MODULE TableProperties --------------------------
(***************************************************************************)
(* What the players may rely on: the server knows who is there, who is     *)
(* there hears of the game, and a page shows the game as it is or was, in  *)
(* the order in which it was.                                              *)
(***************************************************************************)
EXTENDS Table, ChessView

\* A game as one player was shown it.
IsView(v) ==
  /\ DOMAIN v = {"number", "game"}
  /\ v = [number |-> v.number, game |-> v.game]
  /\ v.number \in Nat
  /\ IsGame(v.game)

IsUp(msg) ==
  \/ msg \in [type : {"HELLO", "GAME_CREATE", "GAME_JOIN", "GAME_RESUME",
                      "REMATCH_REQUEST", "RESIGN"}]
  \/ /\ msg.type = "MOVE_SUBMIT"
     /\ msg = [type |-> "MOVE_SUBMIT", move |-> msg.move,
               expectedRevision |-> msg.seen.game.revision, seen |-> msg.seen]
     /\ msg.move \in Moves
     /\ IsView(msg.seen)

IsDown(msg) ==
  \/ msg = [type |-> "WELCOME"]
  \/ msg.type = "STATE" /\ msg = [type |-> "STATE", view |-> msg.view] /\ IsView(msg.view)
  \/ msg \in [type : {"REMATCH_STATUS"}, rematch : [Colours -> BOOLEAN]]

IsSequence(q) == Len(q) \in Nat /\ q = [i \in 1 .. Len(q) |-> q[i]]

IsTab(t) ==
  /\ t \in [line : 0 .. MaxLosses + 1, initialised : BOOLEAN, saved : BOOLEAN,
            view : {t.view}]
  /\ t.view = NoView \/ IsView(t.view)

IsSession(x) ==
  /\ x \in [number : Nat, game : {x.game},
            seat : [Colours -> Lines \cup {NoLine}],
            connected : [Colours -> BOOLEAN]]
  /\ x = NoSession \/ IsGame(x.game)

\* Every variable has its type.
TypeOK ==
  /\ here \in [Lines -> {"new", "open", "closed"}]
  /\ there \in [Lines -> {"new", "open", "closed"}]
  /\ up = [s \in Lines |-> up[s]]
  /\ \A s \in Lines : IsSequence(up[s]) /\ \A i \in 1 .. Len(up[s]) : IsUp(up[s][i])
  /\ down = [s \in Lines |-> down[s]]
  /\ \A s \in Lines : IsSequence(down[s]) /\ \A i \in 1 .. Len(down[s]) : IsDown(down[s][i])
  /\ tab = [p \in Players |-> tab[p]] /\ \A p \in Players : IsTab(tab[p])
  /\ kept = [p \in Players |-> kept[p]]
  /\ \A p \in Players : IsSequence(kept[p]) /\ \A i \in 1 .. Len(kept[p]) : IsUp(kept[p][i])
  /\ clicks \in Nat
  /\ registry \in [Lines -> {"absent", "registered", "initialised"}]
  /\ IsSession(session)
  /\ room \subseteq Lines
  /\ waiting \in [Lines -> [Continuations -> Nat]]

-----------------------------------------------------------------------------
(* Presence *)

\* The disconnect of a socket counts for the seats that use this socket then,
\* however late it comes and whatever the player has resumed on since: a seat
\* whose socket is open is never marked as left, and the guest's is marked as
\* soon as it closes.  (The creator's may not be: see OnlyCreationLeavesGhosts.)
SeatPresence ==
  \A c \in Colours :
    session.seat[c] # NoLine =>
      /\ there[session.seat[c]] = "open" => session.connected[c]
      /\ c = "black" /\ session.connected[c] => there[session.seat[c]] = "open"

\* The seat counts as connected, but its socket has closed.
GhostSeat(c) ==
  /\ session.seat[c] # NoLine /\ session.connected[c]
  /\ there[session.seat[c]] # "open"

\* Once the session is in the map no seat becomes a ghost: no close of a socket
\* goes unnoticed, and no handler that goes on after its await, or hears a
\* socket late, marks a seat as connected whose socket has closed.  The one
\* ghost the code makes is the creator whose socket closes while the creation
\* awaits its INSERT (gameLifecycleService.js:45); it stays until he resumes.
OnlyCreationLeavesGhosts ==
  [][Exists => \A c \in Colours : GhostSeat(c)' => GhostSeat(c)]_vars

\* A player who counts as connected hears what happens to the game, or a
\* handler of the socket is about to put it into the room.
PresentPlayersHear ==
  \A c \in Colours :
    LET s == session.seat[c]
    IN s # NoLine /\ session.connected[c] /\ there[s] = "open" =>
         \/ s \in room
         \/ \E k \in {"seat", "start", "resume"} : waiting[s][k] > 0

-----------------------------------------------------------------------------
(* What the pages show *)

Rank(g) ==
  IF g.state = "WAITING_FOR_PLAYERS" THEN 0 ELSE IF g.state = "IN_PROGRESS" THEN 1 ELSE 2

\* v is w or came before it in the life of the session.
NotAfter(v, w) ==
  \/ v.number < w.number
  \/ /\ v.number = w.number
     /\ v.game.revision <= w.game.revision
     /\ Rank(v.game) <= Rank(w.game)

\* STATE_SYNC and STATE_UPDATE are applied as they come, without a look at
\* their revision.  Still the game that a page shows never goes back and is
\* never lost before the page is loaded again, although the handlers write their
\* messages late and old connections deliver what is left on them.
ViewsAdvance ==
  [][\A p \in Players :
       HasView(p) =>
         \/ Reload(p)
         \/ tab'[p].view # NoView /\ NotAfter(tab[p].view, tab'[p].view)]_vars

\* No handler is at work, no message is on its way, no loss goes unnoticed.
Quiet ==
  \A s \in Lines :
    /\ waiting[s] = [k \in Continuations |-> 0]
    /\ up[s] = << >> /\ down[s] = << >>
    /\ here[s] = there[s]

\* When all is quiet, every page whose connection is in the room shows the
\* game as it is, with the consents to a rematch: no change goes unannounced,
\* and the last announcement of several that overlap is a true one.
QuietViewsCurrent ==
  Quiet => \A p \in Players :
             LineOf(p) \in room => tab[p].view = Snapshot(session)

\* A move is applied to the position its player was shown when moving, unless
\* a rematch has begun since then: moves that were sent twice, or sent before
\* a connection was lost and the game resumed on the next, are refused.
MovesAsSeen ==
  [][\A s \in Lines :
       SubmitMove(s) =>
         LET seen == Head(up[s]).seen
         IN seen.number = session.number => seen.game.fen = Game.fen]_vars

\* "Can only drag if the game is live, you are a player, and it is your turn"
\* (App.jsx:334), once nothing is on its way.  The code does not keep this: a
\* tab that has connected again is not in the room until its user resumes, and
\* its board still invites to move in the position of before.
DraggableIsLive ==
  Quiet => \A p \in Players :
             CanDragPieces(p) =>
               Game.state = "IN_PROGRESS" /\ IsPlayersTurn(Game, p)

-----------------------------------------------------------------------------
(* The game itself *)

\* Before the room is created: an open game.
TheGame ==
  IF Exists
  THEN AsChessGame(Game)
  ELSE [stage |-> "open", guest |-> NoPlayer, moves |-> << >>,
        winner |-> "none", wantRematch |-> {}]

Abstract == INSTANCE ChessGame
              WITH game <- TheGame, saved <- {TheGame}, MaxPlies <- MaxRevision

\* Whatever the tabs send, twice, late, over an old connection or for a game
\* they do not show any more, the session goes through the steps of one chess
\* game: what the server accepts, the rules allow.
OneChessGame == [][Abstract!Next]_TheGame
============================================================================
