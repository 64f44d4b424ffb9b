---------------------------- MODULE GameSession ----------------------------
(***************************************************************************)
(* The persisted fields of one game session and the rules that both        *)
(* backends apply to them: who may join, whose turn it is, what a legal    *)
(* move, a resignation and a rematch do.  These are the pure functions of  *)
(* stateMachine.js, sessionFactory.js, moveService.js and                  *)
(* gameLifecycleService.js; the modules that extend this one add where the *)
(* fields are kept and how the requests interleave.                        *)
(*                                                                         *)
(* A move is a member of Moves and carries its effect on the game in       *)
(* Outcome: the rules of chess (chess.js) are a library, all the server    *)
(* does with them is read whether the position it reached is checkmate or  *)
(* a draw.  A position is the function from 1..revision to the moves that  *)
(* led to it, so two positions are equal exactly when the same moves were  *)
(* replayed.                                                               *)
(***************************************************************************)
EXTENDS Naturals

CONSTANTS
  Players,    \* the clients that take part (playerId, and clientId with it)
  NoPlayer,   \* the null of an empty seat
  Moves,      \* the moves a client may submit that chess.js accepts
  Outcome     \* what the position after a move is: "none", "checkmate" or "draw"

ASSUME NoPlayerAssumption == NoPlayer \notin Players
ASSUME OutcomeAssumption == Outcome \in [Moves -> {"none", "checkmate", "draw"}]

Colours == {"white", "black"}
Opponent(c) == IF c = "white" THEN "black" ELSE "white"

SessionStates == {"WAITING_FOR_PLAYERS", "IN_PROGRESS", "FINISHED"}

\* Every kind of draw (stalemate, material, repetition, other) is one result.
Results == {"null", "WHITE_WIN_CHECKMATE", "BLACK_WIN_CHECKMATE", "DRAW",
            "WHITE_WIN_RESIGNATION", "BLACK_WIN_RESIGNATION"}

\* A move list: revision -> move.  The entries of session.moveHistory and the
\* rows of the table moves carry their revision, and may have gaps.
IsMoveList(f) == DOMAIN f \subseteq Nat \ {0} /\ f \in [DOMAIN f -> Moves]
WithMove(f, r, m) == [i \in DOMAIN f \cup {r} |-> IF i = r THEN m ELSE f[i]]
NoMoves == [i \in {} |-> NoPlayer]

NoRematch == [c \in Colours |-> FALSE]

\* The columns of the table games that the server reads back.
IsGame(g) ==
  /\ g \in [state : SessionStates, revision : Nat, fen : {g.fen},
           turnColour : Colours \cup {"null"}, result : Results,
           white : Players, black : Players \cup {NoPlayer},
           rematch : [Colours -> BOOLEAN]]
  /\ IsMoveList(g.fen)

-----------------------------------------------------------------------------
(* sessionFactory.js *)

CreatedBy(p) ==
  [state |-> "WAITING_FOR_PLAYERS", revision |-> 0, fen |-> NoMoves,
   turnColour |-> "null", result |-> "null",
   white |-> p, black |-> NoPlayer, rematch |-> NoRematch]

-----------------------------------------------------------------------------
(* stateMachine.js *)

CanJoinSession(g) == g.state = "WAITING_FOR_PLAYERS" /\ g.black = NoPlayer

\* The white seat is never null: it is filled when the session is created.
IsReadyToStart(g) == g.state = "WAITING_FOR_PLAYERS" /\ g.black # NoPlayer

CanSubmitMove(g) == g.state = "IN_PROGRESS"

\* getPlayerColour tests the white seat first.
GetPlayerColour(g, p) ==
  IF g.white = p THEN "white" ELSE IF g.black = p THEN "black" ELSE "null"

IsPlayersTurn(g, p) ==
  GetPlayerColour(g, p) # "null" /\ g.turnColour = GetPlayerColour(g, p)

-----------------------------------------------------------------------------
(* moveService.js and gameLifecycleService.js *)

\* Resigning, asking for a rematch and resuming test both seats in turn, so
\* the black seat wins when one player holds both.
SeatOf(g, p) ==
  IF g.black = p THEN "black" ELSE IF g.white = p THEN "white" ELSE "null"

Seated(g, p) == [g EXCEPT !.black = p]

Started(g) == [g EXCEPT !.state = "IN_PROGRESS", !.turnColour = "white"]

\* chess.turn() of the position after n moves.
TurnAfter(n) == IF n % 2 = 0 THEN "white" ELSE "black"

\* The new position, its turn and revision, before completion is looked at.
Moved(g, m) ==
  [g EXCEPT !.fen = WithMove(@, g.revision + 1, m),
            !.turnColour = TurnAfter(g.revision + 1),
            !.revision = @ + 1]

\* Mutant: the winner's name without toUpperCase().
CompletedLowerCase(g, m) ==
  IF Outcome[m] = "checkmate"
  THEN [g EXCEPT !.state = "FINISHED", !.turnColour = "null",
                 !.result = IF TurnAfter(g.revision) = "white"
                            THEN "black_WIN_CHECKMATE" ELSE "white_WIN_CHECKMATE"]
  ELSE g

\* applyGameCompletionState(session, chess) after move m.
Completed(g, m) ==
  CASE Outcome[m] = "checkmate" ->
         [g EXCEPT !.state = "FINISHED", !.turnColour = "null",
                   !.result = IF TurnAfter(g.revision) = "white"
                              THEN "BLACK_WIN_CHECKMATE"
                              ELSE "WHITE_WIN_CHECKMATE"]
    [] Outcome[m] = "draw" ->
         [g EXCEPT !.state = "FINISHED", !.turnColour = "null",
                   !.result = "DRAW"]
    [] OTHER -> g

Resigned(g, c) ==
  [g EXCEPT !.state = "FINISHED", !.turnColour = "null",
            !.result = IF c = "white" THEN "BLACK_WIN_RESIGNATION"
                                      ELSE "WHITE_WIN_RESIGNATION"]

RematchAsked(g, c) == [g EXCEPT !.rematch[c] = TRUE]

\* Mutant: one player's consent is enough.
OnePlayerAccepted(g) == g.rematch["white"] \/ g.rematch["black"]

BothPlayersAccepted(g) == g.rematch["white"] /\ g.rematch["black"]

\* Mutant: the result of the finished game is not reset.
RematchKeepsResult(g) ==
  [g EXCEPT !.state = "IN_PROGRESS", !.revision = 0, !.fen = NoMoves,
            !.turnColour = "white", !.rematch = NoRematch]

RematchStarted(g) ==
  [g EXCEPT !.state = "IN_PROGRESS", !.revision = 0, !.fen = NoMoves,
            !.turnColour = "white", !.result = "null", !.rematch = NoRematch]

-----------------------------------------------------------------------------
(* What the fields of one game must say of each other. *)

LastOutcome(g) == IF g.revision = 0 THEN "none" ELSE Outcome[g.fen[g.revision]]

\* Nothing was played after a position that ends the game.
PlayedWithinTheGame(g) ==
  /\ DOMAIN g.fen = 1 .. g.revision
  /\ \A r \in 1 .. g.revision : r < g.revision => Outcome[g.fen[r]] = "none"

\* The result is the one the last position and the players' resignations allow.
ResultFits(g) ==
  CASE LastOutcome(g) = "checkmate" ->
         g.result = IF TurnAfter(g.revision) = "white"
                    THEN "BLACK_WIN_CHECKMATE" ELSE "WHITE_WIN_CHECKMATE"
    [] LastOutcome(g) = "draw" -> g.result = "DRAW"
    [] OTHER -> g.result \in {"WHITE_WIN_RESIGNATION", "BLACK_WIN_RESIGNATION"}

Coherent(g) ==
  /\ PlayedWithinTheGame(g)
  /\ g.state = "WAITING_FOR_PLAYERS" =>
       g.revision = 0 /\ g.turnColour = "null" /\ g.result = "null"
  /\ g.state = "IN_PROGRESS" =>
       /\ g.black # NoPlayer
       /\ g.turnColour = TurnAfter(g.revision)
       /\ g.result = "null"
       /\ LastOutcome(g) = "none"
  /\ g.state = "FINISHED" =>
       g.black # NoPlayer /\ g.turnColour = "null" /\ ResultFits(g)
  /\ g.state # "FINISHED" => g.rematch = NoRematch
  /\ ~ BothPlayersAccepted(g)
=============================================================================
