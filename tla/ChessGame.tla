----------------------------- MODULE ChessGame -----------------------------
(***************************************************************************)
(* What a backend promises about one game, whatever keeps it: two seats    *)
(* are filled once, the sides move in turn, the game ends at the first     *)
(* decisive position or at a resignation and then nothing happens to it    *)
(* but the two sides agreeing on a rematch.                                *)
(*                                                                         *)
(* The server may die at any moment.  `saved' is the set of games that a   *)
(* restart may bring back: only games that were once the current one, and  *)
(* always whole, never the position of one with the result of another.     *)
(***************************************************************************)
EXTENDS Naturals, Sequences

CONSTANTS
  Players, NoPlayer,  \* who may take the second seat, and nobody
  Moves,              \* the legal moves
  Outcome,            \* what a move leads to: "none", "checkmate" or "draw"
  MaxPlies            \* bound on the length of a game

VARIABLES
  game,               \* the current game
  saved               \* the games a restart may bring back

Sides == {"white", "black"}
Other(c) == IF c = "white" THEN "black" ELSE "white"
SideToMove(moves) == IF Len(moves) % 2 = 0 THEN "white" ELSE "black"

Nobody == "nobody"

Game == [stage : {"open", "ready", "playing", "over"},
         guest : Players \cup {NoPlayer},
         moves : Seq(Moves),
         winner : Sides \cup {Nobody, "none"},
         wantRematch : SUBSET Sides]

Init ==
  /\ game = [stage |-> "open", guest |-> NoPlayer, moves |-> << >>,
             winner |-> "none", wantRematch |-> {}]
  /\ saved = {game}

\* A backend may start the game with the guest's arrival or after it.
Join(p) ==
  /\ game.stage = "open"
  /\ \E s \in {"ready", "playing"} :
       game' = [game EXCEPT !.stage = s, !.guest = p]

Start ==
  /\ game.stage = "ready"
  /\ game' = [game EXCEPT !.stage = "playing"]

\* A move ends the game when it leads to mate or to a draw.
StageAfter(m) == IF Outcome[m] = "none" THEN "playing" ELSE "over"

WinnerAfter(m, mover) ==
  CASE Outcome[m] = "checkmate" -> mover
    [] Outcome[m] = "draw" -> Nobody
    [] OTHER -> "none"

Play(m) ==
  /\ game.stage = "playing"
  /\ Len(game.moves) < MaxPlies
  /\ game' = [game EXCEPT !.moves = Append(@, m),
                          !.stage = StageAfter(m),
                          !.winner = WinnerAfter(m, SideToMove(game.moves))]

Resign(c) ==
  /\ game.stage = "playing"
  /\ game' = [game EXCEPT !.stage = "over", !.winner = Other(c)]

AskRematch(c) ==
  /\ game.stage = "over"
  /\ game.wantRematch \cup {c} # Sides
  /\ game' = [game EXCEPT !.wantRematch = @ \cup {c}]

AgreeRematch(c) ==
  /\ game.stage = "over"
  /\ game.wantRematch \cup {c} = Sides
  /\ game' = [game EXCEPT !.stage = "playing", !.moves = << >>,
                          !.winner = "none", !.wantRematch = {}]

\* What may be brought back grows by the current game only.
Save == saved' \subseteq saved \cup {game'} /\ saved' # {}

Step ==
  /\ \/ \E p \in Players : Join(p)
     \/ Start
     \/ \E m \in Moves : Play(m)
     \/ \E c \in Sides : Resign(c) \/ AskRematch(c) \/ AgreeRematch(c)
     \/ game' = game
  /\ Save

Restart ==
  /\ game' \in saved
  /\ saved' = {game'}

Next == Step \/ Restart

Spec == Init /\ [][Next]_<<game, saved>>
=============================================================================
