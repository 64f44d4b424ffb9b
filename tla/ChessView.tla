----------------------------- MODULE ChessView -----------------------------
(***************************************************************************)
(* A stored session seen as the game of ChessGame: the refinement mapping  *)
(* of both backends.                                                       *)
(***************************************************************************)
EXTENDS GameSession

StageOf(g) ==
  CASE g.state = "IN_PROGRESS" -> "playing"
    [] g.state = "FINISHED" -> "over"
    [] g.black = NoPlayer -> "open"
    [] OTHER -> "ready"

WinnerOf(g) ==
  CASE g.result \in {"WHITE_WIN_CHECKMATE", "WHITE_WIN_RESIGNATION"} -> "white"
    [] g.result \in {"BLACK_WIN_CHECKMATE", "BLACK_WIN_RESIGNATION"} -> "black"
    [] g.result = "DRAW" -> "nobody"
    [] OTHER -> "none"

RematchWanted(g) == {c \in Colours : g.rematch[c]}

AsChessGame(g) ==
  [stage |-> StageOf(g), guest |-> g.black, moves |-> g.fen,
   winner |-> WinnerOf(g), wantRematch |-> RematchWanted(g)]
=============================================================================
