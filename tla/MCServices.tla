----------------------------- MODULE MCServices -----------------------------
(***************************************************************************)
(* Values of the constants for TLC.                                        *)
(***************************************************************************)
EXTENDS ServicesProperties, TLC

CONSTANTS quiet, mates, draws

\* A move that lets the game go on, one that mates and one that draws.
MCOutcome ==
  [m \in Moves |-> CASE m = mates -> "checkmate"
                     [] m = draws -> "draw"
                     [] OTHER -> "none"]

\* Handlers are interchangeable: no definition compares or orders them.
HandlerSymmetry == Permutations(Handlers)
=============================================================================
