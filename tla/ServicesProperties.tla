------------------------- MODULE ServicesProperties -------------------------
(***************************************************************************)
(* What must be true of the decomposed services: of the rows, of the copy  *)
(* a request holds, and of what a request has answered.                    *)
(***************************************************************************)
EXTENDS Services, ChessView

IsRow(g) == g = NoRow \/ IsGame(g)

\* Every variable has its type.
TypeOK ==
  /\ IsRow(row)
  /\ IsMoveList(moveRows)
  /\ request \in [Handlers -> Requests \cup {NoRequest}]
  /\ at \in [Handlers -> Places]
  /\ copy = [h \in Handlers |-> Session(copy[h].game, copy[h].moveHistory)]
  /\ \A h \in Handlers : IsRow(copy[h].game) /\ IsMoveList(copy[h].moveHistory)
  /\ joined \subseteq Players
  /\ abandoned \in 0 .. MaxAbandoned

\* Whatever overlaps and whatever fails, the row and the game in every copy
\* are one coherent game: seats, state, turn, position, result and rematch
\* flags agree, because a request writes back all it has read or nothing.
DatabaseCoherent ==
  /\ row # NoRow => Coherent(row)
  /\ \A h \in Handlers : copy[h].game # NoRow => Coherent(copy[h].game)

\* A room with two players has been started: the decomposed join stores the
\* seat and the start in one UPDATE (session/index.js:128).
FullRoomStarted ==
  row # NoRow /\ row.black # NoPlayer => row.state # "WAITING_FOR_PLAYERS"

\* A room is created once and never lost: no overlap of creates, joins and
\* stale saves replaces its creator.
CreatorKeepsWhite ==
  [][row # NoRow => row' # NoRow /\ row'.white = row.white]_vars

\* The guest's seat is taken by p, and every request in progress that has read the
\* room knows it.
Settled(p) ==
  /\ row # NoRow /\ row.black = p
  /\ \A h \in Handlers : Found(h) => copy[h].game.black = p

\* A settled guest keeps the seat, whatever overlaps and whatever fails, and from
\* then on nobody else is told GAME_JOINED: "The requested game cannot accept
\* another player" (GAME_FULL, session/index.js:111).  Before that the code makes
\* no such promise: two joins that have read the same open seat are both told
\* GAME_JOINED, and the row keeps the last one.
SettledGuestStays ==
  [][\A p \in Players : Settled(p) => Settled(p)' /\ joined' \subseteq joined \cup {p}]_vars

Quiet == \A h \in Handlers : IsFree(h)

\* Nothing but a move overlaps a move, and nothing overlaps a rematch.  The code
\* does not see to it: it is what the next two properties need of the clients.
MovesApart ==
  \A h, i \in Handlers : h # i /\ ~ IsFree(h) /\ ~ IsFree(i) =>
    /\ request[h].kind = "move" <=> request[i].kind = "move"
    /\ request[h].kind # "rematch"

\* As long as moves overlap nothing but moves: when no request is in progress and
\* none has failed, the stored moves replay to the stored position, so that the
\* next move passes the check of game/index.js:203.  A resume that overlaps a
\* move breaks it.
PlayableWhenQuiet ==
  Quiet /\ abandoned = 0 /\ row # NoRow /\ row.state = "IN_PROGRESS" =>
    moveRows = row.fen

\* As long as moves overlap nothing but moves: of all moves that race for one
\* revision, the one about to be answered MOVE_ACCEPTED is part of the stored
\* game, in the row and in the list (game/index.js:252-274).
AcceptedMoveStored ==
  \A h \in Handlers :
    at[h] = "answer" /\ request[h].kind = "move" =>
      LET r == copy[h].game.revision
      IN /\ r \in DOMAIN row.fen
         /\ row.fen[r] = request[h].move
         /\ moveRows[r] = request[h].move

-----------------------------------------------------------------------------
(* The row goes through the states of one chess game. *)

\* A room that is not created yet is an open game.
StoredGame ==
  IF row = NoRow
  THEN [stage |-> "open", guest |-> NoPlayer, moves |-> << >>,
        winner |-> "none", wantRematch |-> {}]
  ELSE AsChessGame(row)

Abstract == INSTANCE ChessGame
              WITH game <- StoredGame, saved <- {StoredGame},
                   MaxPlies <- MaxRevision

ImplementsChessGame == Abstract!Spec
=============================================================================
