------------------------- MODULE ServicesRefinement -------------------------
(***************************************************************************)
(* As long as nothing but moves overlaps a move and nothing overlaps a     *)
(* rematch, an accepted move stays stored, and the stored moves replay to  *)
(* the stored position unless a request has failed.  When only moves       *)
(* overlap at all, the decomposed services implement ChessGame.            *)
(*                                                                         *)
(* Moves race, and the UNIQUE revision of a move is their lock: whoever    *)
(* inserts the row of the next revision has read the current game,         *)
(* everyone else fails to insert until that game is saved.  The other      *)
(* requests may write back an old row, but not one of another position.    *)
(***************************************************************************)
EXTENDS ServicesProofs

-----------------------------------------------------------------------------
(* The inductive invariant. *)

\* What a request has read is the row; or, of a move, the next revision of what
\* it has read is taken; or, of a request of the session service, the row has
\* changed since, but not its position.
CopyFresh(h) ==
  at[h] \in {"readMoves", "decide"} /\ Found(h) =>
    \/ copy[h].game = row
    \/ request[h].kind = "move" /\ copy[h].game.revision + 1 \in DOMAIN moveRows
    \/ request[h].kind \notin {"move", "rematch"} /\ copy[h].game.fen = row.fen

\* The move that is inserted and not saved yet is the next one of the row.
MovePending(h) ==
  at[h] = "moveSave" =>
    LET m == request[h].move
    IN /\ request[h].kind = "move" /\ m \in Moves
       /\ row # NoRow /\ CanSubmitMove(row) /\ row.revision < MaxRevision
       /\ copy[h].game = Completed(Moved(row, m), m)
       /\ row.revision + 1 \in DOMAIN moveRows
       /\ moveRows[row.revision + 1] = m

\* The finished game whose moves are deleted is to be replaced by a new one.
RematchPending(h) ==
  at[h] = "rematchSave" =>
    /\ request[h].kind = "rematch"
    /\ row # NoRow /\ row.state = "FINISHED"
    /\ copy[h].game = RematchStarted(row)
    /\ \E c \in Colours : BothPlayersAccepted(RematchAsked(row, c))

MoveAnswered(h) ==
  at[h] = "answer" /\ request[h].kind = "move" =>
    LET r == copy[h].game.revision
    IN /\ Found(h) /\ row # NoRow
       /\ r \in DOMAIN row.fen /\ row.fen[r] = request[h].move
       /\ r \in DOMAIN moveRows /\ moveRows[r] = request[h].move

RequestFits(h) ==
  CopyFresh(h) /\ MovePending(h) /\ RematchPending(h) /\ MoveAnswered(h)

OneMovePending ==
  \A h, i \in Handlers : at[h] = "moveSave" /\ at[i] = "moveSave" => h = i

\* The rows of moves are those of the row of games, or of the copy that is
\* about to be stored.
Saving(h) == at[h] \in {"moveSave", "rematchSave"}

MovesReplay ==
  /\ row = NoRow => moveRows = NoMoves
  /\ abandoned = 0 =>
       /\ \A h \in Handlers : Saving(h) => moveRows = copy[h].game.fen
       /\ row # NoRow /\ (\A h \in Handlers : ~ Saving(h)) => moveRows = row.fen

RInv == (\A h \in Handlers : RequestFits(h)) /\ OneMovePending /\ MovesReplay

-----------------------------------------------------------------------------
(* A step of one request and the others. *)

\* The step is one of request h, which goes on or ends.
StepOf(h) ==
  /\ ~ IsFree(h)
  /\ \A i \in Handlers : i # h =>
       at'[i] = at[i] /\ request'[i] = request[i] /\ copy'[i] = copy[i]
  /\ at'[h] = "idle" \/ request'[h] = request[h]

LEMMA SaveSessionStep ==
  ASSUME IInv, NEW h \in Handlers, NEW g, ~ IsFree(h), SaveSession(h, g)
  PROVE  StepOf(h) /\ at'[h] = "answer" /\ copy'[h].game = g /\ request' = request
<1>1. copy[h] = Session(copy[h].game, copy[h].moveHistory)
  BY DEF IInv, CopiesGood, CopyGood
<1>2. copy'[h].game = g /\ \A i \in Handlers : i # h => copy'[i] = copy[i]
  BY <1>1 DEF IInv, CopiesGood, SaveSession, Session
<1> QED BY <1>2 DEF SaveSession, StepOf, IInv, RequestsGood

LEMMA EndRequestStep ==
  ASSUME IInv, NEW h \in Handlers, ~ IsFree(h), EndRequest(h)
  PROVE  StepOf(h) /\ at'[h] = "idle"
BY DEF EndRequest, StepOf, IInv, RequestsGood, CopiesGood

LEMMA FreeFits == ASSUME NEW h \in Handlers, IsFree(h) PROVE RequestFits(h)
BY DEF IsFree, RequestFits, CopyFresh, MovePending, RematchPending, MoveAnswered

\* Beside a move run only moves, beside another request only others.
LEMMA OthersKind ==
  ASSUME MovesApart, NEW h \in Handlers, ~ IsFree(h),
         NEW i \in Handlers, i # h, ~ IsFree(i)
  PROVE  /\ request[h].kind = "move" <=> request[i].kind = "move"
         /\ request[h].kind # "rematch" /\ request[i].kind # "rematch"
BY DEF MovesApart

\* Beside a request other than a move nothing is about to be stored twice.
LEMMA NobodyElseSaves ==
  ASSUME MovesApart, RInv, NEW h \in Handlers, ~ IsFree(h), request[h].kind # "move",
         NEW i \in Handlers, i # h
  PROVE  ~ Saving(i)
<1>1. CASE IsFree(i)
  BY <1>1 DEF IsFree, Saving
<1>2. CASE ~ IsFree(i)
  <2>1. request[i].kind \notin {"move", "rematch"}
    BY <1>2, OthersKind
  <2>2. MovePending(i) /\ RematchPending(i)
    BY DEF RInv, RequestFits
  <2> QED BY <2>1, <2>2 DEF MovePending, RematchPending, Saving
<1> QED BY <1>1, <1>2

\* Beside a rematch there is nobody.
LEMMA OthersStayFree ==
  ASSUME MovesApart, NEW h \in Handlers, StepOf(h), request[h].kind = "rematch"
  PROVE  \A i \in Handlers : i # h => at'[i] = "idle" /\ RequestFits(i)'
<1> SUFFICES ASSUME NEW i \in Handlers, i # h
             PROVE  at'[i] = "idle" /\ RequestFits(i)'
  OBVIOUS
<1>1. at'[i] = "idle"
  BY OthersKind DEF StepOf, IsFree
<1>2. RequestFits(i)'
  BY <1>1 DEF RequestFits, CopyFresh, MovePending, RematchPending, MoveAnswered
<1> QED BY <1>1, <1>2

\* While the rows stay, what other requests have read and written still fits.
LEMMA OthersFit ==
  ASSUME RInv, NEW h \in Handlers, StepOf(h), UNCHANGED database
  PROVE  \A i \in Handlers : i # h => RequestFits(i)'
<1> SUFFICES ASSUME NEW i \in Handlers, i # h PROVE RequestFits(i)'
  OBVIOUS
<1>1. /\ at'[i] = at[i] /\ request'[i] = request[i] /\ copy'[i] = copy[i]
      /\ row' = row /\ moveRows' = moveRows
  BY DEF StepOf, database
<1>2. RequestFits(i)
  BY DEF RInv
<1> QED BY <1>1, <1>2 DEF RequestFits, CopyFresh, Found, MovePending, RematchPending,
                          MoveAnswered

-----------------------------------------------------------------------------
(* Every step preserves the invariant. *)

LEMMA InitRInv == Init => RInv
<1> SUFFICES ASSUME Init PROVE RInv
  OBVIOUS
<1>1. \A h \in Handlers : IsFree(h)
  BY DEF Init, IsFree
<1>2. \A h \in Handlers : RequestFits(h)
  BY <1>1, FreeFits
<1> QED BY <1>1, <1>2 DEF Init, RInv, OneMovePending, IsFree,
                          MovesReplay, Saving

LEMMA ReceiveRInv ==
  ASSUME IInv, RInv, NEW h \in Handlers, NEW r \in Requests, Receive(h, r)
  PROVE  RInv'
<1>1. /\ \A i \in Handlers : i # h => at'[i] = at[i] /\ request'[i] = request[i]
      /\ at[h] = "idle" /\ at'[h] = "readGame"
      /\ UNCHANGED <<row, moveRows, copy, abandoned>>
  BY DEF IInv, RequestsGood, Receive, IsFree, database
<1>2. \A i \in Handlers : RequestFits(i)'
  <2> SUFFICES ASSUME NEW i \in Handlers PROVE RequestFits(i)'
    OBVIOUS
  <2>1. CASE i = h
    BY <1>1, <2>1 DEF RequestFits, CopyFresh, MovePending, RematchPending, MoveAnswered
  <2>2. CASE i # h
    <3>1. RequestFits(i)
      BY DEF RInv
    <3> QED BY <1>1, <2>2, <3>1
            DEF RequestFits, CopyFresh, Found, MovePending, RematchPending, MoveAnswered
  <2> QED BY <2>1, <2>2
<1>3. OneMovePending'
  BY <1>1 DEF RInv, OneMovePending
<1>4. MovesReplay'
  BY <1>1 DEF RInv, MovesReplay, Saving
<1> QED BY <1>2, <1>3, <1>4 DEF RInv

LEMMA ReadRInv ==
  ASSUME IInv, RInv, NEW h \in Handlers, ReadGame(h) \/ ReadMoves(h)
  PROVE  RInv'
<1>1. /\ StepOf(h) /\ UNCHANGED <<row, moveRows, request, abandoned>>
      /\ at'[h] \in {"decide", "readMoves"} /\ ~ Saving(h)
      /\ \/ copy'[h].game = row
         \/ copy'[h].game = copy[h].game /\ at[h] = "readMoves"
  BY DEF IInv, RequestsGood, CopiesGood, CopyGood, Session, ReadGame, ReadMoves, IsFree,
         StepOf, Saving, database
<1>2. RequestFits(h)
  BY DEF RInv
<1>3. RequestFits(h)'
  <2>1. CopyFresh(h)'
    BY <1>1, <1>2 DEF RequestFits, CopyFresh, Found
  <2>2. at'[h] \notin {"moveSave", "rematchSave", "answer"}
    BY <1>1
  <2> QED BY <2>1, <2>2 DEF RequestFits, MovePending, RematchPending, MoveAnswered
<1>4. \A i \in Handlers : RequestFits(i)'
  BY <1>1, <1>3, OthersFit DEF database
<1>5. OneMovePending'
  BY <1>1 DEF RInv, OneMovePending, StepOf
<1>6. MovesReplay'
  BY <1>1 DEF RInv, MovesReplay, Saving, StepOf
<1> QED BY <1>4, <1>5, <1>6 DEF RInv

\* A request ends, having stored what it meant to or nothing, unless it fails.
LEMMA EndRInv ==
  ASSUME IInv, RInv, NEW h \in Handlers,
         Answer(h) \/ Refuse(h) \/ FailInsert(h) \/ Abandon(h)
  PROVE  RInv'
<1>1. /\ EndRequest(h) /\ ~ IsFree(h) /\ UNCHANGED database
      /\ \/ abandoned' = abandoned /\ ~ Saving(h)
         \/ abandoned' = abandoned + 1
  BY DEF Answer, Refuse, FailInsert, Abandon, Granted, Decides, Saving, IsFree
<1>2. StepOf(h) /\ at'[h] = "idle"
  BY <1>1, EndRequestStep
<1>3. RequestFits(h)'
  BY <1>2 DEF RequestFits, CopyFresh, MovePending, RematchPending, MoveAnswered
<1>4. \A i \in Handlers : RequestFits(i)'
  BY <1>1, <1>2, <1>3, OthersFit
<1>5. OneMovePending'
  BY <1>2 DEF RInv, OneMovePending, StepOf
<1>6. MovesReplay'
  <2>1. CASE abandoned' = abandoned + 1
    BY <1>1, <2>1 DEF RInv, MovesReplay, IInv, HistoryGood, database
  <2>2. CASE abandoned' = abandoned /\ ~ Saving(h)
    BY <1>1, <1>2, <2>2 DEF RInv, MovesReplay, Saving, StepOf, database
  <2> QED BY <1>1, <2>1, <2>2
<1> QED BY <1>4, <1>5, <1>6 DEF RInv

\* A request other than a move stores a row: no position changes under the
\* requests beside it, as only a rematch changes it and is alone.
LEMMA StoreRInv ==
  ASSUME IInv, RInv, MovesApart, NEW h \in Handlers, ~ IsFree(h),
         request[h].kind # "move",
         NEW g, g # NoRow, SaveSession(h, g),
         row # NoRow /\ request[h].kind # "rematch" => g.fen = row.fen,
         abandoned = 0 => moveRows = g.fen
  PROVE  RInv'
<1>1. /\ StepOf(h) /\ at'[h] = "answer" /\ request' = request
      /\ row' = g /\ UNCHANGED <<moveRows, abandoned>>
  BY SaveSessionStep DEF SaveSession
<1>2. ASSUME NEW i \in Handlers, i # h PROVE RequestFits(i)' /\ ~ Saving(i)'
  <2>1. at'[i] = at[i] /\ request'[i] = request[i] /\ copy'[i] = copy[i] /\ ~ Saving(i)
    BY <1>1, <1>2, NobodyElseSaves DEF StepOf
  <2>2. CASE request[h].kind = "rematch"
    BY <1>1, <1>2, <2>1, <2>2, OthersStayFree DEF Saving
  <2>3. CASE IsFree(i)
    BY <2>1, <2>3 DEF IsFree, Saving, RequestFits, CopyFresh, MovePending,
                      RematchPending, MoveAnswered
  <2>4. CASE request[h].kind # "rematch" /\ ~ IsFree(i)
    <3>1. request[i].kind \notin {"move", "rematch"}
      BY <1>2, <2>4, OthersKind
    <3>2. CopyFresh(i)'
      <4> SUFFICES ASSUME at[i] \in {"readMoves", "decide"}, Found(i)
                   PROVE  copy[i].game.fen = g.fen
        BY <1>1, <2>1, <3>1 DEF CopyFresh, Found
      <4>1. CopyFresh(i) /\ row # NoRow
        BY FoundGood DEF RInv, RequestFits
      <4> QED BY <2>4, <3>1, <4>1 DEF CopyFresh
    <3> QED BY <2>1, <3>1, <3>2 DEF RequestFits, MovePending, RematchPending,
                                    MoveAnswered, Saving
  <2> QED BY <2>2, <2>3, <2>4
<1>3. RequestFits(h)' /\ ~ Saving(h)'
  BY <1>1 DEF RequestFits, CopyFresh, MovePending, RematchPending, MoveAnswered, Saving
<1>4. OneMovePending'
  BY <1>2, <1>3 DEF OneMovePending, Saving
<1>5. MovesReplay'
  BY <1>1, <1>2, <1>3 DEF MovesReplay
<1> QED BY <1>2, <1>3, <1>4, <1>5 DEF RInv

\* The position that a request other than a move has read is the row's.
LEMMA CopyHasPosition ==
  ASSUME IInv, RInv, MovesApart, NEW h \in Handlers, at[h] = "decide", Found(h),
         request[h].kind # "move"
  PROVE  /\ copy[h].game.fen = row.fen /\ row # NoRow /\ ~ IsFree(h)
         /\ request[h].kind = "rematch" => copy[h].game = row
         /\ abandoned = 0 => moveRows = row.fen
<1>1. /\ copy[h].game.fen = row.fen /\ row # NoRow /\ ~ IsFree(h)
      /\ request[h].kind = "rematch" => copy[h].game = row
  BY FoundGood DEF RInv, RequestFits, CopyFresh, IsFree
<1>2. \A i \in Handlers : ~ Saving(i)
  BY <1>1, NobodyElseSaves DEF Saving
<1> QED BY <1>1, <1>2 DEF RInv, MovesReplay

LEMMA StoreStepRInv ==
  ASSUME IInv, RInv, MovesApart, NEW h \in Handlers,
         \/ CreateGame(h) \/ JoinGame(h) \/ ResumeGame(h) \/ DisconnectPlayer(h)
         \/ ResignGame(h) \/ AskRematch(h)
  PROVE  RInv'
<1> DEFINE g == copy[h].game
<1>1. CASE CreateGame(h)
  <2>1. CreatedBy(Player(h)) # NoRow /\ CreatedBy(Player(h)).fen = NoMoves
    BY DEF CreatedBy, NoRow
  <2>2. row = NoRow /\ SaveSession(h, CreatedBy(Player(h))) /\ ~ IsFree(h)
        /\ request[h].kind = "create"
    BY <1>1 DEF CreateGame, InsertSession, Decides, IsFree
  <2>3. moveRows = NoMoves
    BY <2>2 DEF RInv, MovesReplay
  <2> QED BY <2>1, <2>2, <2>3, StoreRInv
<1>2. ASSUME Found(h), at[h] = "decide", request[h].kind # "move",
             NEW s, SaveSession(h, s), s # NoRow, s.fen = g.fen
      PROVE  RInv'
  BY <1>2, CopyHasPosition, StoreRInv
<1>3. CASE JoinGame(h)
  <2>1. /\ Found(h) /\ at[h] = "decide" /\ request[h].kind = "join" /\ IsGame(g)
        /\ SaveSession(h, Started(Seated(g, Player(h))))
    BY <1>3, FoundGood DEF JoinGame, Decides, MayJoin, GoodGame
  <2> HIDE DEF g
  <2>2. /\ Started(Seated(g, Player(h))).fen = g.fen
        /\ Started(Seated(g, Player(h))) # NoRow
    BY <2>1 DEF Started, Seated, IsGame, NoRow
  <2> QED BY <1>2, <2>1, <2>2 DEF g
<1>4. CASE ResumeGame(h) \/ DisconnectPlayer(h)
  BY <1>2, <1>4 DEF ResumeGame, DisconnectPlayer, Decides, IsSeated, Found
<1>5. CASE ResignGame(h)
  <2>1. /\ Found(h) /\ at[h] = "decide" /\ request[h].kind = "resign" /\ IsGame(g)
        /\ SaveSession(h, Resigned(g, Seat(h)))
    BY <1>5, FoundGood DEF ResignGame, Decides, MayResign, IsSeated, GoodGame
  <2> HIDE DEF g
  <2>2. Resigned(g, Seat(h)).fen = g.fen /\ Resigned(g, Seat(h)) # NoRow
    BY <2>1 DEF Resigned, IsGame, NoRow
  <2> QED BY <1>2, <2>1, <2>2 DEF g
<1>6. CASE AskRematch(h)
  <2>1. /\ Found(h) /\ at[h] = "decide" /\ request[h].kind = "rematch" /\ IsGame(g)
        /\ SaveSession(h, RematchAsked(g, Seat(h)))
    BY <1>6, FoundGood DEF AskRematch, Asked, Decides, MayAskRematch, IsSeated, GoodGame
  <2> HIDE DEF g
  <2>2. /\ RematchAsked(g, Seat(h)).fen = g.fen
        /\ RematchAsked(g, Seat(h)) # NoRow
    BY <2>1 DEF RematchAsked, IsGame, NoRow, SessionStates
  <2> QED BY <1>2, <2>1, <2>2 DEF g
<1> QED BY <1>1, <1>3, <1>4, <1>5, <1>6

LEMMA AcceptRematchRInv ==
  ASSUME IInv, RInv, MovesApart, NEW h \in Handlers, AcceptRematch(h)
  PROVE  RInv'
<1>1. /\ at[h] = "decide" /\ request[h].kind = "rematch" /\ Found(h)
      /\ Seat(h) \in Colours /\ copy[h].game.state = "FINISHED"
      /\ BothPlayersAccepted(RematchAsked(copy[h].game, Seat(h)))
  BY SeatType DEF AcceptRematch, Decides, MayAskRematch, IsSeated, Asked
<1>2. copy[h].game = row /\ ~ IsFree(h) /\ row # NoRow
  BY <1>1, CopyHasPosition
<1>3. /\ StepOf(h) /\ at'[h] = "rematchSave" /\ request' = request
      /\ copy'[h] = Session(RematchStarted(row), NoMoves)
      /\ moveRows' = NoMoves /\ UNCHANGED <<row, abandoned>>
  BY <1>2 DEF AcceptRematch, StepOf, IInv, RequestsGood, CopiesGood
<1>4. copy'[h].game = RematchStarted(row) /\ RematchStarted(row).fen = NoMoves
  <2>1. IsGame(row)
    BY <1>2 DEF IInv, DatabaseGood, GoodRow, Storable, GoodGame
  <2> QED BY <1>3, <2>1 DEF Session, RematchStarted, IsGame
<1>5. \A i \in Handlers : i # h => at'[i] = "idle" /\ RequestFits(i)'
  BY <1>1, <1>3, OthersStayFree
<1>6. RequestFits(h)'
  <2>1. RematchPending(h)'
    BY <1>1, <1>2, <1>3, <1>4 DEF RematchPending
  <2> QED BY <1>3, <2>1 DEF RequestFits, CopyFresh, MovePending, MoveAnswered
<1>7. OneMovePending'
  BY <1>3, <1>5 DEF OneMovePending
<1>8. MovesReplay'
  BY <1>2, <1>3, <1>4, <1>5 DEF MovesReplay, Saving
<1> QED BY <1>5, <1>6, <1>7, <1>8 DEF RInv

LEMMA SaveRematchRInv ==
  ASSUME IInv, RInv, MovesApart, NEW h \in Handlers, SaveRematch(h)
  PROVE  RInv'
<1> DEFINE g == copy[h].game
<1>1. /\ at[h] = "rematchSave" /\ request[h].kind = "rematch" /\ ~ IsFree(h)
      /\ row # NoRow /\ g = RematchStarted(row) /\ SaveSession(h, g)
      /\ abandoned = 0 => moveRows = g.fen
  BY DEF SaveRematch, RInv, RequestFits, RematchPending, IsFree, MovesReplay, Saving
<1>2. g # NoRow
  BY <1>1 DEF IInv, SavesGood
<1> QED BY <1>1, <1>2, StoreRInv

\* What the game after a move has of the game before it.
LEMMA AfterMove ==
  ASSUME NEW g, GoodGame(g), CanSubmitMove(g), NEW m \in Moves,
         NEW after, after = Completed(Moved(g, m), m)
  PROVE  /\ g.revision \in Nat /\ DOMAIN g.fen = 1 .. g.revision
         /\ after # NoRow /\ after.revision = g.revision + 1
         /\ after.fen = WithMove(g.fen, g.revision + 1, m)
<1>1. IsGame(g) /\ g.revision \in Nat /\ DOMAIN g.fen = 1 .. g.revision
  BY DEF GoodGame, Coherent, PlayedWithinTheGame, IsGame
<1>2. /\ Moved(g, m).revision = g.revision + 1
      /\ Moved(g, m).fen = WithMove(g.fen, g.revision + 1, m)
      /\ IsGame(Moved(g, m))
  BY <1>1, MovedPosition DEF Moved, IsGame
<1>3. after.revision = Moved(g, m).revision /\ after.fen = Moved(g, m).fen
  BY <1>2, OutcomeAssumption DEF Completed, IsGame
<1>4. IsGame(after)
  BY CompletedGood DEF GoodGame
<1> QED BY <1>1, <1>2, <1>3, <1>4, GameIsNoRow

\* A request that inserts its move has read the row.
LEMMA MoverHasRow ==
  ASSUME IInv, RInv, NEW h \in Handlers, SubmitMove(h)
  PROVE  /\ copy[h].game = row /\ row # NoRow /\ GoodGame(row) /\ CanSubmitMove(row)
         /\ row.revision + 1 \notin DOMAIN moveRows /\ row.revision < MaxRevision
         /\ ~ IsFree(h) /\ at[h] = "decide"
         /\ request[h].kind = "move" /\ request[h].move \in Moves
<1>1. /\ at[h] = "decide" /\ request[h].kind = "move" /\ Found(h)
      /\ CanSubmitMove(copy[h].game)
      /\ request[h].expectedRevision = copy[h].game.revision
      /\ copy[h].game.revision + 1 \notin DOMAIN moveRows
  BY DEF SubmitMove, Decides, MayMove, RevisionTaken
<1>2. copy[h].game = row
  BY <1>1 DEF RInv, RequestFits, CopyFresh
<1>3. row # NoRow /\ GoodGame(row)
  BY <1>1, <1>2, FoundGood DEF Found
<1>4. request[h].expectedRevision \in 0 .. MaxRevision - 1
  <2>1. request[h] \in Requests
    BY <1>1 DEF IInv, RequestsGood, NoRequest, Request
  <2> QED BY <1>1, <2>1 DEF Requests, Request, MoveRequest, Kinds
<1>5. row.revision < MaxRevision
  BY <1>1, <1>2, <1>4, ServiceBoundsAssumption
<1>6. request[h].move \in Moves /\ ~ IsFree(h)
  BY <1>1, RequestType DEF IInv, IsFree
<1> QED BY <1>1, <1>2, <1>3, <1>5, <1>6

LEMMA SubmitMoveRInv ==
  ASSUME IInv, RInv, MovesApart, NEW h \in Handlers, SubmitMove(h)
  PROVE  RInv'
<1> DEFINE m == request[h].move
           after == Completed(Moved(row, m), m)
           next == row.revision + 1
<1>1. /\ copy[h].game = row /\ row # NoRow /\ GoodGame(row) /\ CanSubmitMove(row)
      /\ next \notin DOMAIN moveRows /\ row.revision < MaxRevision
      /\ ~ IsFree(h) /\ at[h] = "decide" /\ request[h].kind = "move" /\ m \in Moves
  BY MoverHasRow
<1>2. /\ row.revision \in Nat /\ after.revision = next
      /\ after.fen = WithMove(row.fen, next, m)
  BY <1>1, AfterMove
<1>3. /\ StepOf(h) /\ at'[h] = "moveSave" /\ request' = request
      /\ copy'[h].game = after /\ moveRows' = WithMove(moveRows, after.revision, m)
      /\ UNCHANGED <<row, abandoned>>
  <2>1. /\ copy' = [copy EXCEPT ![h] =
                      Session(after, WithMove(copy[h].moveHistory, after.revision, m))]
        /\ moveRows' = WithMove(moveRows, after.revision, m)
        /\ at' = [at EXCEPT ![h] = "moveSave"]
        /\ UNCHANGED <<row, request, abandoned>>
    BY <1>1 DEF SubmitMove
  <2> HIDE DEF after, m
  <2>2. copy'[h].game = after /\ \A i \in Handlers : i # h => copy'[i] = copy[i]
    BY <2>1 DEF IInv, CopiesGood, Session
  <2> QED BY <1>1, <2>1, <2>2 DEF StepOf, IInv, RequestsGood
<1> HIDE DEF after, m
<1>4. /\ DOMAIN moveRows' = DOMAIN moveRows \cup {next}
      /\ moveRows'[next] = m
      /\ \A r \in DOMAIN moveRows : moveRows'[r] = moveRows[r]
  <2>1. moveRows' = WithMove(moveRows, next, m)
    BY <1>2, <1>3
  <2>2. next \notin DOMAIN moveRows
    BY <1>1
  <2> HIDE DEF next
  <2> QED BY <2>1, <2>2 DEF WithMove
<1>5. ASSUME NEW i \in Handlers, i # h, ~ IsFree(i)
      PROVE  ~ Saving(i) /\ request[i].kind = "move"
  <2>1. request[i].kind = "move"
    BY <1>1, <1>5, OthersKind
  <2>2. RequestFits(i)
    BY DEF RInv
  <2> QED BY <1>1, <2>1, <2>2 DEF RequestFits, MovePending, RematchPending, Saving
<1>6. ASSUME NEW i \in Handlers, i # h PROVE ~ Saving(i) /\ at'[i] = at[i]
  BY <1>3, <1>5, <1>6 DEF StepOf, Saving, IsFree
<1>7. ASSUME NEW i \in Handlers, i # h PROVE RequestFits(i)'
  <2>1. /\ at'[i] = at[i] /\ request'[i] = request[i] /\ copy'[i] = copy[i]
        /\ ~ Saving(i) /\ RequestFits(i)
    BY <1>3, <1>6, <1>7 DEF StepOf, RInv
  <2>2. CopyFresh(i)'
    BY <1>3, <1>4, <2>1 DEF RequestFits, CopyFresh, Found
  <2>3. MoveAnswered(i)'
    BY <1>3, <1>4, <2>1 DEF RequestFits, MoveAnswered, Found, Player
  <2> QED BY <2>1, <2>2, <2>3 DEF RequestFits, MovePending, RematchPending, Saving
<1>8. RequestFits(h)'
  <2>1. MovePending(h)'
    BY <1>1, <1>3, <1>4 DEF MovePending, m, after
  <2> QED BY <1>3, <2>1 DEF RequestFits, CopyFresh, RematchPending, MoveAnswered
<1>9. OneMovePending'
  BY <1>3, <1>6 DEF OneMovePending, Saving
<1>10. MovesReplay'
  <2>1. \A i \in Handlers : ~ Saving(i)
    BY <1>1, <1>6 DEF Saving
  <2>2. abandoned = 0 => moveRows' = after.fen
    BY <1>1, <1>2, <1>3, <2>1 DEF RInv, MovesReplay
  <2>3. \A i \in Handlers : Saving(i)' => i = h
    BY <1>6 DEF Saving
  <2>4. Saving(h)'
    BY <1>3 DEF Saving
  <2> QED BY <1>1, <1>3, <2>2, <2>3, <2>4 DEF MovesReplay
<1> QED BY <1>7, <1>8, <1>9, <1>10 DEF RInv

LEMMA SaveMoveRInv ==
  ASSUME IInv, RInv, MovesApart, NEW h \in Handlers, SaveMove(h)
  PROVE  RInv'
<1> DEFINE m == request[h].move
           after == copy[h].game
           next == row.revision + 1
<1>1. /\ at[h] = "moveSave" /\ ~ IsFree(h) /\ request[h].kind = "move" /\ m \in Moves
      /\ row # NoRow /\ CanSubmitMove(row) /\ after = Completed(Moved(row, m), m)
      /\ next \in DOMAIN moveRows /\ moveRows[next] = m
      /\ abandoned = 0 => moveRows = after.fen
  BY DEF SaveMove, RInv, RequestFits, MovePending, MovesReplay, Saving, IsFree
<1>2. /\ row.revision \in Nat /\ DOMAIN row.fen = 1 .. row.revision
      /\ after # NoRow /\ after.revision = next /\ after.fen = WithMove(row.fen, next, m)
  BY <1>1, AfterMove DEF IInv, DatabaseGood, GoodRow, Storable
<1>3. /\ StepOf(h) /\ at'[h] = "answer" /\ request' = request /\ copy'[h].game = after
      /\ row' = after /\ UNCHANGED <<moveRows, abandoned>>
  BY <1>1, SaveSessionStep DEF SaveMove, SaveSession
<1> HIDE DEF after, m
<1>4. /\ DOMAIN after.fen = (1 .. row.revision) \cup {next} /\ after.fen[next] = m
      /\ \A r \in 1 .. row.revision : after.fen[r] = row.fen[r]
  BY <1>2 DEF WithMove
<1>5. ASSUME NEW i \in Handlers, i # h, ~ IsFree(i)
      PROVE  ~ Saving(i) /\ request[i].kind = "move" /\ RequestFits(i)
  <2>1. request[i].kind = "move" /\ RequestFits(i) /\ at[i] # "moveSave"
    BY <1>1, <1>5, OthersKind DEF RInv, OneMovePending
  <2> QED BY <2>1 DEF RequestFits, RematchPending, Saving
<1>6. ASSUME NEW i \in Handlers, i # h PROVE ~ Saving(i) /\ at'[i] = at[i]
  BY <1>3, <1>5, <1>6 DEF StepOf, Saving, IsFree
<1>7. ASSUME NEW i \in Handlers, i # h PROVE RequestFits(i)'
  <2>1. at'[i] = at[i] /\ request'[i] = request[i] /\ copy'[i] = copy[i]
    BY <1>3, <1>7 DEF StepOf
  <2>2. CASE IsFree(i)
    BY <2>1, <2>2 DEF IsFree, RequestFits, CopyFresh, MovePending, RematchPending,
                      MoveAnswered
  <2>3. CASE ~ IsFree(i)
    <3>1. ~ Saving(i) /\ request[i].kind = "move" /\ RequestFits(i)
      BY <1>5, <1>7, <2>3
    <3>2. CopyFresh(i)'
      BY <1>1, <1>3, <2>1, <3>1 DEF RequestFits, CopyFresh, Found
    <3>3. MoveAnswered(i)'
      BY <1>2, <1>3, <1>4, <2>1, <3>1 DEF RequestFits, MoveAnswered, Found
    <3> QED BY <2>1, <3>1, <3>2, <3>3
            DEF RequestFits, MovePending, RematchPending, Saving
  <2> QED BY <2>2, <2>3
<1>8. RequestFits(h)'
  <2>1. MoveAnswered(h)'
    BY <1>1, <1>2, <1>3, <1>4 DEF MoveAnswered, Found, m
  <2> QED BY <1>1, <1>3, <2>1 DEF RequestFits, CopyFresh, MovePending, RematchPending
<1>9. OneMovePending'
  BY <1>3, <1>6 DEF OneMovePending, Saving
<1>10. MovesReplay'
  BY <1>1, <1>2, <1>3, <1>6 DEF MovesReplay, Saving
<1> QED BY <1>7, <1>8, <1>9, <1>10 DEF RInv

LEMMA NextRInv == IInv /\ RInv /\ MovesApart /\ [Next]_vars => RInv'
<1> SUFFICES ASSUME IInv, RInv, MovesApart, [Next]_vars PROVE RInv'
  OBVIOUS
<1>1. ASSUME NEW h \in Handlers,
             (\E r \in Requests : Receive(h, r)) \/ Serve(h) \/ Abandon(h)
      PROVE  RInv'
  BY <1>1, ReceiveRInv, ReadRInv, StoreStepRInv, AcceptRematchRInv, SaveRematchRInv,
     SubmitMoveRInv, SaveMoveRInv, EndRInv DEF Serve
<1>2. CASE UNCHANGED vars
  <2>1. /\ row' = row /\ moveRows' = moveRows /\ request' = request /\ at' = at
        /\ copy' = copy /\ abandoned' = abandoned
    BY <1>2 DEF vars, database, handlers
  <2> QED BY <2>1 DEF RInv, RequestFits, CopyFresh, Found, MovePending, RematchPending,
                      MoveAnswered, OneMovePending, MovesReplay, Saving
<1> QED BY <1>1, <1>2 DEF Next

LEMMA RInvHolds == Spec /\ []MovesApart => []RInv
BY NextRInv, InitRInv, IInvHolds, PTL DEF Spec

-----------------------------------------------------------------------------
(* What holds as long as nothing overlaps a move but moves, and nothing a   *)
(* rematch.  Both are false without: a resume beside a move writes back the *)
(* old row (session/index.js:214).                                         *)

\* As long as MovesApart holds, a move about to be answered MOVE_ACCEPTED is part
\* of the stored game, however many moves race for its revision
\* (game/index.js:252-274).
THEOREM AcceptedMoveAlwaysStored == Spec /\ []MovesApart => []AcceptedMoveStored
<1>1. RInv => AcceptedMoveStored
  BY DEF RInv, RequestFits, MoveAnswered, AcceptedMoveStored
<1> QED BY <1>1, RInvHolds, PTL

\* As long as MovesApart holds and no request has failed, the stored moves replay
\* to the stored position whenever the services are quiet (game/index.js:203),
\* however creates, joins, resumes, resignations and disconnects overlap.
THEOREM AlwaysPlayableWhenQuiet == Spec /\ []MovesApart => []PlayableWhenQuiet
<1>1. RInv => PlayableWhenQuiet
  BY DEF RInv, MovesReplay, PlayableWhenQuiet, Quiet, IsFree, Saving
<1> QED BY <1>1, RInvHolds, PTL

-----------------------------------------------------------------------------
(* When only moves overlap. *)

OnlyMovesOverlap ==
  \A h, i \in Handlers : h # i /\ ~ IsFree(h) /\ ~ IsFree(i) => request[h].kind = "move"

\* What a request other than a move has read is the row.
CopiesFresh ==
  \A h \in Handlers :
    at[h] \in {"readMoves", "decide"} /\ Found(h) /\ request[h].kind # "move" =>
      copy[h].game = row

LEMMA MovesAreApart == OnlyMovesOverlap => MovesApart
BY DEF OnlyMovesOverlap, MovesApart

LEMMA ServeStep ==
  ASSUME IInv, NEW h \in Handlers, Serve(h) \/ Abandon(h)
  PROVE  /\ StepOf(h)
         /\ ReadGame(h) \/ ReadMoves(h) \/ at'[h] \notin {"readMoves", "decide"}
<1>1. ~ IsFree(h)
  BY DEF Serve, Abandon, ReadGame, ReadMoves, CreateGame, JoinGame, ResumeGame,
         DisconnectPlayer, ResignGame, AskRematch, AcceptRematch, SaveRematch,
         SubmitMove, SaveMove, Answer, Refuse, FailInsert, Granted, Decides, IsFree
<1>2. CASE \E g : SaveSession(h, g)
  BY <1>1, <1>2, SaveSessionStep
<1>3. CASE EndRequest(h)
  BY <1>1, <1>3, EndRequestStep
<1>4. CASE ReadGame(h) \/ ReadMoves(h)
  BY <1>1, <1>4 DEF ReadGame, ReadMoves, StepOf, IInv, RequestsGood, CopiesGood
<1>5. CASE AcceptRematch(h) \/ SubmitMove(h)
  BY <1>1, <1>5 DEF AcceptRematch, SubmitMove, StepOf, IInv, RequestsGood, CopiesGood
<1> QED BY <1>2, <1>3, <1>4, <1>5 DEF Serve, Abandon, CreateGame, InsertSession, JoinGame,
           ResumeGame, DisconnectPlayer, ResignGame, AskRematch, SaveRematch, SaveMove,
           Answer, Refuse, FailInsert

LEMMA OverlapKept ==
  ASSUME Overlapping \subseteq {"move"}, IInv, OnlyMovesOverlap, [Next]_vars
  PROVE  OnlyMovesOverlap'
<1>1. ASSUME NEW h \in Handlers, NEW r \in Requests, Receive(h, r)
      PROVE  OnlyMovesOverlap'
  <2>1. /\ \A i \in Handlers : i # h => at'[i] = at[i] /\ request'[i] = request[i]
        /\ request'[h] = r
    BY <1>1 DEF IInv, RequestsGood, Receive
  <2>2. \A i \in Handlers :
          i # h /\ ~ IsFree(i) => r.kind = "move" /\ request[i].kind = "move"
    BY <1>1 DEF Receive, MayStart
  <2> QED BY <2>1, <2>2 DEF OnlyMovesOverlap, IsFree
<1>2. ASSUME NEW h \in Handlers, Serve(h) \/ Abandon(h)
      PROVE  OnlyMovesOverlap'
  <2>1. StepOf(h)
    BY <1>2, ServeStep
  <2> QED BY <2>1 DEF OnlyMovesOverlap, StepOf, IsFree
<1>3. CASE UNCHANGED vars
  BY <1>3 DEF vars, handlers, OnlyMovesOverlap, IsFree
<1> QED BY <1>1, <1>2, <1>3 DEF Next

LEMMA FreshKept ==
  ASSUME IInv, OnlyMovesOverlap, CopiesFresh, [Next]_vars
  PROVE  CopiesFresh'
<1>1. ASSUME NEW h \in Handlers, NEW r \in Requests, Receive(h, r)
      PROVE  CopiesFresh'
  <2>1. /\ \A i \in Handlers : i # h => at'[i] = at[i] /\ request'[i] = request[i]
        /\ at'[h] = "readGame" /\ row' = row /\ copy' = copy
    BY <1>1 DEF IInv, RequestsGood, Receive, database
  <2> QED BY <2>1 DEF CopiesFresh, Found
<1>2. ASSUME NEW h \in Handlers, Serve(h) \/ Abandon(h)
      PROVE  CopiesFresh'
  <2> SUFFICES ASSUME NEW i \in Handlers, at'[i] \in {"readMoves", "decide"},
                      copy'[i].game # NoRow, request'[i].kind # "move"
               PROVE  copy'[i].game = row'
    BY DEF CopiesFresh, Found
  <2>1. StepOf(h)
    BY <1>2, ServeStep
  <2>2. i = h
    BY <2>1 DEF StepOf, OnlyMovesOverlap, IsFree
  <2>3. ReadGame(h) \/ ReadMoves(h)
    BY <1>2, <2>2, ServeStep
  <2>4. /\ row' = row /\ request' = request
        /\ \/ copy'[h].game = row
           \/ copy'[h].game = copy[h].game /\ at[h] = "readMoves"
    BY <2>3 DEF IInv, CopiesGood, CopyGood, Session, ReadGame, ReadMoves, database
  <2> QED BY <2>2, <2>4 DEF CopiesFresh, Found
<1>3. CASE UNCHANGED vars
  <2>1. row' = row /\ at' = at /\ request' = request /\ copy' = copy
    BY <1>3 DEF vars, database, handlers
  <2> QED BY <2>1 DEF CopiesFresh, Found
<1> QED BY <1>1, <1>2, <1>3 DEF Next

LEMMA CopyIsRow ==
  ASSUME IInv, CopiesFresh, NEW h \in Handlers, at[h] = "decide", Found(h),
         request[h].kind # "move"
  PROVE  copy[h].game = row /\ row # NoRow
BY DEF CopiesFresh, Found

-----------------------------------------------------------------------------
(* Every step of the services is one of the chess game. *)

LEMMA StoredRow == ASSUME row # NoRow PROVE StoredGame = AsChessGame(row)
BY DEF StoredGame

LEMMA SavedGame == Abstract!Save
BY DEF Abstract!Save

LEMMA InitAbstract == Init => Abstract!Init
BY DEF Init, StoredGame, Abstract!Init

\* A request that stores game g over the row it has read.
Stores(g) == row # NoRow /\ row' = g /\ g # NoRow /\ GoodGame(row) /\ GoodGame(g)

LEMMA StoresView ==
  ASSUME NEW g, Stores(g)
  PROVE  StoredGame = AsChessGame(row) /\ StoredGame' = AsChessGame(g)
BY DEF Stores, StoredGame

LEMMA JoinedJoins ==
  ASSUME NEW p \in Players, CanJoinSession(row), Stores(Started(Seated(row, p)))
  PROVE  Abstract!Join(p)
<1> DEFINE g == Started(Seated(row, p))
<1>1. StoredGame = AsChessGame(row) /\ StoredGame' = AsChessGame(g)
  BY StoresView
<1>2. /\ AsChessGame(row).stage = "open"
      /\ AsChessGame(g) = [AsChessGame(row) EXCEPT !.stage = "playing", !.guest = p]
  BY SeatedStartedView DEF Stores
<1> HIDE DEF g
<1> QED BY <1>1, <1>2 DEF Abstract!Join

LEMMA MovedPlays ==
  ASSUME NEW m \in Moves, CanSubmitMove(row), row.revision < MaxRevision,
         Stores(Completed(Moved(row, m), m))
  PROVE  Abstract!Play(m)
<1> DEFINE g == Completed(Moved(row, m), m)
           mover == Abstract!SideToMove(row.fen)
<1>1. StoredGame = AsChessGame(row) /\ StoredGame' = AsChessGame(g)
  BY StoresView
<1>2. GoodGame(row) /\ GoodGame(g) /\ g = Completed(Moved(row, m), m)
  BY DEF Stores
<1> HIDE DEF g
<1>3. /\ AsChessGame(row).stage = "playing"
      /\ AsChessGame(row).moves = row.fen /\ Len(row.fen) = row.revision
      /\ AsChessGame(g) =
           [AsChessGame(row) EXCEPT !.moves = Append(row.fen, m), !.stage = StageOf(g),
                                    !.winner = WinnerOf(g)]
  BY <1>2, MovedView
<1>4. TurnAfter(row.revision) = mover
  BY <1>3 DEF TurnAfter, Abstract!SideToMove
<1> HIDE DEF mover
<1>5. StageOf(g) = Abstract!StageAfter(m) /\ WinnerOf(g) = Abstract!WinnerAfter(m, mover)
  <2>1. CASE Outcome[m] = "none"
    <3>1. StageOf(g) = "playing" /\ WinnerOf(g) = "none"
      BY <1>2, <2>1, MovedResult
    <3>2. Abstract!StageAfter(m) = "playing"
      BY <2>1 DEF Abstract!StageAfter
    <3>3. Abstract!WinnerAfter(m, mover) = "none"
      BY <2>1 DEF Abstract!WinnerAfter
    <3> QED BY <3>1, <3>2, <3>3
  <2>2. CASE Outcome[m] = "draw"
    <3>1. StageOf(g) = "over" /\ WinnerOf(g) = "nobody"
      BY <1>2, <2>2, MovedResult
    <3>2. Abstract!StageAfter(m) = "over"
      BY <2>2 DEF Abstract!StageAfter
    <3>3. Abstract!WinnerAfter(m, mover) = "nobody"
      BY <2>2 DEF Abstract!WinnerAfter, Abstract!Nobody
    <3> QED BY <3>1, <3>2, <3>3
  <2>3. CASE Outcome[m] = "checkmate"
    <3>1. StageOf(g) = "over" /\ WinnerOf(g) = TurnAfter(row.revision)
      BY <1>2, <2>3, MovedResult
    <3>2. Abstract!StageAfter(m) = "over"
      BY <2>3 DEF Abstract!StageAfter
    <3>3. Abstract!WinnerAfter(m, mover) = mover
      BY <2>3 DEF Abstract!WinnerAfter
    <3> QED BY <1>4, <3>1, <3>2, <3>3
  <2>4. Outcome[m] \in {"none", "draw", "checkmate"}
    BY OutcomeAssumption
  <2> QED BY <2>1, <2>2, <2>3, <2>4
<1>6. AsChessGame(g) =
        [AsChessGame(row) EXCEPT !.moves = Append(row.fen, m),
                                 !.stage = Abstract!StageAfter(m),
                                 !.winner = Abstract!WinnerAfter(m, mover)]
  BY <1>3, <1>5
<1> QED BY <1>1, <1>3, <1>6 DEF Abstract!Play, mover

LEMMA ResignedResigns ==
  ASSUME NEW c \in Colours, row.state = "IN_PROGRESS", Stores(Resigned(row, c))
  PROVE  Abstract!Resign(c)
<1> DEFINE g == Resigned(row, c)
<1>1. StoredGame = AsChessGame(row) /\ StoredGame' = AsChessGame(g)
  BY StoresView
<1>2. /\ AsChessGame(row).stage = "playing"
      /\ AsChessGame(g) =
           [AsChessGame(row) EXCEPT !.stage = "over", !.winner = Opponent(c)]
  BY ResignedView DEF Stores
<1>3. Abstract!Other(c) = Opponent(c)
  BY DEF Abstract!Other, Opponent
<1> HIDE DEF g
<1> QED BY <1>1, <1>2, <1>3 DEF Abstract!Resign

LEMMA RematchAskedAsks ==
  ASSUME NEW c \in Colours, row.state = "FINISHED", Stores(RematchAsked(row, c)),
         ~ BothPlayersAccepted(RematchAsked(row, c))
  PROVE  Abstract!AskRematch(c)
<1> DEFINE g == RematchAsked(row, c)
<1>1. StoredGame = AsChessGame(row) /\ StoredGame' = AsChessGame(g)
  BY StoresView
<1>2. /\ AsChessGame(row).stage = "over"
      /\ AsChessGame(row).wantRematch \cup {c} # Colours
      /\ AsChessGame(g) =
           [AsChessGame(row) EXCEPT
              !.wantRematch = AsChessGame(row).wantRematch \cup {c}]
  BY RematchAskedView DEF Stores
<1>3. Abstract!Sides = Colours
  BY DEF Abstract!Sides, Colours
<1> HIDE DEF g
<1> QED BY <1>1, <1>2, <1>3 DEF Abstract!AskRematch

LEMMA RematchStartedAgrees ==
  ASSUME NEW c \in Colours, row.state = "FINISHED", Stores(RematchStarted(row)),
         BothPlayersAccepted(RematchAsked(row, c))
  PROVE  Abstract!AgreeRematch(c)
<1> DEFINE g == RematchStarted(row)
<1>1. StoredGame = AsChessGame(row) /\ StoredGame' = AsChessGame(g)
  BY StoresView
<1>2. /\ AsChessGame(row).stage = "over"
      /\ AsChessGame(row).wantRematch \cup {c} = Colours
      /\ AsChessGame(g) =
           [AsChessGame(row) EXCEPT !.stage = "playing", !.moves = << >>,
                                    !.winner = "none", !.wantRematch = {}]
  BY RematchStartedView DEF Stores
<1>3. Abstract!Sides = Colours
  BY DEF Abstract!Sides, Colours
<1> HIDE DEF g
<1> QED BY <1>1, <1>2, <1>3 DEF Abstract!AgreeRematch

LEMMA ServeRefines ==
  ASSUME IInv, RInv, CopiesFresh, IInv', NEW h \in Handlers, Serve(h)
  PROVE  Abstract!Step \/ UNCHANGED StoredGame
<1>0. ASSUME row' = row PROVE UNCHANGED StoredGame
  BY <1>0 DEF StoredGame
<1>1. ASSUME NEW g, Found(h), at[h] = "decide", request[h].kind # "move",
             SaveSession(h, g)
      PROVE  copy[h].game = row /\ (g # NoRow => Stores(g))
  <2>1. copy[h].game = row /\ row # NoRow /\ row' = g
    BY <1>1, CopyIsRow DEF Found, SaveSession
  <2> QED BY <2>1 DEF Stores, IInv, DatabaseGood, GoodRow, Storable
<1>2. CASE CreateGame(h)
  <2>1. row = NoRow /\ row' = CreatedBy(Player(h))
    BY <1>2 DEF CreateGame, InsertSession, SaveSession
  <2>2. CreatedBy(Player(h)) # NoRow
    BY DEF CreatedBy, NoRow
  <2> QED BY <2>1, <2>2, CreatedView DEF StoredGame
<1>3. CASE JoinGame(h)
  <2>1. /\ Found(h) /\ at[h] = "decide" /\ request[h].kind = "join"
        /\ CanJoinSession(copy[h].game) /\ Player(h) \in Players
        /\ SaveSession(h, Started(Seated(copy[h].game, Player(h))))
    BY <1>3, RequestType DEF JoinGame, Decides, MayJoin, IInv
  <2>2. copy[h].game = row /\ IsGame(row)
    BY <2>1, CopyIsRow, FoundGood DEF GoodGame
  <2>3. Started(Seated(row, Player(h))) # NoRow
    BY <2>2 DEF Started, Seated, IsGame, NoRow
  <2>4. Abstract!Join(Player(h))
    BY <1>1, <2>1, <2>2, <2>3, JoinedJoins
  <2> QED BY <2>1, <2>4, SavedGame DEF Abstract!Step
<1>4. CASE ResumeGame(h) \/ DisconnectPlayer(h)
  <2>1. /\ Found(h) /\ at[h] = "decide" /\ request[h].kind # "move"
        /\ SaveSession(h, copy[h].game)
    BY <1>4 DEF ResumeGame, DisconnectPlayer, Decides, IsSeated
  <2> QED BY <1>0, <1>1, <2>1 DEF SaveSession
<1>5. CASE ResignGame(h)
  <2>1. /\ Found(h) /\ at[h] = "decide" /\ request[h].kind = "resign"
        /\ copy[h].game.state = "IN_PROGRESS" /\ Seat(h) \in Colours
        /\ SaveSession(h, Resigned(copy[h].game, Seat(h)))
    BY <1>5, SeatType DEF ResignGame, Decides, MayResign, IsSeated
  <2>2. copy[h].game = row /\ IsGame(row)
    BY <2>1, CopyIsRow, FoundGood DEF GoodGame
  <2>3. Resigned(row, Seat(h)) # NoRow
    BY <2>2 DEF Resigned, IsGame, NoRow
  <2>4. Abstract!Resign(Seat(h))
    BY <1>1, <2>1, <2>2, <2>3, ResignedResigns
  <2> QED BY <2>1, <2>4, SavedGame DEF Abstract!Step, Abstract!Sides, Colours
<1>6. CASE AskRematch(h)
  <2>1. /\ Found(h) /\ at[h] = "decide" /\ request[h].kind = "rematch"
        /\ copy[h].game.state = "FINISHED" /\ Seat(h) \in Colours
        /\ ~ BothPlayersAccepted(RematchAsked(copy[h].game, Seat(h)))
        /\ SaveSession(h, RematchAsked(copy[h].game, Seat(h)))
    BY <1>6, SeatType DEF AskRematch, Decides, MayAskRematch, IsSeated, Asked
  <2>2. copy[h].game = row /\ IsGame(row)
    BY <2>1, CopyIsRow, FoundGood DEF GoodGame
  <2>3. RematchAsked(row, Seat(h)) # NoRow
    BY <2>2 DEF RematchAsked, IsGame, NoRow, SessionStates
  <2>4. Abstract!AskRematch(Seat(h))
    BY <1>1, <2>1, <2>2, <2>3, RematchAskedAsks
  <2> QED BY <2>1, <2>4, SavedGame DEF Abstract!Step, Abstract!Sides, Colours
<1>7. CASE SaveMove(h)
  <2> DEFINE m == request[h].move
  <2>1. /\ m \in Moves /\ row # NoRow /\ CanSubmitMove(row) /\ row.revision < MaxRevision
        /\ row' = Completed(Moved(row, m), m)
    BY <1>7 DEF SaveMove, SaveSession, RInv, RequestFits, MovePending
  <2> HIDE DEF m
  <2>2. GoodGame(row)
    BY <2>1 DEF IInv, DatabaseGood, GoodRow, Storable
  <2>3. Completed(Moved(row, m), m) # NoRow /\ GoodGame(Completed(Moved(row, m), m))
    BY <2>1, <2>2, CompletedGood, GameIsNoRow DEF GoodGame
  <2>4. Abstract!Play(m)
    BY <2>1, <2>2, <2>3, MovedPlays DEF Stores
  <2> QED BY <2>1, <2>4, SavedGame DEF Abstract!Step
<1>8. CASE SaveRematch(h)
  <2>1. /\ row # NoRow /\ row.state = "FINISHED" /\ row' = RematchStarted(row)
        /\ \E c \in Colours : BothPlayersAccepted(RematchAsked(row, c))
    BY <1>8 DEF SaveRematch, SaveSession, RInv, RequestFits, RematchPending
  <2>2. PICK c \in Colours : BothPlayersAccepted(RematchAsked(row, c))
    BY <2>1
  <2>3. GoodGame(row) /\ RematchStarted(row) # NoRow
    BY <2>1 DEF IInv, DatabaseGood, GoodRow, Storable, GoodGame, IsGame, RematchStarted,
                NoRow
  <2>4. Abstract!AgreeRematch(c)
    BY <2>1, <2>2, <2>3, RematchStartedGood, RematchStartedAgrees DEF Stores
  <2> QED BY <2>4, SavedGame DEF Abstract!Step, Abstract!Sides, Colours
<1>9. CASE \/ ReadGame(h) \/ ReadMoves(h) \/ AcceptRematch(h) \/ SubmitMove(h)
           \/ Answer(h) \/ Refuse(h) \/ FailInsert(h)
  BY <1>0, <1>9 DEF ReadGame, ReadMoves, AcceptRematch, SubmitMove, Answer, Refuse,
                    FailInsert, database
<1> QED BY <1>2, <1>3, <1>4, <1>5, <1>6, <1>7, <1>8, <1>9 DEF Serve

\* The row goes through the states of one chess game: no two racing moves are
\* both stored, no result belongs to another position, and a failure leaves
\* the game as it was (session/index.js, game/index.js).
THEOREM ServicesImplementChessGame ==
  ASSUME Overlapping \subseteq {"move"}
  PROVE  Spec => ImplementsChessGame
<1>1. IInv /\ RInv /\ CopiesFresh /\ IInv' /\ [Next]_vars =>
        [Abstract!Next]_<<StoredGame, {StoredGame}>>
  <2> SUFFICES ASSUME IInv, RInv, CopiesFresh, IInv', [Next]_vars
               PROVE  Abstract!Step \/ UNCHANGED StoredGame
    BY DEF Abstract!Next
  <2>1. ASSUME NEW h \in Handlers, Serve(h)
        PROVE  Abstract!Step \/ UNCHANGED StoredGame
    BY <2>1, ServeRefines
  <2>2. CASE \E h \in Handlers : (\E r \in Requests : Receive(h, r)) \/ Abandon(h)
    BY <2>2 DEF Receive, Abandon, database, StoredGame
  <2>3. CASE UNCHANGED vars
    BY <2>3 DEF vars, database, StoredGame
  <2> QED BY <2>1, <2>2, <2>3 DEF Next
<1>2. Init => OnlyMovesOverlap /\ CopiesFresh
  BY DEF Init, OnlyMovesOverlap, CopiesFresh, IsFree
<1>3. /\ IInv /\ OnlyMovesOverlap /\ [Next]_vars => OnlyMovesOverlap'
      /\ IInv /\ OnlyMovesOverlap /\ CopiesFresh /\ [Next]_vars => CopiesFresh'
  BY OverlapKept, FreshKept
<1>4. Spec => []IInv /\ []OnlyMovesOverlap /\ []CopiesFresh
  BY <1>2, <1>3, IInvHolds, PTL DEF Spec
<1>5. Spec => []RInv
  BY <1>4, MovesAreApart, RInvHolds, PTL
<1> QED BY <1>1, <1>4, <1>5, InitAbstract, PTL
        DEF Spec, ImplementsChessGame, Abstract!Spec
=============================================================================
