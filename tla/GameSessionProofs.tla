-------------------------- MODULE GameSessionProofs --------------------------
(***************************************************************************)
(* Every rule of GameSession takes a well-formed, coherent game to a       *)
(* well-formed, coherent game, and is a step of the chess game that the    *)
(* session is seen as.                                                     *)
(***************************************************************************)
EXTENDS ChessView, SequenceTheorems, TLAPS

GoodGame(g) == IsGame(g) /\ Coherent(g)

LEMMA NoMovesType == IsMoveList(NoMoves) /\ DOMAIN NoMoves = {}
  BY DEF IsMoveList, NoMoves

LEMMA WithMoveType ==
  ASSUME NEW f, IsMoveList(f), NEW r \in Nat \ {0}, NEW m \in Moves
  PROVE  /\ IsMoveList(WithMove(f, r, m))
         /\ DOMAIN WithMove(f, r, m) = DOMAIN f \cup {r}
         /\ WithMove(f, r, m)[r] = m
         /\ \A i \in DOMAIN f \ {r} : WithMove(f, r, m)[i] = f[i]
  BY DEF IsMoveList, WithMove

LEMMA NoRematchType == NoRematch \in [Colours -> BOOLEAN]
  BY DEF NoRematch, Colours

LEMMA CreatedGood ==
  ASSUME NEW p \in Players PROVE GoodGame(CreatedBy(p))
<1>1. IsGame(CreatedBy(p))
  BY NoMovesType, NoRematchType
  DEF IsGame, CreatedBy, SessionStates, Colours, Results
<1>2. PlayedWithinTheGame(CreatedBy(p))
  BY NoMovesType DEF PlayedWithinTheGame, CreatedBy
<1>3. Coherent(CreatedBy(p))
  BY <1>2, NoMovesType DEF Coherent, CreatedBy, BothPlayersAccepted, NoRematch, Colours
<1> QED BY <1>1, <1>3 DEF GoodGame

LEMMA SeatedGood ==
  ASSUME NEW g, GoodGame(g), CanJoinSession(g), NEW p \in Players
  PROVE  GoodGame(Seated(g, p))
<1>1. IsGame(Seated(g, p))
  BY DEF GoodGame, IsGame, Seated
<1>2. Coherent(Seated(g, p))
  BY DEF GoodGame, IsGame, Seated, Coherent, PlayedWithinTheGame, CanJoinSession,
         BothPlayersAccepted
<1> QED BY <1>1, <1>2 DEF GoodGame

LEMMA StartedGood ==
  ASSUME NEW g, GoodGame(g), IsReadyToStart(g)
  PROVE  GoodGame(Started(g))
<1>1. IsGame(Started(g))
  BY DEF GoodGame, IsGame, Started, SessionStates, Colours
<1>2. PlayedWithinTheGame(Started(g))
  BY DEF GoodGame, IsGame, Started, Coherent, PlayedWithinTheGame
<1>3. Coherent(Started(g))
  BY <1>2 DEF GoodGame, IsGame, Started, Coherent, IsReadyToStart,
              BothPlayersAccepted, TurnAfter, LastOutcome
<1> QED BY <1>1, <1>3 DEF GoodGame

LEMMA ResignedGood ==
  ASSUME NEW g, GoodGame(g), g.state = "IN_PROGRESS", NEW c \in Colours
  PROVE  GoodGame(Resigned(g, c))
<1>1. IsGame(Resigned(g, c))
  BY DEF GoodGame, IsGame, Resigned, SessionStates, Results
<1>2. PlayedWithinTheGame(Resigned(g, c))
  BY DEF GoodGame, IsGame, Resigned, Coherent, PlayedWithinTheGame
<1>3. ResultFits(Resigned(g, c))
  BY DEF GoodGame, IsGame, Resigned, Coherent, ResultFits, LastOutcome
<1>4. Coherent(Resigned(g, c))
  BY <1>2, <1>3 DEF GoodGame, IsGame, Resigned, Coherent, BothPlayersAccepted
<1> QED BY <1>1, <1>4 DEF GoodGame

LEMMA RematchAskedGood ==
  ASSUME NEW g, GoodGame(g), g.state = "FINISHED", NEW c \in Colours,
         ~ BothPlayersAccepted(RematchAsked(g, c))
  PROVE  GoodGame(RematchAsked(g, c))
<1>1. IsGame(RematchAsked(g, c))
  BY DEF GoodGame, IsGame, RematchAsked
<1>2. PlayedWithinTheGame(RematchAsked(g, c))
  BY DEF GoodGame, IsGame, RematchAsked, Coherent, PlayedWithinTheGame
<1>3. ResultFits(RematchAsked(g, c))
  BY DEF GoodGame, IsGame, RematchAsked, Coherent, ResultFits, LastOutcome
<1>4. Coherent(RematchAsked(g, c))
  BY <1>2, <1>3 DEF GoodGame, IsGame, RematchAsked, Coherent
<1> QED BY <1>1, <1>4 DEF GoodGame

LEMMA RematchStartedGood ==
  ASSUME NEW g, GoodGame(g), g.state = "FINISHED"
  PROVE  GoodGame(RematchStarted(g))
<1>1. IsGame(RematchStarted(g))
  BY NoMovesType, NoRematchType
  DEF GoodGame, IsGame, RematchStarted, SessionStates, Colours, Results
<1>2. PlayedWithinTheGame(RematchStarted(g))
  BY NoMovesType DEF GoodGame, IsGame, RematchStarted, PlayedWithinTheGame
<1>3. Coherent(RematchStarted(g))
  BY <1>2 DEF GoodGame, IsGame, RematchStarted, Coherent, TurnAfter, LastOutcome,
              BothPlayersAccepted, NoRematch, Colours
<1> QED BY <1>1, <1>3 DEF GoodGame

\* The position after a move: what Completed starts from.
LEMMA MovedPosition ==
  ASSUME NEW g, GoodGame(g), CanSubmitMove(g), NEW m \in Moves
  PROVE  /\ IsGame(Moved(g, m))
         /\ PlayedWithinTheGame(Moved(g, m))
         /\ LastOutcome(Moved(g, m)) = Outcome[m]
         /\ Moved(g, m).revision = g.revision + 1
         /\ Moved(g, m).turnColour = TurnAfter(g.revision + 1)
         /\ Moved(g, m).state = "IN_PROGRESS"
         /\ Moved(g, m).result = "null"
         /\ Moved(g, m).black = g.black /\ g.black # NoPlayer
         /\ Moved(g, m).rematch = g.rematch /\ g.rematch = NoRematch
<1> DEFINE n == g.revision + 1
           f == WithMove(g.fen, n, m)
<1>1. /\ g.revision \in Nat /\ n = g.revision + 1 /\ n \in Nat \ {0}
      /\ IsMoveList(g.fen)
  BY DEF GoodGame, IsGame
<1> HIDE DEF n
<1>2. IsMoveList(f) /\ DOMAIN f = DOMAIN g.fen \cup {n} /\ f[n] = m
      /\ \A i \in DOMAIN g.fen \ {n} : f[i] = g.fen[i]
  BY <1>1 DEF IsMoveList, WithMove
<1> HIDE DEF f
<1>3. Moved(g, m).fen = f /\ Moved(g, m).revision = n
  BY <1>1 DEF Moved, GoodGame, IsGame, f
<1>4. IsGame(Moved(g, m))
  <2>1. TurnAfter(n) \in Colours
    BY DEF TurnAfter, Colours
  <2> QED BY <1>1, <1>2, <1>3, <2>1 DEF Moved, GoodGame, IsGame, f
<1>5. DOMAIN g.fen = 1 .. g.revision
  BY DEF GoodGame, Coherent, PlayedWithinTheGame
<1>6. DOMAIN f = 1 .. n
  BY <1>1, <1>2, <1>5
<1>7. \A r \in 1 .. n : r < n => Outcome[f[r]] = "none"
  <2> SUFFICES ASSUME NEW r \in 1 .. n, r < n PROVE Outcome[f[r]] = "none"
    OBVIOUS
  <2>1. r \in 1 .. g.revision /\ f[r] = g.fen[r]
    BY <1>1, <1>2, <1>5
  <2>2. CASE r < g.revision
    BY <2>1, <2>2 DEF GoodGame, Coherent, PlayedWithinTheGame
  <2>3. CASE r = g.revision
    BY <2>1, <2>3 DEF GoodGame, Coherent, CanSubmitMove, LastOutcome
  <2> QED BY <1>1, <2>1, <2>2, <2>3
<1>8. PlayedWithinTheGame(Moved(g, m))
  BY <1>3, <1>6, <1>7 DEF PlayedWithinTheGame
<1>9. LastOutcome(Moved(g, m)) = Outcome[m]
  BY <1>1, <1>2, <1>3 DEF LastOutcome
<1> QED
  BY <1>1, <1>3, <1>4, <1>8, <1>9
  DEF Moved, GoodGame, IsGame, Coherent, CanSubmitMove

LEMMA CompletedGood ==
  ASSUME NEW g, GoodGame(g), CanSubmitMove(g), NEW m \in Moves
  PROVE  GoodGame(Completed(Moved(g, m), m))
<1> DEFINE h == Moved(g, m)
           k == Completed(h, m)
<1> HIDE DEF h
<1>1. /\ IsGame(h) /\ PlayedWithinTheGame(h) /\ LastOutcome(h) = Outcome[m]
      /\ h.turnColour = TurnAfter(h.revision)
      /\ h.state = "IN_PROGRESS" /\ h.result = "null"
      /\ h.black # NoPlayer /\ h.rematch = NoRematch
  BY MovedPosition DEF h
<1>2. Outcome[m] \in {"none", "checkmate", "draw"}
  BY OutcomeAssumption
<1>3. ~ BothPlayersAccepted(h)
  BY <1>1 DEF BothPlayersAccepted, NoRematch, Colours
<1>4. CASE Outcome[m] = "checkmate"
  <2>1. k = [h EXCEPT !.state = "FINISHED", !.turnColour = "null",
                      !.result = IF TurnAfter(h.revision) = "white"
                                 THEN "BLACK_WIN_CHECKMATE"
                                 ELSE "WHITE_WIN_CHECKMATE"]
    BY <1>4 DEF Completed
  <2>2. IsGame(k)
    BY <1>1, <2>1 DEF IsGame, SessionStates, Results
  <2>3. PlayedWithinTheGame(k) /\ LastOutcome(k) = "checkmate"
    BY <1>1, <1>4, <2>1 DEF IsGame, PlayedWithinTheGame, LastOutcome
  <2>4. ResultFits(k)
    BY <1>1, <2>1, <2>3 DEF IsGame, ResultFits
  <2>5. Coherent(k)
    BY <1>1, <1>3, <2>1, <2>3, <2>4 DEF IsGame, Coherent, BothPlayersAccepted
  <2> QED BY <2>2, <2>5 DEF GoodGame, h
<1>5. CASE Outcome[m] = "draw"
  <2>1. k = [h EXCEPT !.state = "FINISHED", !.turnColour = "null", !.result = "DRAW"]
    BY <1>5 DEF Completed
  <2>2. IsGame(k)
    BY <1>1, <2>1 DEF IsGame, SessionStates, Results
  <2>3. PlayedWithinTheGame(k) /\ LastOutcome(k) = "draw"
    BY <1>1, <1>5, <2>1 DEF IsGame, PlayedWithinTheGame, LastOutcome
  <2>4. ResultFits(k)
    BY <1>1, <2>1, <2>3 DEF IsGame, ResultFits
  <2>5. Coherent(k)
    BY <1>1, <1>3, <2>1, <2>3, <2>4 DEF IsGame, Coherent, BothPlayersAccepted
  <2> QED BY <2>2, <2>5 DEF GoodGame, h
<1>6. CASE Outcome[m] = "none"
  <2>1. k = h
    BY <1>6 DEF Completed
  <2>2. Coherent(h)
    BY <1>1, <1>3, <1>6 DEF Coherent
  <2> QED BY <1>1, <2>1, <2>2 DEF GoodGame, h
<1> QED BY <1>2, <1>4, <1>5, <1>6 DEF h

-----------------------------------------------------------------------------
(* A coherent game as a chess game *)

\* The position is the sequence of the moves made.
LEMMA PositionIsSequence ==
  ASSUME NEW g, GoodGame(g)
  PROVE  g.fen \in Seq(Moves) /\ Len(g.fen) = g.revision
<1>1. g.revision \in Nat /\ g.fen \in [1 .. g.revision -> Moves]
  BY DEF GoodGame, IsGame, IsMoveList, Coherent, PlayedWithinTheGame
<1> QED BY <1>1

LEMMA NoMovesIsEmpty == NoMoves = << >>
BY DEF NoMoves

\* A move list with one more move is the longer sequence.
LEMMA WithMoveIsAppend ==
  ASSUME NEW g, GoodGame(g), NEW m \in Moves
  PROVE  WithMove(g.fen, g.revision + 1, m) = Append(g.fen, m)
<1>1. g.revision \in Nat /\ g.fen \in [1 .. g.revision -> Moves]
      /\ DOMAIN g.fen = 1 .. g.revision
  BY DEF GoodGame, IsGame, IsMoveList, Coherent, PlayedWithinTheGame
<1>2. g.fen \in Seq(Moves) /\ Len(g.fen) = g.revision
  BY PositionIsSequence
<1>3. 1 .. g.revision \cup {g.revision + 1} = 1 .. g.revision + 1
  BY <1>1
<1>4. WithMove(g.fen, g.revision + 1, m) =
        [i \in 1 .. g.revision + 1 |-> IF i = g.revision + 1 THEN m ELSE g.fen[i]]
  BY <1>1, <1>3 DEF WithMove
<1>5. /\ DOMAIN Append(g.fen, m) = 1 .. g.revision + 1
      /\ Append(g.fen, m) = [i \in 1 .. g.revision + 1 |-> Append(g.fen, m)[i]]
      /\ \A i \in 1 .. g.revision + 1 :
           Append(g.fen, m)[i] = IF i = g.revision + 1 THEN m ELSE g.fen[i]
  BY <1>1, <1>2
<1> QED BY <1>4, <1>5

\* (In a coherent game that is played or over the black seat is taken.)
LEMMA StageFacts ==
  ASSUME NEW g, GoodGame(g)
  PROVE  /\ g.state = "IN_PROGRESS" => StageOf(g) = "playing"
         /\ g.state = "FINISHED" => StageOf(g) = "over"
         /\ CanJoinSession(g) => StageOf(g) = "open"
         /\ IsReadyToStart(g) => StageOf(g) = "ready"
<1>1. g.state = "IN_PROGRESS" => StageOf(g) = "playing"
  BY DEF StageOf, GoodGame, Coherent
<1>2. g.state = "FINISHED" => StageOf(g) = "over"
  BY DEF StageOf, GoodGame, Coherent
<1>3. CanJoinSession(g) => StageOf(g) = "open"
  BY DEF StageOf, CanJoinSession
<1>4. IsReadyToStart(g) => StageOf(g) = "ready"
  BY DEF StageOf, IsReadyToStart
<1> QED BY <1>1, <1>2, <1>3, <1>4

LEMMA WinnerFacts ==
  ASSUME NEW g
  PROVE  /\ g.result \in {"WHITE_WIN_CHECKMATE", "WHITE_WIN_RESIGNATION"} =>
              WinnerOf(g) = "white"
         /\ g.result \in {"BLACK_WIN_CHECKMATE", "BLACK_WIN_RESIGNATION"} =>
              WinnerOf(g) = "black"
         /\ g.result = "DRAW" => WinnerOf(g) = "nobody"
         /\ g.result = "null" => WinnerOf(g) = "none"
<1>1. g.result \in {"WHITE_WIN_CHECKMATE", "WHITE_WIN_RESIGNATION"} =>
        WinnerOf(g) = "white"
  BY DEF WinnerOf
<1>2. g.result \in {"BLACK_WIN_CHECKMATE", "BLACK_WIN_RESIGNATION"} =>
        WinnerOf(g) = "black"
  BY DEF WinnerOf
<1>3. g.result = "DRAW" => WinnerOf(g) = "nobody"
  BY DEF WinnerOf
<1>4. g.result = "null" => WinnerOf(g) = "none"
  BY DEF WinnerOf
<1> QED BY <1>1, <1>2, <1>3, <1>4

LEMMA SameResult ==
  ASSUME NEW g, NEW h, g.result = h.result PROVE WinnerOf(g) = WinnerOf(h)
BY DEF WinnerOf

\* The records the steps of ChessGame go to, field by field.
Fields == {"stage", "guest", "moves", "winner", "wantRematch"}

LEMMA SameFields ==
  ASSUME NEW g, NEW r, DOMAIN r = Fields, r = [x \in DOMAIN r |-> r[x]],
         r.stage = StageOf(g), r.guest = g.black, r.moves = g.fen,
         r.winner = WinnerOf(g), r.wantRematch = RematchWanted(g)
  PROVE  AsChessGame(g) = r
BY DEF AsChessGame, Fields

LEMMA FieldsOf ==
  ASSUME NEW g
  PROVE  /\ AsChessGame(g).stage = StageOf(g)
         /\ AsChessGame(g).moves = g.fen
         /\ AsChessGame(g).wantRematch = RematchWanted(g)
BY DEF AsChessGame

LEMMA FieldsReplaced ==
  ASSUME NEW g, NEW h
  PROVE  /\ h.fen = g.fen /\ WinnerOf(h) = WinnerOf(g)
              /\ RematchWanted(h) = RematchWanted(g) =>
            AsChessGame(h) =
              [AsChessGame(g) EXCEPT !.stage = StageOf(h), !.guest = h.black]
         /\ h.fen = g.fen /\ h.black = g.black
              /\ RematchWanted(h) = RematchWanted(g) =>
            AsChessGame(h) =
              [AsChessGame(g) EXCEPT !.stage = StageOf(h), !.winner = WinnerOf(h)]
         /\ h.black = g.black /\ RematchWanted(h) = RematchWanted(g) =>
            AsChessGame(h) =
              [AsChessGame(g) EXCEPT !.moves = h.fen, !.stage = StageOf(h),
                                     !.winner = WinnerOf(h)]
         /\ h.black = g.black =>
            AsChessGame(h) =
              [AsChessGame(g) EXCEPT !.stage = StageOf(h), !.moves = h.fen,
                                     !.winner = WinnerOf(h),
                                     !.wantRematch = RematchWanted(h)]
<1>1. ASSUME h.fen = g.fen, WinnerOf(h) = WinnerOf(g),
             RematchWanted(h) = RematchWanted(g)
      PROVE  AsChessGame(h) =
               [AsChessGame(g) EXCEPT !.stage = StageOf(h), !.guest = h.black]
  <2> DEFINE r == [AsChessGame(g) EXCEPT !.stage = StageOf(h), !.guest = h.black]
  <2>1. /\ DOMAIN r = Fields /\ r = [x \in DOMAIN r |-> r[x]]
        /\ r.stage = StageOf(h) /\ r.guest = h.black /\ r.moves = h.fen
        /\ r.winner = WinnerOf(h) /\ r.wantRematch = RematchWanted(h)
    BY <1>1 DEF AsChessGame, Fields
  <2> HIDE DEF r
  <2>2. AsChessGame(h) = r
    BY <2>1, SameFields
  <2> QED BY <2>2 DEF r
<1>2. ASSUME h.fen = g.fen, h.black = g.black, RematchWanted(h) = RematchWanted(g)
      PROVE  AsChessGame(h) =
               [AsChessGame(g) EXCEPT !.stage = StageOf(h), !.winner = WinnerOf(h)]
  <2> DEFINE r == [AsChessGame(g) EXCEPT !.stage = StageOf(h), !.winner = WinnerOf(h)]
  <2>1. /\ DOMAIN r = Fields /\ r = [x \in DOMAIN r |-> r[x]]
        /\ r.stage = StageOf(h) /\ r.guest = h.black /\ r.moves = h.fen
        /\ r.winner = WinnerOf(h) /\ r.wantRematch = RematchWanted(h)
    BY <1>2 DEF AsChessGame, Fields
  <2> HIDE DEF r
  <2>2. AsChessGame(h) = r
    BY <2>1, SameFields
  <2> QED BY <2>2 DEF r
<1>3. ASSUME h.black = g.black, RematchWanted(h) = RematchWanted(g)
      PROVE  AsChessGame(h) =
               [AsChessGame(g) EXCEPT !.moves = h.fen, !.stage = StageOf(h),
                                      !.winner = WinnerOf(h)]
  <2> DEFINE r == [AsChessGame(g) EXCEPT !.moves = h.fen, !.stage = StageOf(h),
                                         !.winner = WinnerOf(h)]
  <2>1. /\ DOMAIN r = Fields /\ r = [x \in DOMAIN r |-> r[x]]
        /\ r.stage = StageOf(h) /\ r.guest = h.black /\ r.moves = h.fen
        /\ r.winner = WinnerOf(h) /\ r.wantRematch = RematchWanted(h)
    BY <1>3 DEF AsChessGame, Fields
  <2> HIDE DEF r
  <2>2. AsChessGame(h) = r
    BY <2>1, SameFields
  <2> QED BY <2>2 DEF r
<1>4. ASSUME h.black = g.black
      PROVE  AsChessGame(h) =
               [AsChessGame(g) EXCEPT !.stage = StageOf(h), !.moves = h.fen,
                                      !.winner = WinnerOf(h),
                                      !.wantRematch = RematchWanted(h)]
  <2> DEFINE r == [AsChessGame(g) EXCEPT !.stage = StageOf(h), !.moves = h.fen,
                                         !.winner = WinnerOf(h),
                                         !.wantRematch = RematchWanted(h)]
  <2>1. /\ DOMAIN r = Fields /\ r = [x \in DOMAIN r |-> r[x]]
        /\ r.stage = StageOf(h) /\ r.guest = h.black /\ r.moves = h.fen
        /\ r.winner = WinnerOf(h) /\ r.wantRematch = RematchWanted(h)
    BY <1>4 DEF AsChessGame, Fields
  <2> HIDE DEF r
  <2>2. AsChessGame(h) = r
    BY <2>1, SameFields
  <2> QED BY <2>2 DEF r
<1> QED BY <1>1, <1>2, <1>3, <1>4

-----------------------------------------------------------------------------
(* What each rule is to the chess game *)

LEMMA SeatedView ==
  ASSUME NEW g, NEW h, GoodGame(g), GoodGame(h), CanJoinSession(g), NEW p \in Players,
         h = Seated(g, p)
  PROVE  /\ AsChessGame(g).stage = "open"
         /\ AsChessGame(h) = [AsChessGame(g) EXCEPT !.stage = "ready", !.guest = p]
<1>1. StageOf(g) = "open" /\ StageOf(h) = "ready"
  <2>1. IsReadyToStart(h)
    BY NoPlayerAssumption
    DEF GoodGame, IsGame, Seated, CanJoinSession, IsReadyToStart
  <2> QED BY <2>1, StageFacts
<1>2. h.fen = g.fen /\ h.result = g.result /\ h.black = p
      /\ h.rematch = g.rematch
  BY DEF GoodGame, IsGame, Seated
<1>3. WinnerOf(h) = WinnerOf(g) /\ RematchWanted(h) = RematchWanted(g)
  BY <1>2, SameResult DEF RematchWanted
<1>4. AsChessGame(h) = [AsChessGame(g) EXCEPT !.stage = "ready", !.guest = p]
  <2>1. AsChessGame(h) =
          [AsChessGame(g) EXCEPT !.stage = StageOf(h), !.guest = h.black]
    BY <1>1, <1>2, <1>3, FieldsReplaced
  <2> QED BY <2>1, <1>1, <1>2, <1>3
<1> QED BY <1>1, <1>4, FieldsOf

LEMMA StartedView ==
  ASSUME NEW g, NEW h, GoodGame(g), GoodGame(h), IsReadyToStart(g), h = Started(g)
  PROVE  /\ AsChessGame(g).stage = "ready"
         /\ AsChessGame(h) = [AsChessGame(g) EXCEPT !.stage = "playing"]
<1>1. StageOf(g) = "ready" /\ StageOf(h) = "playing"
  <2>1. h.state = "IN_PROGRESS"
    BY DEF GoodGame, IsGame, Started
  <2> QED BY <2>1, StageFacts
<1>2. h.fen = g.fen /\ h.result = g.result
      /\ h.black = g.black /\ h.rematch = g.rematch
  BY DEF GoodGame, IsGame, Started
<1>3. WinnerOf(h) = WinnerOf(g) /\ RematchWanted(h) = RematchWanted(g)
  BY <1>2, SameResult DEF RematchWanted
<1>4. AsChessGame(h) = [AsChessGame(g) EXCEPT !.stage = "playing"]
  BY <1>1, <1>2, <1>3 DEF AsChessGame
<1> QED BY <1>1, <1>4, FieldsOf

LEMMA MovedResult ==
  ASSUME NEW g, NEW h, GoodGame(g), GoodGame(h), CanSubmitMove(g), NEW m \in Moves,
         h = Completed(Moved(g, m), m)
  PROVE  /\ Outcome[m] = "none" => StageOf(h) = "playing" /\ WinnerOf(h) = "none"
         /\ Outcome[m] = "draw" => StageOf(h) = "over" /\ WinnerOf(h) = "nobody"
         /\ Outcome[m] = "checkmate" =>
              StageOf(h) = "over" /\ WinnerOf(h) = TurnAfter(g.revision)
<1> DEFINE after == Moved(g, m)
<1>1. IsGame(g) /\ IsGame(after) /\ after.revision = g.revision + 1
  BY MovedPosition DEF GoodGame, CanSubmitMove, Moved, IsGame
<1>2. after.state = "IN_PROGRESS" /\ after.result = "null"
  BY DEF GoodGame, Coherent, IsGame, CanSubmitMove, Moved
<1> HIDE DEF after
<1>3. h = Completed(after, m)
  BY DEF after
<1>4. ASSUME Outcome[m] = "none"
      PROVE  StageOf(h) = "playing" /\ WinnerOf(h) = "none"
  <2>1. h = after
    BY <1>3, <1>4 DEF Completed
  <2> QED BY <1>1, <1>2, <2>1, StageFacts, WinnerFacts
<1>5. ASSUME Outcome[m] = "draw"
      PROVE  StageOf(h) = "over" /\ WinnerOf(h) = "nobody"
  <2>1. h.state = "FINISHED" /\ h.result = "DRAW"
    BY <1>1, <1>3, <1>5 DEF Completed, IsGame
  <2> QED BY <2>1, StageFacts, WinnerFacts
<1>6. ASSUME Outcome[m] = "checkmate"
      PROVE  StageOf(h) = "over" /\ WinnerOf(h) = TurnAfter(g.revision)
  <2>1. /\ h.state = "FINISHED"
        /\ h.result = IF TurnAfter(g.revision + 1) = "white"
                      THEN "BLACK_WIN_CHECKMATE" ELSE "WHITE_WIN_CHECKMATE"
    BY <1>1, <1>3, <1>6 DEF Completed, IsGame
  <2>2. TurnAfter(g.revision) =
          IF TurnAfter(g.revision + 1) = "white" THEN "black" ELSE "white"
    BY <1>1 DEF TurnAfter, IsGame
  <2> QED BY <2>1, <2>2, StageFacts, WinnerFacts
<1> QED BY <1>4, <1>5, <1>6

LEMMA MovedView ==
  ASSUME NEW g, NEW h, GoodGame(g), GoodGame(h), CanSubmitMove(g), NEW m \in Moves,
         h = Completed(Moved(g, m), m)
  PROVE  /\ AsChessGame(g).stage = "playing"
         /\ AsChessGame(g).moves = g.fen /\ Len(g.fen) = g.revision
         /\ AsChessGame(h) =
              [AsChessGame(g) EXCEPT !.moves = Append(g.fen, m), !.stage = StageOf(h),
                                     !.winner = WinnerOf(h)]
<1> DEFINE after == Moved(g, m)
<1>1. IsGame(g) /\ GoodGame(g) /\ g.state = "IN_PROGRESS"
  BY DEF GoodGame, CanSubmitMove
<1>2. /\ IsGame(after)
      /\ after.fen = Append(g.fen, m)
      /\ after.black = g.black /\ after.rematch = g.rematch
  <2>1. IsGame(after)
    BY <1>1, MovedPosition
  <2>2. after.fen = WithMove(g.fen, g.revision + 1, m)
    BY <1>1 DEF Moved, IsGame
  <2> QED BY <1>1, <2>1, <2>2, WithMoveIsAppend DEF Moved, IsGame
<1>3. h.fen = after.fen /\ h.black = after.black /\ h.rematch = after.rematch
  BY <1>2, OutcomeAssumption DEF Completed, IsGame
<1>4. StageOf(g) = "playing"
  BY <1>1, StageFacts
<1>5. /\ Len(g.fen) = g.revision
      /\ h.fen = Append(g.fen, m) /\ h.black = g.black
      /\ RematchWanted(h) = RematchWanted(g)
  BY <1>1, <1>2, <1>3, PositionIsSequence DEF RematchWanted
<1> HIDE DEF after
<1>6. AsChessGame(h) =
        [AsChessGame(g) EXCEPT !.moves = h.fen, !.stage = StageOf(h),
                               !.winner = WinnerOf(h)]
  BY <1>5, FieldsReplaced
<1> QED BY <1>4, <1>5, <1>6, FieldsOf

LEMMA ResignedView ==
  ASSUME NEW g, NEW h, GoodGame(g), GoodGame(h), g.state = "IN_PROGRESS", NEW c \in Colours,
         h = Resigned(g, c)
  PROVE  /\ AsChessGame(g).stage = "playing"
         /\ AsChessGame(h) =
              [AsChessGame(g) EXCEPT !.stage = "over", !.winner = Opponent(c)]
<1>1. /\ h.state = "FINISHED"
      /\ h.result = IF c = "white" THEN "BLACK_WIN_RESIGNATION"
                                       ELSE "WHITE_WIN_RESIGNATION"
      /\ h.fen = g.fen /\ h.black = g.black
      /\ h.rematch = g.rematch
  BY DEF GoodGame, IsGame, Resigned
<1>2. StageOf(g) = "playing" /\ StageOf(h) = "over"
  BY <1>1, StageFacts
<1>3. WinnerOf(h) = Opponent(c)
  BY <1>1, WinnerFacts DEF Colours, Opponent
<1>4. RematchWanted(h) = RematchWanted(g)
  BY <1>1 DEF RematchWanted
<1>5. AsChessGame(h) =
        [AsChessGame(g) EXCEPT !.stage = "over", !.winner = Opponent(c)]
  <2>1. AsChessGame(h) =
          [AsChessGame(g) EXCEPT !.stage = StageOf(h),
                                 !.winner = WinnerOf(h)]
    BY <1>1, <1>2, <1>3, <1>4, FieldsReplaced
  <2> QED BY <2>1, <1>1, <1>2, <1>3, <1>4
<1> QED BY <1>2, <1>5, FieldsOf

\* Who wants a rematch once the player of seat c has asked for one.
LEMMA WantsAfterAsking ==
  ASSUME NEW g, IsGame(g), NEW c \in Colours
  PROVE  RematchWanted(RematchAsked(g, c)) = RematchWanted(g) \cup {c}
BY DEF IsGame, RematchAsked, RematchWanted

LEMMA BothWant ==
  ASSUME NEW g, IsGame(g)
  PROVE  BothPlayersAccepted(g) <=> RematchWanted(g) = Colours
BY DEF RematchWanted, BothPlayersAccepted, Colours

LEMMA RematchAskedView ==
  ASSUME NEW g, NEW h, GoodGame(g), GoodGame(h), g.state = "FINISHED", NEW c \in Colours,
         h = RematchAsked(g, c), ~ BothPlayersAccepted(h)
  PROVE  /\ AsChessGame(g).stage = "over"
         /\ AsChessGame(g).wantRematch \cup {c} # Colours
         /\ AsChessGame(h) =
              [AsChessGame(g) EXCEPT !.wantRematch = AsChessGame(g).wantRematch \cup {c}]
<1>1. IsGame(g) /\ IsGame(h)
  BY DEF GoodGame
<1>2. /\ h.state = g.state /\ h.result = g.result
      /\ h.fen = g.fen /\ h.black = g.black
  BY <1>1 DEF IsGame, RematchAsked
<1>3. StageOf(g) = "over" /\ StageOf(h) = "over"
  BY <1>2, StageFacts
<1>4. WinnerOf(h) = WinnerOf(g)
  BY <1>2, SameResult
<1>5. RematchWanted(h) = RematchWanted(g) \cup {c}
  BY <1>1, WantsAfterAsking
<1>6. RematchWanted(g) \cup {c} # Colours
  BY <1>1, <1>5, BothWant DEF Colours
<1>7. AsChessGame(h) =
        [AsChessGame(g) EXCEPT !.wantRematch = RematchWanted(g) \cup {c}]
  BY <1>2, <1>3, <1>4, <1>5 DEF AsChessGame
<1> QED BY <1>3, <1>6, <1>7, FieldsOf

LEMMA RematchStartedView ==
  ASSUME NEW g, NEW h, GoodGame(g), GoodGame(h), g.state = "FINISHED", NEW c \in Colours,
         BothPlayersAccepted(RematchAsked(g, c)), h = RematchStarted(g)
  PROVE  /\ AsChessGame(g).stage = "over"
         /\ AsChessGame(g).wantRematch \cup {c} = Colours
         /\ AsChessGame(h) =
              [AsChessGame(g) EXCEPT !.stage = "playing", !.moves = << >>,
                                     !.winner = "none", !.wantRematch = {}]
<1>1. IsGame(g) /\ IsGame(RematchAsked(g, c))
  BY DEF GoodGame, IsGame, RematchAsked
<1>2. /\ h.state = "IN_PROGRESS" /\ h.result = "null"
      /\ h.fen = << >> /\ h.black = g.black
      /\ h.rematch = NoRematch
  BY <1>1, NoMovesIsEmpty DEF IsGame, RematchStarted
<1>3. StageOf(g) = "over" /\ StageOf(h) = "playing"
  BY <1>2, StageFacts
<1>4. WinnerOf(h) = "none"
  BY <1>2, WinnerFacts
<1>5. RematchWanted(h) = {}
  BY <1>2 DEF NoRematch, RematchWanted
<1>6. RematchWanted(g) \cup {c} = Colours
  BY <1>1, WantsAfterAsking, BothWant DEF Colours
<1>7. AsChessGame(h) =
        [AsChessGame(g) EXCEPT !.stage = "playing", !.moves = << >>,
                                  !.winner = "none", !.wantRematch = {}]
  <2>1. AsChessGame(h) =
          [AsChessGame(g) EXCEPT !.stage = StageOf(h), !.moves = h.fen,
                                 !.winner = WinnerOf(h),
                                 !.wantRematch = RematchWanted(h)]
    BY <1>2, <1>3, <1>4, <1>5, FieldsReplaced
  <2> QED BY <2>1, <1>2, <1>3, <1>4, <1>5
<1> QED BY <1>3, <1>6, <1>7, FieldsOf

\* The decomposed join: the seat and the start at once.
LEMMA SeatedStartedView ==
  ASSUME NEW g, NEW h, GoodGame(g), GoodGame(h), CanJoinSession(g), NEW p \in Players,
         h = Started(Seated(g, p))
  PROVE  /\ AsChessGame(g).stage = "open"
         /\ AsChessGame(h) = [AsChessGame(g) EXCEPT !.stage = "playing", !.guest = p]
<1>1. h.fen = g.fen /\ h.result = g.result /\ h.black = p
      /\ h.rematch = g.rematch /\ h.state = "IN_PROGRESS"
  BY DEF GoodGame, IsGame, Seated, Started
<1>2. StageOf(g) = "open" /\ StageOf(h) = "playing"
  BY <1>1, StageFacts
<1>3. WinnerOf(h) = WinnerOf(g) /\ RematchWanted(h) = RematchWanted(g)
  BY <1>1, SameResult DEF RematchWanted
<1>4. AsChessGame(h) = [AsChessGame(g) EXCEPT !.stage = StageOf(h), !.guest = h.black]
  BY <1>1, <1>3, FieldsReplaced
<1> QED BY <1>1, <1>2, <1>4, FieldsOf

LEMMA CreatedView ==
  ASSUME NEW p
  PROVE  AsChessGame(CreatedBy(p)) =
           [stage |-> "open", guest |-> NoPlayer, moves |-> << >>,
            winner |-> "none", wantRematch |-> {}]
<1> DEFINE g == CreatedBy(p)
<1>1. /\ g.state = "WAITING_FOR_PLAYERS" /\ g.black = NoPlayer
      /\ g.result = "null" /\ g.fen = << >> /\ g.rematch = NoRematch
  BY NoMovesIsEmpty DEF CreatedBy
<1> HIDE DEF g
<1>2. StageOf(g) = "open" /\ WinnerOf(g) = "none"
  BY <1>1, WinnerFacts DEF StageOf
<1>3. RematchWanted(g) = {}
  BY <1>1 DEF RematchWanted, NoRematch
<1>4. AsChessGame(g) = [stage |-> "open", guest |-> NoPlayer, moves |-> << >>,
                        winner |-> "none", wantRematch |-> {}]
  BY <1>1, <1>2, <1>3 DEF AsChessGame
<1> QED BY <1>4 DEF g
=============================================================================
