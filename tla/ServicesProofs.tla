--------------------------- MODULE ServicesProofs ---------------------------
(***************************************************************************)
(* For any number of requests that overlap in any way and fail anywhere:   *)
(* the rows and the copies of the decomposed services are well-typed and   *)
(* coherent, a full room is started, a room keeps its creator, and a guest *)
(* who is settled keeps the seat.                                          *)
(*                                                                         *)
(* None of it is inductive for the row alone, because an UPDATE stores     *)
(* what a request has read and computed earlier: the invariant says the    *)
(* same of every copy, and that a copy is of the room the row is of.       *)
(***************************************************************************)
EXTENDS ServicesProperties, GameSessionProofs

StartedIfFull(g) == g.black # NoPlayer => g.state # "WAITING_FOR_PLAYERS"

\* A game that may be stored.
Storable(g) == GoodGame(g) /\ StartedIfFull(g)
GoodRow(g) == g = NoRow \/ Storable(g)

\* A copy that was read from the room the row is of.
SameRoom(g) == g # NoRow => row # NoRow /\ g.white = row.white

DatabaseGood == GoodRow(row) /\ IsMoveList(moveRows)
RequestsGood ==
  /\ request \in [Handlers -> Requests \cup {NoRequest}]
  /\ at \in [Handlers -> Places]
CopyGood(s) ==
  /\ s = Session(s.game, s.moveHistory)
  /\ GoodRow(s.game)
  /\ IsMoveList(s.moveHistory)
CopiesGood ==
  /\ copy = [h \in Handlers |-> copy[h]]
  /\ \A h \in Handlers : CopyGood(copy[h])
  /\ \A h \in Handlers : SameRoom(copy[h].game)
SavesGood ==
  \A h \in Handlers : at[h] \in {"moveSave", "rematchSave"} => copy[h].game # NoRow
HistoryGood == joined \subseteq Players /\ abandoned \in 0 .. MaxAbandoned

\* The inductive invariant, by the part of the system it is about.
IInv == DatabaseGood /\ RequestsGood /\ CopiesGood /\ SavesGood /\ HistoryGood

LEMMA IInvImplies == IInv => TypeOK /\ DatabaseCoherent /\ FullRoomStarted
<1> SUFFICES ASSUME IInv PROVE TypeOK /\ DatabaseCoherent /\ FullRoomStarted
  OBVIOUS
<1>1. IsRow(row) /\ (row # NoRow => Coherent(row) /\ StartedIfFull(row))
  BY DEF IInv, DatabaseGood, GoodRow, Storable, GoodGame, IsRow
<1>2. \A h \in Handlers : /\ copy[h] = Session(copy[h].game, copy[h].moveHistory)
                          /\ IsRow(copy[h].game)
                          /\ copy[h].game # NoRow => Coherent(copy[h].game)
                          /\ IsMoveList(copy[h].moveHistory)
  BY DEF IInv, CopiesGood, CopyGood, GoodRow, Storable, GoodGame, IsRow
<1>3. copy = [h \in Handlers |-> Session(copy[h].game, copy[h].moveHistory)]
  BY <1>2 DEF IInv, CopiesGood
<1>4. TypeOK
  BY <1>1, <1>2, <1>3 DEF IInv, TypeOK, DatabaseGood, RequestsGood, HistoryGood
<1> QED BY <1>1, <1>2, <1>4 DEF DatabaseCoherent, FullRoomStarted, StartedIfFull

-----------------------------------------------------------------------------
(* What a request carries and what a handler reads. *)

LEMMA RequestType ==
  ASSUME RequestsGood, NEW h \in Handlers, request[h].kind # "none"
  PROVE  /\ Player(h) \in Players
         /\ request[h].kind = "move" => request[h].move \in Moves
<1>1. request[h] \in Requests
  BY DEF RequestsGood, NoRequest, Request
<1> QED BY <1>1 DEF Requests, Request, MoveRequest, Player, Kinds

LEMMA GameIsNoRow == ASSUME NEW g, IsGame(g) PROVE g # NoRow
  BY DEF IsGame, NoRow, SessionStates

LEMMA NoSessionGood ==
  CopyGood(NoSession) /\ NoSession.game = NoRow /\ SameRoom(NoRow)
  BY NoMovesType DEF CopyGood, NoSession, Session, GoodRow, SameRoom

\* A copy that has been found is a storable game.
LEMMA FoundGood ==
  ASSUME IInv, NEW h \in Handlers, Found(h)
  PROVE  /\ Storable(copy[h].game) /\ GoodGame(copy[h].game)
         /\ row # NoRow /\ copy[h].game.white = row.white
  BY DEF IInv, CopiesGood, CopyGood, GoodRow, Storable, SameRoom, Found

LEMMA SeatType ==
  ASSUME NEW h \in Handlers, Seat(h) # "null" PROVE Seat(h) \in Colours
  BY DEF Seat, SeatOf, Colours

-----------------------------------------------------------------------------
(* What the building blocks of a handler preserve. *)

\* A handler gets a new copy of the same room.
LEMMA NewCopyGood ==
  ASSUME CopiesGood, NEW h \in Handlers, NEW s, CopyGood(s), SameRoom(s.game),
         copy' = [copy EXCEPT ![h] = s], row' = row
  PROVE  /\ CopiesGood'
         /\ \A i \in Handlers : copy'[i] = IF i = h THEN s ELSE copy[i]
<1>1. copy' = [i \in Handlers |-> IF i = h THEN s ELSE copy[i]]
  BY DEF CopiesGood
<1>2. \A i \in Handlers : copy'[i] = IF i = h THEN s ELSE copy[i]
  BY <1>1
<1>3. copy' = [i \in Handlers |-> copy'[i]]
  BY <1>1, <1>2
<1>4. \A i \in Handlers : CopyGood(copy'[i])
  BY <1>2 DEF CopiesGood
<1>5. \A i \in Handlers : SameRoom(copy'[i].game)
  BY <1>2 DEF CopiesGood
<1>6. (\A i \in Handlers : SameRoom(copy[i].game))'
  BY <1>5 DEF SameRoom
<1>7. (\A i \in Handlers : CopyGood(copy[i]))'
  BY <1>4 DEF CopyGood, GoodRow, Storable, GoodGame, StartedIfFull
<1> QED BY <1>2, <1>3, <1>6, <1>7 DEF CopiesGood

LEMMA SaveSessionGood ==
  ASSUME IInv, NEW h \in Handlers, NEW g, Storable(g),
         row # NoRow => g.white = row.white,
         SaveSession(h, g)
  PROVE  IInv'
<1>1. g # NoRow /\ row' = g
  BY GameIsNoRow DEF Storable, GoodGame, SaveSession
<1> DEFINE s == [copy[h] EXCEPT !.game = g]
<1>2. CopyGood(s) /\ s.game = g
  BY DEF IInv, CopiesGood, CopyGood, Session, GoodRow
<1>3. copy' = [i \in Handlers |-> IF i = h THEN s ELSE copy[i]]
  BY DEF IInv, CopiesGood, SaveSession
<1> HIDE DEF s
<1>4. \A i \in Handlers : copy'[i] = IF i = h THEN s ELSE copy[i]
  BY <1>3
<1>5. copy' = [i \in Handlers |-> copy'[i]]
  BY <1>3, <1>4
<1>6. (\A i \in Handlers : CopyGood(copy[i]))'
  BY <1>2, <1>4 DEF IInv, CopiesGood
<1>7. (\A i \in Handlers : SameRoom(copy[i].game))'
  BY <1>1, <1>2, <1>4 DEF IInv, CopiesGood, SameRoom
<1>8. DatabaseGood'
  BY <1>1 DEF IInv, DatabaseGood, GoodRow, SaveSession
<1>9. RequestsGood' /\ HistoryGood'
  BY DEF IInv, RequestsGood, HistoryGood, SaveSession, Places
<1>10. SavesGood'
  BY <1>1, <1>2, <1>4 DEF IInv, SavesGood, RequestsGood, SaveSession
<1> QED BY <1>5, <1>6, <1>7, <1>8, <1>9, <1>10 DEF IInv, CopiesGood

LEMMA EndRequestGood ==
  ASSUME IInv, NEW h \in Handlers, EndRequest(h), UNCHANGED database, HistoryGood'
  PROVE  IInv'
<1>1. /\ CopiesGood'
      /\ \A i \in Handlers : copy'[i] = IF i = h THEN NoSession ELSE copy[i]
  BY NoSessionGood, NewCopyGood DEF IInv, EndRequest, database
<1>2. RequestsGood'
  BY DEF IInv, RequestsGood, EndRequest, Places
<1>3. SavesGood'
  BY <1>1 DEF IInv, SavesGood, RequestsGood, EndRequest
<1>4. DatabaseGood'
  BY DEF IInv, DatabaseGood, database
<1> QED BY <1>1, <1>2, <1>3, <1>4 DEF IInv
-----------------------------------------------------------------------------
(* Every step preserves the invariant. *)

LEMMA InitIInv == Init => IInv
<1> SUFFICES ASSUME Init PROVE IInv
  OBVIOUS
<1>1. DatabaseGood
  BY NoMovesType DEF Init, DatabaseGood, GoodRow
<1>2. RequestsGood
  BY DEF Init, RequestsGood, Places
<1>3. CopiesGood
  BY NoSessionGood DEF Init, CopiesGood
<1> QED BY <1>1, <1>2, <1>3, ServiceBoundsAssumption
        DEF Init, IInv, SavesGood, HistoryGood

\* A request begins and reads.
LEMMA ReadIInv ==
  ASSUME IInv, NEW h \in Handlers,
         \/ \E r \in Requests : Receive(h, r)
         \/ ReadGame(h)
         \/ ReadMoves(h)
  PROVE  IInv'
<1>1. ASSUME NEW r \in Requests, Receive(h, r) PROVE IInv'
  <2>1. RequestsGood' /\ SavesGood'
    BY <1>1 DEF IInv, RequestsGood, SavesGood, Receive, Places
  <2>2. DatabaseGood' /\ CopiesGood' /\ HistoryGood'
    BY <1>1 DEF IInv, Receive, database, DatabaseGood, CopiesGood, SameRoom, HistoryGood
  <2> QED BY <2>1, <2>2 DEF IInv
<1>2. CASE ReadGame(h)
  <2> DEFINE s == Session(row, NoMoves)
  <2>1. CopyGood(s) /\ s.game = row /\ SameRoom(s.game)
    BY NoMovesType DEF IInv, DatabaseGood, CopyGood, Session, SameRoom
  <2>2. copy' = [copy EXCEPT ![h] = s] /\ row' = row
    BY <1>2 DEF ReadGame, database
  <2> HIDE DEF s
  <2>3. CopiesGood' /\ \A i \in Handlers : copy'[i] = IF i = h THEN s ELSE copy[i]
    BY <2>1, <2>2, NewCopyGood DEF IInv
  <2>4. RequestsGood' /\ DatabaseGood' /\ HistoryGood'
    BY <1>2 DEF IInv, ReadGame, RequestsGood, Places, DatabaseGood, HistoryGood, database
  <2>5. SavesGood'
    BY <1>2, <2>3 DEF IInv, SavesGood, RequestsGood, ReadGame
  <2> QED BY <2>3, <2>4, <2>5 DEF IInv
<1>3. CASE ReadMoves(h)
  <2> DEFINE s == [copy[h] EXCEPT !.moveHistory = moveRows]
  <2>1. CopyGood(s) /\ s.game = copy[h].game /\ SameRoom(s.game)
    BY DEF IInv, DatabaseGood, CopiesGood, CopyGood, Session
  <2>2. copy' = [copy EXCEPT ![h] = s] /\ row' = row
    BY <1>3 DEF ReadMoves, database
  <2> HIDE DEF s
  <2>3. CopiesGood' /\ \A i \in Handlers : copy'[i] = IF i = h THEN s ELSE copy[i]
    BY <2>1, <2>2, NewCopyGood DEF IInv
  <2>4. RequestsGood' /\ DatabaseGood' /\ HistoryGood'
    BY <1>3 DEF IInv, ReadMoves, RequestsGood, Places, DatabaseGood, HistoryGood, database
  <2>5. SavesGood'
    BY <1>3, <2>3 DEF IInv, SavesGood, RequestsGood, ReadMoves
  <2> QED BY <2>3, <2>4, <2>5 DEF IInv
<1> QED BY <1>1, <1>2, <1>3

\* A request that stores the row at once.
LEMMA StoreIInv ==
  ASSUME IInv, NEW h \in Handlers,
         \/ CreateGame(h) \/ JoinGame(h) \/ ResumeGame(h) \/ DisconnectPlayer(h)
         \/ ResignGame(h) \/ AskRematch(h)
  PROVE  IInv'
<1> DEFINE g == copy[h].game
<1>1. CASE CreateGame(h)
  <2>1. Player(h) \in Players
    BY <1>1, RequestType DEF IInv, CreateGame, Decides
  <2>2. Storable(CreatedBy(Player(h)))
    BY <2>1, CreatedGood DEF Storable, StartedIfFull, CreatedBy
  <2> QED BY <1>1, <2>2, SaveSessionGood DEF CreateGame, InsertSession
<1>2. CASE JoinGame(h)
  <2>1. Player(h) \in Players
    BY <1>2, RequestType DEF IInv, JoinGame, Decides
  <2>2. /\ GoodGame(g) /\ CanJoinSession(g)
        /\ row # NoRow /\ g.white = row.white
    BY <1>2, FoundGood DEF JoinGame, MayJoin
  <2> HIDE DEF g
  <2>3. GoodGame(Seated(g, Player(h)))
    BY <2>1, <2>2, SeatedGood
  <2>4. IsReadyToStart(Seated(g, Player(h))) /\ Seated(g, Player(h)).white = g.white
    BY <2>1, <2>2, NoPlayerAssumption
    DEF IsReadyToStart, Seated, CanJoinSession, GoodGame, IsGame
  <2>5. GoodGame(Started(Seated(g, Player(h))))
    BY <2>3, <2>4, StartedGood
  <2>6. /\ Started(Seated(g, Player(h))).white = g.white
        /\ StartedIfFull(Started(Seated(g, Player(h))))
    BY <2>2 DEF Started, Seated, StartedIfFull, GoodGame, IsGame
  <2> QED BY <1>2, <2>2, <2>5, <2>6, SaveSessionGood DEF JoinGame, Storable, g
<1>3. CASE ResumeGame(h) \/ DisconnectPlayer(h)
  BY <1>3, FoundGood, SaveSessionGood DEF ResumeGame, DisconnectPlayer, IsSeated
<1>4. CASE ResignGame(h)
  <2>1. /\ GoodGame(g) /\ g.state = "IN_PROGRESS" /\ Seat(h) \in Colours
        /\ row # NoRow /\ g.white = row.white
    BY <1>4, FoundGood, SeatType DEF ResignGame, MayResign, IsSeated
  <2> HIDE DEF g
  <2>2. GoodGame(Resigned(g, Seat(h)))
    BY <2>1, ResignedGood
  <2>3. Resigned(g, Seat(h)).white = g.white /\ StartedIfFull(Resigned(g, Seat(h)))
    BY <2>1 DEF Resigned, StartedIfFull, GoodGame, IsGame
  <2> QED BY <1>4, <2>1, <2>2, <2>3, SaveSessionGood DEF ResignGame, Storable, g
<1>5. CASE AskRematch(h)
  <2>1. /\ GoodGame(g) /\ g.state = "FINISHED" /\ Seat(h) \in Colours
        /\ ~ BothPlayersAccepted(RematchAsked(g, Seat(h)))
        /\ row # NoRow /\ g.white = row.white
    BY <1>5, FoundGood, SeatType DEF AskRematch, MayAskRematch, IsSeated, Asked
  <2> HIDE DEF g
  <2>2. GoodGame(RematchAsked(g, Seat(h)))
    BY <2>1, RematchAskedGood
  <2>3. /\ RematchAsked(g, Seat(h)).white = g.white
        /\ StartedIfFull(RematchAsked(g, Seat(h)))
    BY <2>1 DEF RematchAsked, StartedIfFull, GoodGame, IsGame
  <2> QED BY <1>5, <2>1, <2>2, <2>3, SaveSessionGood DEF AskRematch, Asked, Storable, g
<1> QED BY <1>1, <1>2, <1>3, <1>4, <1>5

\* The first query of a request of two queries.
LEMMA FirstQueryIInv ==
  ASSUME IInv, NEW h \in Handlers, SubmitMove(h) \/ AcceptRematch(h)
  PROVE  IInv'
<1> DEFINE g == copy[h].game
<1>1. /\ Found(h) /\ GoodGame(g) /\ row # NoRow /\ g.white = row.white
      /\ IsMoveList(copy[h].moveHistory) /\ IsMoveList(moveRows)
  BY FoundGood
  DEF SubmitMove, MayMove, AcceptRematch, MayAskRematch, IsSeated, IInv, CopiesGood,
      CopyGood, DatabaseGood
<1>2. ASSUME NEW s, CopyGood(s), s.game # NoRow, s.game.white = g.white,
             copy' = [copy EXCEPT ![h] = s],
             NEW p \in {"moveSave", "rematchSave"}, at' = [at EXCEPT ![h] = p],
             IsMoveList(moveRows'), row' = row, request' = request,
             joined' = joined, abandoned' = abandoned
      PROVE  IInv'
  <2>1. SameRoom(s.game)
    BY <1>1, <1>2 DEF SameRoom
  <2>2. CopiesGood' /\ \A i \in Handlers : copy'[i] = IF i = h THEN s ELSE copy[i]
    BY <1>2, <2>1, NewCopyGood DEF IInv
  <2>3. RequestsGood' /\ DatabaseGood' /\ HistoryGood'
    BY <1>2 DEF IInv, RequestsGood, Places, DatabaseGood, HistoryGood
  <2>4. SavesGood'
    BY <1>2, <2>2 DEF IInv, SavesGood, RequestsGood
  <2> QED BY <2>2, <2>3, <2>4 DEF IInv
<1>3. CASE SubmitMove(h)
  <2> DEFINE m == request[h].move
             after == Completed(Moved(g, m), m)
             s == Session(after, WithMove(copy[h].moveHistory, after.revision, m))
  <2>1. m \in Moves /\ CanSubmitMove(g)
    BY <1>3, RequestType DEF IInv, SubmitMove, Decides, MayMove
  <2>2. GoodGame(after)
    BY <1>1, <2>1, CompletedGood
  <2>3. after.revision = g.revision + 1 /\ after.white = g.white
        /\ after.state # "WAITING_FOR_PLAYERS"
    BY <1>1, <2>1 DEF Completed, Moved, GoodGame, IsGame, CanSubmitMove
  <2>4. after.revision \in Nat \ {0}
    BY <1>1, <2>3 DEF GoodGame, IsGame
  <2>5. copy' = [copy EXCEPT ![h] = s] /\ moveRows' = WithMove(moveRows, after.revision, m)
    BY <1>3 DEF SubmitMove
  <2> HIDE DEF after, m, g
  <2>6. /\ IsMoveList(WithMove(copy[h].moveHistory, after.revision, m))
        /\ IsMoveList(moveRows')
    BY <1>1, <2>1, <2>4, <2>5, WithMoveType
  <2>7. Storable(after) /\ after # NoRow
    BY <2>2, <2>3, GameIsNoRow DEF Storable, StartedIfFull, GoodGame
  <2>8. CopyGood(s) /\ s.game = after
    BY <2>6, <2>7 DEF CopyGood, Session, GoodRow
  <2> HIDE DEF s
  <2> QED BY <1>2, <1>3, <2>3, <2>5, <2>6, <2>7, <2>8 DEF SubmitMove
<1>4. CASE AcceptRematch(h)
  <2> DEFINE s == Session(RematchStarted(g), NoMoves)
  <2>1. GoodGame(RematchStarted(g))
    BY <1>1, <1>4, RematchStartedGood DEF AcceptRematch, MayAskRematch
  <2>2. /\ RematchStarted(g).white = g.white
        /\ RematchStarted(g).state = "IN_PROGRESS"
    BY <1>1 DEF RematchStarted, GoodGame, IsGame
  <2>3. Storable(RematchStarted(g)) /\ RematchStarted(g) # NoRow
    BY <2>1, <2>2, GameIsNoRow DEF Storable, StartedIfFull, GoodGame
  <2>4. CopyGood(s) /\ s.game = RematchStarted(g)
    BY <2>3, NoMovesType DEF CopyGood, Session, GoodRow
  <2>5. copy' = [copy EXCEPT ![h] = s] /\ IsMoveList(moveRows')
    BY <1>4, NoMovesType DEF AcceptRematch
  <2> HIDE DEF s, g
  <2> QED BY <1>2, <1>4, <2>2, <2>3, <2>4, <2>5 DEF AcceptRematch
<1> QED BY <1>3, <1>4

\* The second query.
LEMMA SecondQueryIInv ==
  ASSUME IInv, NEW h \in Handlers, SaveMove(h) \/ SaveRematch(h)
  PROVE  IInv'
<1>1. Found(h) /\ SaveSession(h, copy[h].game)
  BY DEF IInv, SavesGood, SaveMove, SaveRematch, Found
<1> QED BY <1>1, FoundGood, SaveSessionGood

\* A request ends.
LEMMA EndIInv ==
  ASSUME IInv, NEW h \in Handlers,
         Answer(h) \/ Refuse(h) \/ FailInsert(h) \/ Abandon(h)
  PROVE  IInv'
<1>1. HistoryGood'
  <2>1. CASE Answer(h)
    <3>1. request[h].kind = "join" => Player(h) \in Players
      BY RequestType DEF IInv
    <3> QED BY <2>1, <3>1 DEF Answer, IInv, HistoryGood
  <2>2. CASE Refuse(h) \/ FailInsert(h)
    BY <2>2 DEF Refuse, FailInsert, IInv, HistoryGood
  <2>3. CASE Abandon(h)
    BY <2>3, ServiceBoundsAssumption DEF Abandon, IInv, HistoryGood
  <2> QED BY <2>1, <2>2, <2>3
<1>2. EndRequest(h) /\ UNCHANGED database
  BY DEF Answer, Refuse, FailInsert, Abandon
<1> QED BY <1>1, <1>2, EndRequestGood

LEMMA NextIInv == IInv /\ [Next]_vars => IInv'
<1> SUFFICES ASSUME IInv, [Next]_vars PROVE IInv'
  OBVIOUS
<1>1. ASSUME NEW h \in Handlers,
             (\E r \in Requests : Receive(h, r)) \/ Serve(h) \/ Abandon(h)
      PROVE  IInv'
  BY <1>1, ReadIInv, StoreIInv, FirstQueryIInv, SecondQueryIInv, EndIInv DEF Serve
<1>2. CASE UNCHANGED vars
  BY <1>2 DEF vars, database, handlers, IInv, DatabaseGood, RequestsGood, CopiesGood,
              SameRoom, SavesGood, HistoryGood
<1> QED BY <1>1, <1>2 DEF Next

LEMMA IInvHolds == Spec => []IInv
BY InitIInv, NextIInv, PTL DEF Spec

-----------------------------------------------------------------------------
(* The results. *)

\* Every variable has its type (session/index.js and game/index.js, whatever
\* overlaps).
THEOREM TypeCorrect == Spec => []TypeOK
BY IInvHolds, IInvImplies, PTL

\* The row and every copy are coherent games, although two services write the
\* row back without a transaction.
THEOREM DatabaseAlwaysCoherent == Spec => []DatabaseCoherent
BY IInvHolds, IInvImplies, PTL

\* A room with two players has been started: no failure and no stale save
\* leaves a full room waiting (session/index.js:122-128).
THEOREM FullRoomAlwaysStarted == Spec => []FullRoomStarted
BY IInvHolds, IInvImplies, PTL

\* A step of a request changes the row to a game of the same creator.
LEMMA RowStep ==
  ASSUME IInv, IInv', [Next]_vars, row # NoRow
  PROVE  row' # NoRow /\ row'.white = row.white
<1>1. ASSUME NEW h \in Handlers, NEW g, SaveSession(h, g),
             g # NoRow, g.white = row.white
      PROVE  row' # NoRow /\ row'.white = row.white
  BY <1>1 DEF SaveSession
<1>2. CASE row' = row
  BY <1>2
<1>3. ASSUME NEW h \in Handlers, NEW g, SaveSession(h, g), g # NoRow,
             Found(h), g.white = copy[h].game.white
      PROVE  row' # NoRow /\ row'.white = row.white
  BY <1>1, <1>3, FoundGood
<1>4. ASSUME NEW h \in Handlers, Serve(h) PROVE row' # NoRow /\ row'.white = row.white
  <2> DEFINE g == copy[h].game
  <2>1. Found(h) => IsGame(g) /\ g # NoRow
    BY FoundGood, GameIsNoRow DEF GoodGame
  <2>2. CASE JoinGame(h)
    BY <1>3, <2>1, <2>2, GameIsNoRow DEF JoinGame, MayJoin, Seated, Started, IsGame, NoRow
  <2>3. CASE ResumeGame(h) \/ DisconnectPlayer(h)
    BY <1>3, <2>1, <2>3 DEF ResumeGame, DisconnectPlayer, IsSeated
  <2>4. CASE ResignGame(h)
    BY <1>3, <2>1, <2>4 DEF ResignGame, MayResign, IsSeated, Resigned, IsGame, NoRow
  <2>5. CASE AskRematch(h)
    BY <1>3, <2>1, <2>5 DEF AskRematch, MayAskRematch, IsSeated, Asked, RematchAsked,
                            IsGame, NoRow, SessionStates
  <2>6. CASE SaveMove(h) \/ SaveRematch(h)
    <3>1. Found(h) /\ SaveSession(h, g)
      BY <2>6 DEF IInv, SavesGood, SaveMove, SaveRematch, Found
    <3> QED BY <1>3, <2>1, <3>1
  <2>7. CASE ~ (\/ JoinGame(h) \/ ResumeGame(h) \/ DisconnectPlayer(h)
                \/ ResignGame(h) \/ AskRematch(h) \/ SaveMove(h) \/ SaveRematch(h))
    BY <1>4, <2>7 DEF Serve, ReadGame, ReadMoves, CreateGame, InsertSession, AcceptRematch,
                      SubmitMove, Answer, Refuse, FailInsert, database
  <2> QED BY <2>2, <2>3, <2>4, <2>5, <2>6, <2>7
<1>5. CASE \E h \in Handlers : (\E r \in Requests : Receive(h, r)) \/ Abandon(h)
  BY <1>5 DEF Receive, Abandon, database
<1>6. CASE UNCHANGED vars
  BY <1>6 DEF vars, database
<1> QED BY <1>4, <1>5, <1>6 DEF Next

\* A room is created once and keeps its creator, whatever overlaps.
THEOREM CreatorAlwaysKeepsWhite == Spec => CreatorKeepsWhite
<1>1. IInv /\ IInv' /\ [Next]_vars =>
        [row # NoRow => row' # NoRow /\ row'.white = row.white]_vars
  BY RowStep
<1> QED BY <1>1, IInvHolds, PTL DEF Spec, CreatorKeepsWhite

-----------------------------------------------------------------------------
(* A settled guest. *)

\* What a join is about to answer is what it has stored.
JoinAnswered ==
  \A h \in Handlers : request[h].kind = "join" =>
    /\ at[h] \notin {"moveSave", "rematchSave"}
    /\ at[h] = "answer" => copy[h].game # NoRow /\ copy[h].game.black = Player(h)

\* What a request stores, when nothing but its own place and copy changes.
LEMMA SaveSessionCopies ==
  ASSUME IInv, NEW h \in Handlers, NEW g, SaveSession(h, g)
  PROVE  /\ \A i \in Handlers : copy'[i].game = IF i = h THEN g ELSE copy[i].game
         /\ \A i \in Handlers : at'[i] = IF i = h THEN "answer" ELSE at[i]
         /\ row' = g /\ request' = request /\ joined' = joined
<1>1. copy' = [copy EXCEPT ![h].game = g] /\ CopyGood(copy[h])
  BY DEF SaveSession, IInv, CopiesGood
<1> DEFINE s == [copy[h] EXCEPT !.game = g]
<1>2. s.game = g
  BY <1>1 DEF CopyGood, Session
<1>3. copy' = [i \in Handlers |-> IF i = h THEN s ELSE copy[i]]
  BY DEF IInv, CopiesGood, SaveSession
<1> HIDE DEF s
<1>4. \A i \in Handlers : copy'[i].game = IF i = h THEN g ELSE copy[i].game
  BY <1>2, <1>3
<1> QED BY <1>4 DEF SaveSession, IInv, RequestsGood

\* The black player of what a join stores.
LEMMA JoinSeats ==
  ASSUME IInv, NEW h \in Handlers, JoinGame(h)
  PROVE  LET g == Started(Seated(copy[h].game, Player(h)))
         IN g # NoRow /\ g.black = Player(h) /\ SaveSession(h, g)
<1>1. IsGame(copy[h].game)
  BY FoundGood DEF JoinGame, MayJoin, GoodGame
<1> QED BY <1>1 DEF JoinGame, Started, Seated, IsGame, NoRow

LEMMA InitJoinAnswered == Init => JoinAnswered
BY DEF Init, JoinAnswered

LEMMA NextJoinAnswered == IInv /\ JoinAnswered /\ [Next]_vars => JoinAnswered'
<1> SUFFICES ASSUME IInv, JoinAnswered, [Next]_vars PROVE JoinAnswered'
  OBVIOUS
<1>1. CASE UNCHANGED vars
  BY <1>1 DEF vars, handlers, JoinAnswered, Player
<1>2. ASSUME NEW h \in Handlers, NEW g, SaveSession(h, g),
             request[h].kind = "join" => g # NoRow /\ g.black = Player(h)
      PROVE  JoinAnswered'
  <2>1. /\ \A i \in Handlers : copy'[i].game = IF i = h THEN g ELSE copy[i].game
        /\ \A i \in Handlers : at'[i] = IF i = h THEN "answer" ELSE at[i]
        /\ request' = request
    BY <1>2, SaveSessionCopies
  <2> QED BY <1>2, <2>1 DEF JoinAnswered, Player
<1>3. ASSUME NEW h \in Handlers,
             /\ \A i \in Handlers \ {h} :
                  /\ at'[i] = at[i] /\ request'[i] = request[i]
                  /\ copy'[i] = copy[i]
             /\ request'[h].kind = "join" =>
                  at'[h] \notin {"moveSave", "rematchSave", "answer"}
      PROVE  JoinAnswered'
  <2>1. ASSUME NEW i \in Handlers, i # h, request'[i].kind = "join"
        PROVE  /\ at'[i] \notin {"moveSave", "rematchSave"}
               /\ at'[i] = "answer" =>
                    copy'[i].game # NoRow /\ copy'[i].game.black = request'[i].player
    BY <1>3, <2>1 DEF JoinAnswered, Player
  <2> QED BY <1>3, <2>1 DEF JoinAnswered, Player
<1> DEFINE Typed == /\ request \in [Handlers -> Requests \cup {NoRequest}]
                    /\ at \in [Handlers -> Places]
                    /\ copy = [i \in Handlers |-> copy[i]]
<1>4. Typed
  BY DEF IInv, RequestsGood, CopiesGood
<1>5. ASSUME NEW h \in Handlers, EndRequest(h) PROVE JoinAnswered'
  BY <1>3, <1>4, <1>5 DEF EndRequest, NoRequest, Request
<1>6. ASSUME NEW h \in Handlers, NEW r \in Requests, Receive(h, r) PROVE JoinAnswered'
  BY <1>3, <1>4, <1>6 DEF Receive
<1>7. ASSUME NEW h \in Handlers, ReadGame(h) \/ ReadMoves(h) PROVE JoinAnswered'
  BY <1>3, <1>4, <1>7 DEF ReadGame, ReadMoves
<1>8. ASSUME NEW h \in Handlers, AcceptRematch(h) \/ SubmitMove(h) PROVE JoinAnswered'
  BY <1>3, <1>4, <1>8 DEF AcceptRematch, SubmitMove, Decides
<1>9. ASSUME NEW h \in Handlers, JoinGame(h) PROVE JoinAnswered'
  BY <1>2, <1>9, JoinSeats
<1>10. ASSUME NEW h \in Handlers,
              \/ CreateGame(h) \/ ResumeGame(h) \/ DisconnectPlayer(h)
              \/ ResignGame(h) \/ AskRematch(h)
       PROVE  JoinAnswered'
  BY <1>2, <1>10 DEF CreateGame, InsertSession, ResumeGame, DisconnectPlayer, ResignGame,
                     AskRematch, Decides
<1>11. ASSUME NEW h \in Handlers, SaveRematch(h) \/ SaveMove(h) PROVE JoinAnswered'
  BY <1>2, <1>11 DEF SaveRematch, SaveMove, JoinAnswered
<1>12. ASSUME NEW h \in Handlers, Serve(h) PROVE JoinAnswered'
  BY <1>5, <1>7, <1>8, <1>9, <1>10, <1>11, <1>12 DEF Serve, Answer, Refuse, FailInsert
<1> QED BY <1>1, <1>5, <1>6, <1>12 DEF Next, Abandon

\* A step while p is settled.
LEMMA SettledStep ==
  ASSUME IInv, JoinAnswered, [Next]_vars, NEW p \in Players, Settled(p)
  PROVE  Settled(p)' /\ joined' \subseteq joined \cup {p}
<1> DEFINE Typed == /\ request \in [Handlers -> Requests \cup {NoRequest}]
                    /\ at \in [Handlers -> Places]
                    /\ copy = [i \in Handlers |-> copy[i]]
<1>1. /\ Typed /\ row # NoRow /\ row.black = p
      /\ \A h \in Handlers : copy[h].game # NoRow => copy[h].game.black = p
  BY DEF IInv, RequestsGood, CopiesGood, Settled, Found
<1>2. CASE UNCHANGED vars
  BY <1>1, <1>2 DEF vars, database, handlers, Settled, Found
<1>3. ASSUME NEW h \in Handlers, NEW g, SaveSession(h, g), g # NoRow, g.black = p
      PROVE  Settled(p)' /\ joined' \subseteq joined \cup {p}
  <2>1. /\ \A i \in Handlers : copy'[i].game = IF i = h THEN g ELSE copy[i].game
        /\ row' = g /\ joined' = joined
    BY <1>3, SaveSessionCopies
  <2> QED BY <1>1, <1>3, <2>1 DEF Settled, Found
<1>4. ASSUME NEW h \in Handlers, row' = row,
             \A i \in Handlers \ {h} : copy'[i] = copy[i],
             copy'[h].game # NoRow => copy'[h].game.black = p
      PROVE  Settled(p)'
  BY <1>1, <1>4 DEF Settled, Found
<1>5. ASSUME NEW h \in Handlers, EndRequest(h), row' = row PROVE Settled(p)'
  BY <1>1, <1>4, <1>5 DEF EndRequest, NoSession, Session
<1>6. ASSUME NEW h \in Handlers, NEW r \in Requests, Receive(h, r)
      PROVE  Settled(p)' /\ joined' \subseteq joined \cup {p}
  BY <1>1, <1>6 DEF Receive, database, Settled, Found
<1>7. ASSUME NEW h \in Handlers, ReadGame(h) \/ ReadMoves(h)
      PROVE  Settled(p)' /\ joined' \subseteq joined \cup {p}
  <2>1. CASE ReadGame(h)
    BY <1>1, <1>4, <2>1 DEF ReadGame, Session, database
  <2>2. CASE ReadMoves(h)
    <3>1. copy'[h].game = copy[h].game
      BY <1>1, <2>2 DEF ReadMoves, IInv, CopiesGood, CopyGood, Session
    <3> QED BY <1>1, <1>4, <2>2, <3>1 DEF ReadMoves, database
  <2> QED BY <1>7, <2>1, <2>2
<1>8. ASSUME NEW h \in Handlers, AcceptRematch(h)
      PROVE  Settled(p)' /\ joined' \subseteq joined \cup {p}
  <2>1. IsGame(copy[h].game) /\ copy[h].game.black = p
    BY <1>1, <1>8, FoundGood DEF AcceptRematch, MayAskRematch, IsSeated, Found, GoodGame
  <2>2. copy'[h].game = RematchStarted(copy[h].game)
    BY <1>1, <1>8 DEF AcceptRematch, Session
  <2>3. RematchStarted(copy[h].game).black = p
    BY <2>1 DEF RematchStarted, IsGame
  <2> QED BY <1>1, <1>4, <1>8, <2>2, <2>3 DEF AcceptRematch
<1>9. ASSUME NEW h \in Handlers, SubmitMove(h)
      PROVE  Settled(p)' /\ joined' \subseteq joined \cup {p}
  <2> DEFINE m == request[h].move
             after == Completed(Moved(copy[h].game, m), m)
  <2>1. IsGame(copy[h].game) /\ copy[h].game.black = p
    BY <1>1, <1>9, FoundGood DEF SubmitMove, MayMove, Found, GoodGame
  <2>2. copy'[h].game = after
    BY <1>1, <1>9 DEF SubmitMove, Session
  <2>3. after.black = p
    BY <2>1 DEF Completed, Moved, IsGame
  <2> QED BY <1>1, <1>4, <1>9, <2>2, <2>3 DEF SubmitMove
<1>10. ASSUME NEW h \in Handlers, CreateGame(h) \/ JoinGame(h) PROVE FALSE
  <2>1. ~ CreateGame(h)
    BY <1>1 DEF CreateGame, InsertSession
  <2>2. JoinGame(h) => copy[h].game.black = NoPlayer
    BY DEF JoinGame, MayJoin, CanJoinSession
  <2> QED BY <1>1, <1>10, <2>1, <2>2, NoPlayerAssumption DEF JoinGame, MayJoin, Found
<1>11. ASSUME NEW h \in Handlers,
              \/ ResumeGame(h) \/ DisconnectPlayer(h) \/ ResignGame(h) \/ AskRematch(h)
       PROVE  Settled(p)' /\ joined' \subseteq joined \cup {p}
  <2>1. IsGame(copy[h].game) /\ copy[h].game # NoRow /\ copy[h].game.black = p
    BY <1>1, <1>11, FoundGood
    DEF ResumeGame, DisconnectPlayer, ResignGame, MayResign, AskRematch, MayAskRematch,
        IsSeated, Found, GoodGame
  <2>2. CASE ResumeGame(h) \/ DisconnectPlayer(h)
    BY <1>3, <2>1, <2>2 DEF ResumeGame, DisconnectPlayer
  <2>3. CASE ResignGame(h)
    BY <1>3, <2>1, <2>3 DEF ResignGame, Resigned, IsGame, NoRow
  <2>4. CASE AskRematch(h)
    BY <1>3, <2>1, <2>4 DEF AskRematch, Asked, RematchAsked, IsGame, NoRow, SessionStates
  <2> QED BY <1>11, <2>2, <2>3, <2>4
<1>12. ASSUME NEW h \in Handlers, SaveMove(h) \/ SaveRematch(h)
       PROVE  Settled(p)' /\ joined' \subseteq joined \cup {p}
  <2>1. copy[h].game # NoRow /\ SaveSession(h, copy[h].game)
    BY <1>12 DEF IInv, SavesGood, SaveMove, SaveRematch
  <2> QED BY <1>1, <1>3, <2>1
<1>13. ASSUME NEW h \in Handlers, Answer(h)
       PROVE  Settled(p)' /\ joined' \subseteq joined \cup {p}
  <2>1. request[h].kind = "join" => Player(h) = p
    BY <1>1, <1>13 DEF Answer, JoinAnswered
  <2> QED BY <1>5, <1>13, <2>1 DEF Answer, database
<1>14. ASSUME NEW h \in Handlers, Refuse(h) \/ FailInsert(h) \/ Abandon(h)
       PROVE  Settled(p)' /\ joined' \subseteq joined \cup {p}
  BY <1>5, <1>14 DEF Refuse, FailInsert, Abandon, database
<1>15. ASSUME NEW h \in Handlers, Serve(h)
       PROVE  Settled(p)' /\ joined' \subseteq joined \cup {p}
  BY <1>7, <1>8, <1>9, <1>10, <1>11, <1>12, <1>13, <1>14, <1>15 DEF Serve
<1> QED BY <1>2, <1>6, <1>14, <1>15 DEF Next

\* A guest whose seat no request in progress has missed keeps it for good, and is
\* the only one still told GAME_JOINED (session/index.js:98-128).
THEOREM SettledGuestAlwaysStays == Spec => SettledGuestStays
<1>1. Spec => []JoinAnswered
  BY InitJoinAnswered, NextJoinAnswered, IInvHolds, PTL DEF Spec
<1>2. IInv /\ JoinAnswered /\ [Next]_vars =>
        [\A p \in Players :
           Settled(p) => Settled(p)' /\ joined' \subseteq joined \cup {p}]_vars
  BY SettledStep
<1> QED BY <1>1, <1>2, IInvHolds, PTL DEF Spec, SettledGuestStays
=============================================================================
