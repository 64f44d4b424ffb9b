--------------------------- MODULE MonolithProofs ---------------------------
(***************************************************************************)
(* For any number of overlapping requests, crashes and lost connections:   *)
(* the session object, the row and every row value on its way to the       *)
(* database stay well-typed and coherent.                                  *)
(*                                                                         *)
(* The three invariants are proved together, because each needs the        *)
(* others: a restart makes the row the session object, an UPDATE makes the *)
(* values of a query the row, and those values are the object as it was    *)
(* when the query was sent.  How the database follows the memory, and what *)
(* a crash leaves of it, is proved at the end, for requests that do not    *)
(* overlap.                                                                *)
(***************************************************************************)
EXTENDS MonolithProperties, GameSessionProofs

QueryGood(q) == QueryOk(q) /\ (q.kind = "update" => Coherent(q.values))

MemoryGood ==
  GoodGame(game) /\ IsMoveList(moveHistory) /\ connected \in [Colours -> BOOLEAN]
DatabaseGood == GoodGame(row) /\ IsMoveList(moveRows)
RequestsGood ==
  /\ at \in [Handlers -> Awaits \cup {"idle"}]
  /\ query = [h \in Handlers |-> query[h]]
  /\ \A h \in Handlers : QueryGood(query[h])
FaultsGood == crashes \in Nat /\ failures \in 0 .. MaxFailures

\* The inductive invariant, by the part of the system it is about.
IInv == MemoryGood /\ DatabaseGood /\ RequestsGood /\ FaultsGood

LEMMA IInvImplies == IInv => TypeOK /\ GameCoherent /\ DatabaseCoherent
  BY DEF IInv, MemoryGood, DatabaseGood, RequestsGood, FaultsGood, GoodGame,
         QueryGood, TypeOK, GameCoherent, DatabaseCoherent

-----------------------------------------------------------------------------
(* What the building blocks of a handler preserve. *)

LEMMA SettledGood == QueryGood(Done) /\ QueryGood(Failed) /\ QueryGood(Delete)
  BY DEF QueryGood, QueryOk, Done, Failed, Delete

LEMMA UpdateGood == ASSUME NEW g, GoodGame(g) PROVE QueryGood(Update(g))
  BY DEF QueryGood, QueryOk, Update, GoodGame

LEMMA InsertGood ==
  ASSUME NEW r \in Nat \ {0}, NEW m \in Moves PROVE QueryGood(Insert(r, m))
  BY DEF QueryGood, QueryOk, Insert

LEMMA AwaitGood ==
  ASSUME RequestsGood, NEW h \in Handlers, NEW a \in Awaits, NEW q, QueryGood(q),
         Await(h, a, q)
  PROVE  RequestsGood'
<1>1. at' \in [Handlers -> Awaits \cup {"idle"}]
  BY DEF RequestsGood, Await
<1>2. query' = [i \in Handlers |-> IF i = h THEN q ELSE query[i]]
  BY DEF RequestsGood, Await
<1>3. \A i \in Handlers : query'[i] = IF i = h THEN q ELSE query[i]
  BY <1>2
<1>4. query' = [i \in Handlers |-> query'[i]]
  BY <1>2, <1>3
<1>5. \A i \in Handlers : QueryGood(query'[i])
  BY <1>3 DEF RequestsGood
<1> QED BY <1>1, <1>4, <1>5 DEF RequestsGood, QueryGood, QueryOk

LEMMA SaveSessionGood ==
  ASSUME RequestsGood, MemoryGood', NEW h \in Handlers, NEW a \in Awaits,
         SaveSession(h, a)
  PROVE  RequestsGood'
<1>1. QueryGood(Update(game'))
  BY UpdateGood DEF MemoryGood
<1> QED BY <1>1, AwaitGood DEF SaveSession

\* A query that ends, and a request that ends with it or goes on waiting.
LEMMA SettleGood ==
  ASSUME RequestsGood, NEW h \in Handlers, NEW a \in Awaits \cup {"idle"},
         NEW q \in {Done, Failed},
         at' = [at EXCEPT ![h] = a], query' = [query EXCEPT ![h] = q]
  PROVE  RequestsGood'
<1>1. at' \in [Handlers -> Awaits \cup {"idle"}]
  BY DEF RequestsGood
<1>2. query' = [i \in Handlers |-> IF i = h THEN q ELSE query[i]]
  BY DEF RequestsGood
<1>3. \A i \in Handlers : query'[i] = IF i = h THEN q ELSE query[i]
  BY <1>2
<1>4. query' = [i \in Handlers |-> query'[i]]
  BY <1>2, <1>3
<1>5. \A i \in Handlers : QueryGood(query'[i])
  BY <1>3, SettledGood DEF RequestsGood
<1> QED BY <1>1, <1>4, <1>5 DEF RequestsGood, QueryGood, QueryOk

LEMMA EndRequestGood ==
  ASSUME RequestsGood, NEW h \in Handlers, EndRequest(h) PROVE RequestsGood'
BY SettleGood DEF EndRequest

LEMMA ApplyGood ==
  ASSUME DatabaseGood, NEW q, QueryGood(q), Apply(q) PROVE DatabaseGood'
<1>1. GoodGame(row')
  <2>1. CASE q.kind = "update"
    BY <2>1 DEF Apply, QueryGood, QueryOk, GoodGame, Insert, Delete, Done, Failed
  <2>2. CASE q.kind # "update"
    BY <2>2 DEF Apply, DatabaseGood
  <2> QED BY <2>1, <2>2
<1>2. IsMoveList(moveRows')
  <2>1. CASE q.kind = "insert"
    <3>1. q.revision \in Nat \ {0} /\ q.move \in Moves
      BY <2>1 DEF QueryGood, QueryOk, Update, Delete, Done, Failed
    <3>2. moveRows' = WithMove(moveRows, q.revision, q.move)
      BY <2>1 DEF Apply
    <3> QED BY <3>1, <3>2, WithMoveType DEF DatabaseGood
  <2>2. CASE q.kind = "delete"
    BY <2>2, NoMovesType DEF Apply
  <2>3. CASE q.kind \notin {"insert", "delete"}
    BY <2>3 DEF Apply, DatabaseGood
  <2> QED BY <2>1, <2>2, <2>3
<1> QED BY <1>1, <1>2 DEF DatabaseGood

LEMMA SeatOfType ==
  ASSUME NEW g, NEW p, SeatOf(g, p) # "null" PROVE SeatOf(g, p) \in Colours
BY DEF SeatOf, Colours

-----------------------------------------------------------------------------
(* Every step preserves the invariant. *)

LEMMA InitIInv == Init => IInv
<1> SUFFICES ASSUME Init PROVE IInv
  OBVIOUS
<1>1. MemoryGood
  BY CreatedGood, CreatorAssumption, NoMovesType DEF Init, MemoryGood
<1>2. DatabaseGood
  BY CreatedGood, CreatorAssumption, NoMovesType DEF Init, DatabaseGood
<1>3. RequestsGood
  BY SettledGood DEF Init, RequestsGood
<1>4. FaultsGood
  BY BoundsAssumption DEF Init, FaultsGood
<1> QED BY <1>1, <1>2, <1>3, <1>4 DEF IInv

LEMMA RequestIInv ==
  ASSUME IInv, NEW h \in Handlers, Request(h) PROVE IInv'
<1> USE DEF IInv
<1>1. ASSUME NEW p \in Players, JoinGame(h, p) PROVE IInv'
  <2>1. MemoryGood'
    BY <1>1, SeatedGood DEF JoinGame, MemoryGood, Colours
  <2>2. RequestsGood'
    BY <1>1, <2>1, SaveSessionGood DEF JoinGame, Awaits, SaveAwaits
  <2> QED
    BY <1>1, <2>1, <2>2 DEF JoinGame, database, faults, DatabaseGood, FaultsGood
<1>2. ASSUME NEW p \in Players, NEW m \in Moves, SubmitMove(h, p, m) PROVE IInv'
  <2>1. GoodGame(game') /\ game'.revision \in Nat \ {0}
    <3>1. GoodGame(game')
      BY <1>2, CompletedGood DEF SubmitMove, MemoryGood
    <3>2. Moved(game, m).revision = game.revision + 1 /\ game.revision \in Nat
          /\ IsGame(Moved(game, m))
      BY <1>2, MovedPosition DEF SubmitMove, MemoryGood, GoodGame, IsGame
    <3>3. game'.revision = Moved(game, m).revision
      BY <1>2, <3>2, OutcomeAssumption DEF SubmitMove, Completed, IsGame
    <3> QED BY <3>1, <3>2, <3>3
  <2>2. MemoryGood'
    BY <1>2, <2>1, WithMoveType DEF SubmitMove, MemoryGood
  <2>3. RequestsGood'
    BY <1>2, <2>1, InsertGood, AwaitGood DEF SubmitMove, Awaits
  <2> QED
    BY <1>2, <2>2, <2>3 DEF SubmitMove, database, faults, DatabaseGood, FaultsGood
<1>3. ASSUME NEW p \in Players, ResignGame(h, p) PROVE IInv'
  <2>1. MemoryGood'
    BY <1>3, SeatOfType, ResignedGood DEF ResignGame, MemoryGood
  <2>2. RequestsGood'
    BY <1>3, <2>1, SaveSessionGood DEF ResignGame, Awaits, SaveAwaits
  <2> QED
    BY <1>3, <2>1, <2>2 DEF ResignGame, database, faults, DatabaseGood, FaultsGood
<1>4. ASSUME NEW p \in Players, AskRematch(h, p) PROVE IInv'
  <2>1. MemoryGood'
    BY <1>4, SeatOfType, RematchAskedGood DEF AskRematch, MemoryGood
  <2>2. RequestsGood'
    BY <1>4, <2>1, SaveSessionGood DEF AskRematch, Awaits, SaveAwaits
  <2> QED
    BY <1>4, <2>1, <2>2 DEF AskRematch, database, faults, DatabaseGood, FaultsGood
<1>5. ASSUME NEW p \in Players, AcceptRematch(h, p) PROVE IInv'
  <2>1. MemoryGood'
    BY <1>5, RematchStartedGood, NoMovesType DEF AcceptRematch, MemoryGood
  <2>2. RequestsGood'
    BY <1>5, SettledGood, AwaitGood DEF AcceptRematch, Awaits
  <2> QED
    BY <1>5, <2>1, <2>2
    DEF AcceptRematch, database, faults, DatabaseGood, FaultsGood
<1>6. ASSUME NEW p \in Players, ResumeGame(h, p) PROVE IInv'
  <2>1. MemoryGood'
    BY <1>6 DEF ResumeGame, MemoryGood
  <2>2. RequestsGood'
    BY <1>6, <2>1, SaveSessionGood DEF ResumeGame, Awaits, SaveAwaits
  <2> QED
    BY <1>6, <2>1, <2>2 DEF ResumeGame, database, faults, DatabaseGood, FaultsGood
<1>7. ASSUME NEW seats \in SUBSET Colours \ {{}}, Disconnect(h, seats) PROVE IInv'
  <2>1. MemoryGood'
    BY <1>7 DEF Disconnect, MemoryGood
  <2>2. RequestsGood'
    BY <1>7, <2>1, SaveSessionGood DEF Disconnect, Awaits, SaveAwaits
  <2> QED
    BY <1>7, <2>1, <2>2 DEF Disconnect, database, faults, DatabaseGood, FaultsGood
<1> QED BY <1>1, <1>2, <1>3, <1>4, <1>5, <1>6, <1>7 DEF Request

LEMMA ReloadIInv == ASSUME IInv, Reload PROVE IInv'
<1>1. MemoryGood'
  BY DEF IInv, Reload, database, DatabaseGood, MemoryGood, NobodyConnected
<1>2. DatabaseGood'
  BY DEF IInv, Reload, database, DatabaseGood
<1>3. RequestsGood'
  BY SettledGood DEF Reload, RequestsGood
<1>4. FaultsGood'
  BY DEF IInv, Reload, FaultsGood
<1> QED BY <1>1, <1>2, <1>3, <1>4 DEF IInv

LEMMA ContinueIInv ==
  ASSUME IInv, NEW h \in Handlers, Continue(h) PROVE IInv'
<1> USE DEF IInv
<1>1. CASE StartGame(h)
  <2>1. MemoryGood'
    BY <1>1, StartedGood DEF StartGame, MemoryGood
  <2>2. RequestsGood'
    BY <1>1, <2>1, SaveSessionGood DEF StartGame, Awaits, SaveAwaits
  <2> QED
    BY <1>1, <2>1, <2>2 DEF StartGame, database, faults, DatabaseGood, FaultsGood
<1>2. CASE SaveMove(h)
  <2>1. MemoryGood' /\ DatabaseGood' /\ FaultsGood'
    BY <1>2 DEF SaveMove, memory, database, faults, MemoryGood, DatabaseGood, FaultsGood
  <2> QED BY <1>2, <2>1, SaveSessionGood DEF SaveMove, Awaits, SaveAwaits
<1>3. CASE SaveRematch(h)
  <2>1. MemoryGood' /\ DatabaseGood' /\ FaultsGood'
    BY <1>3 DEF SaveRematch, memory, database, faults, MemoryGood, DatabaseGood, FaultsGood
  <2> QED BY <1>3, <2>1, SaveSessionGood DEF SaveRematch, Awaits, SaveAwaits
<1>4. CASE Finish(h)
  <2>1. MemoryGood' /\ DatabaseGood' /\ FaultsGood'
    BY <1>4 DEF Finish, memory, database, faults, MemoryGood, DatabaseGood, FaultsGood
  <2> QED BY <1>4, <2>1, EndRequestGood DEF Finish
<1>5. CASE ReportFailure(h)
  <2>1. MemoryGood' /\ DatabaseGood' /\ FaultsGood'
    BY <1>5
    DEF ReportFailure, memory, database, faults, MemoryGood, DatabaseGood, FaultsGood
  <2> QED BY <1>5, <2>1, EndRequestGood DEF ReportFailure
<1>6. CASE DieOfUnhandledRejection(h)
  BY <1>6, ReloadIInv DEF DieOfUnhandledRejection
<1> QED BY <1>1, <1>2, <1>3, <1>4, <1>5, <1>6 DEF Continue

LEMMA DatabaseIInv ==
  ASSUME IInv, NEW h \in Handlers, RunQuery(h) \/ LoseConnection(h) PROVE IInv'
<1> USE DEF IInv
<1>1. QueryGood(query[h]) /\ at[h] \in Awaits \cup {"idle"} /\ at = [at EXCEPT ![h] = at[h]]
  BY DEF RequestsGood
<1>2. MemoryGood' /\ at' = at
  BY DEF RunQuery, LoseConnection, memory, MemoryGood
<1>3. DatabaseGood'
  <2>1. Apply(query[h]) => DatabaseGood'
    BY <1>1, ApplyGood
  <2>2. UNCHANGED database => DatabaseGood'
    BY DEF database, DatabaseGood
  <2> QED BY <2>1, <2>2 DEF RunQuery, LoseConnection
<1>4. RequestsGood'
  <2>1. PICK q \in {Done, Failed} : query' = [query EXCEPT ![h] = q]
    BY DEF RunQuery, LoseConnection
  <2> QED BY <1>1, <1>2, <2>1, SettleGood
<1>5. FaultsGood'
  BY BoundsAssumption DEF RunQuery, LoseConnection, faults, FaultsGood
<1> QED BY <1>2, <1>3, <1>4, <1>5

LEMMA NextIInv == IInv /\ [Next]_vars => IInv'
<1> SUFFICES ASSUME IInv, [Next]_vars PROVE IInv'
  OBVIOUS
<1>1. ASSUME NEW h \in Handlers, Request(h) PROVE IInv'
  BY <1>1, RequestIInv
<1>2. ASSUME NEW h \in Handlers, Continue(h) PROVE IInv'
  BY <1>2, ContinueIInv
<1>3. ASSUME NEW h \in Handlers, RunQuery(h) \/ LoseConnection(h) PROVE IInv'
  BY <1>3, DatabaseIInv
<1>4. CASE Crash
  BY <1>4, ReloadIInv DEF Crash
<1>5. CASE UNCHANGED vars
  BY <1>5 DEF vars, memory, database, requests, faults, IInv, MemoryGood, DatabaseGood,
              RequestsGood, FaultsGood, QueryGood, QueryOk
<1> QED BY <1>1, <1>2, <1>3, <1>4, <1>5 DEF Next

-----------------------------------------------------------------------------

\* The inductive invariant holds in every reachable state.
LEMMA Invariance == Spec => []IInv
BY InitIInv, NextIInv, PTL DEF Spec

\* Every variable has its type, for all players, moves, handlers and bounds.
THEOREM TypeCorrect == Spec => []TypeOK
BY Invariance, IInvImplies, PTL

\* The session object is coherent at every moment, between any two steps of
\* any number of overlapping requests and after every restart.
THEOREM GameAlwaysCoherent == Spec => []GameCoherent
BY Invariance, IInvImplies, PTL

\* The fields of the row, and of every value on its way to it, are those of one
\* point of one game: no order of UPDATEs and no crash stores torn fields.
THEOREM DatabaseAlwaysCoherent == Spec => []DatabaseCoherent
BY Invariance, IInvImplies, PTL

-----------------------------------------------------------------------------
(* The move list and the position. *)

LEMMA CompletedKeepsPosition ==
  ASSUME NEW g, IsGame(g), NEW m \in Moves
  PROVE  Completed(g, m).fen = g.fen /\ Completed(g, m).revision = g.revision
BY OutcomeAssumption DEF Completed, IsGame

LEMMA NextHistoryIntact ==
  IInv /\ HistoryIntactUntilRestart /\ [Next]_vars => HistoryIntactUntilRestart'
<1> SUFFICES ASSUME IInv, HistoryIntactUntilRestart, [Next]_vars, crashes' = 0
             PROVE  moveHistory' = game'.fen
  BY DEF HistoryIntactUntilRestart, HistoryMatchesPosition
<1>1. ASSUME Reload PROVE FALSE
  BY <1>1 DEF Reload, IInv, FaultsGood
<1>2. CASE crashes' = crashes /\ UNCHANGED <<game, moveHistory>>
  BY <1>2 DEF HistoryIntactUntilRestart, HistoryMatchesPosition
<1>3. ASSUME crashes' = crashes, moveHistory' = moveHistory,
             game'.fen = game.fen
      PROVE  moveHistory' = game'.fen
  BY <1>3 DEF HistoryIntactUntilRestart, HistoryMatchesPosition
<1> USE DEF IInv, MemoryGood, GoodGame
<1>4. ASSUME NEW h \in Handlers, Request(h) PROVE moveHistory' = game'.fen
  <2>1. ASSUME NEW p \in Players, JoinGame(h, p) PROVE moveHistory' = game'.fen
    BY <2>1, <1>3 DEF JoinGame, faults, Seated, IsGame
  <2>2. ASSUME NEW p \in Players, NEW m \in Moves, SubmitMove(h, p, m)
        PROVE  moveHistory' = game'.fen
    <3>1. IsGame(Moved(game, m)) /\ game.revision \in Nat
      BY <2>2, MovedPosition DEF SubmitMove, IsGame
    <3>2. game'.fen = Moved(game, m).fen /\ game'.revision = Moved(game, m).revision
      BY <2>2, <3>1, CompletedKeepsPosition DEF SubmitMove
    <3>3. Moved(game, m).fen = WithMove(game.fen, game.revision + 1, m)
          /\ Moved(game, m).revision = game.revision + 1
      BY DEF Moved, IsGame
    <3> QED BY <2>2, <3>2, <3>3 DEF SubmitMove, HistoryMatchesPosition
  <2>3. ASSUME NEW p \in Players, ResignGame(h, p) PROVE moveHistory' = game'.fen
    BY <2>3, <1>3 DEF ResignGame, faults, Resigned, IsGame
  <2>4. ASSUME NEW p \in Players, AskRematch(h, p) PROVE moveHistory' = game'.fen
    BY <2>4, <1>3 DEF AskRematch, faults, RematchAsked, IsGame
  <2>5. ASSUME NEW p \in Players, AcceptRematch(h, p) PROVE moveHistory' = game'.fen
    BY <2>5 DEF AcceptRematch, RematchStarted, IsGame
  <2>6. ASSUME NEW p \in Players, ResumeGame(h, p) PROVE moveHistory' = game'.fen
    BY <2>6, <1>2 DEF ResumeGame, faults
  <2>7. ASSUME NEW seats \in SUBSET Colours \ {{}}, Disconnect(h, seats)
        PROVE  moveHistory' = game'.fen
    BY <2>7, <1>2 DEF Disconnect, faults
  <2> QED BY <1>4, <2>1, <2>2, <2>3, <2>4, <2>5, <2>6, <2>7 DEF Request
<1>5. ASSUME NEW h \in Handlers, Continue(h) PROVE moveHistory' = game'.fen
  <2>1. CASE StartGame(h)
    BY <2>1, <1>3 DEF StartGame, faults, Started, IsGame
  <2>2. CASE SaveMove(h) \/ SaveRematch(h) \/ Finish(h) \/ ReportFailure(h)
    BY <2>2, <1>2 DEF SaveMove, SaveRematch, Finish, ReportFailure, memory, faults
  <2>3. CASE DieOfUnhandledRejection(h)
    BY <2>3, <1>1 DEF DieOfUnhandledRejection
  <2> QED BY <1>5, <2>1, <2>2, <2>3 DEF Continue
<1>6. ASSUME NEW h \in Handlers, RunQuery(h) \/ LoseConnection(h)
      PROVE  moveHistory' = game'.fen
  BY <1>6, <1>2 DEF RunQuery, LoseConnection, memory, faults
<1>7. CASE Crash
  BY <1>7, <1>1 DEF Crash
<1>8. CASE UNCHANGED vars
  BY <1>8, <1>2 DEF vars, memory, faults
<1> QED BY <1>4, <1>5, <1>6, <1>7, <1>8 DEF Next

\* Without a restart the move list always replays to the position: a failed
\* query never makes the running server refuse the next move.
THEOREM HistoryAlwaysIntact == Spec => []HistoryIntactUntilRestart
<1>1. Init => HistoryIntactUntilRestart
  BY DEF Init, HistoryIntactUntilRestart, HistoryMatchesPosition, CreatedBy
<1> QED BY <1>1, Invariance, NextHistoryIntact, PTL DEF Spec

-----------------------------------------------------------------------------
(* When requests do not overlap, the database follows the memory. *)

\* What a handler waits for belongs to its await.
QueryFits(h) ==
  /\ at[h] = "idle" => query[h] = Done
  /\ at[h] \in SaveAwaits => query[h].kind \in {"update", "done", "failed"}
  /\ at[h] = "moveInsert" => query[h].kind \in {"insert", "done", "failed"}
  /\ at[h] = "rematchDelete" => query[h].kind \in {"delete", "done", "failed"}

\* The row is what memory holds once an UPDATE has run.
RowFollows(h) ==
  /\ query[h].kind = "update" => query[h].values = game
  /\ at[h] \in SaveAwaits /\ query[h] = Done => row = game

\* While nothing has failed the row is up to date between requests, and the
\* move rows are, or are about to be, the move list.
MovesFollow(h) ==
  /\ query[h] # Failed
  /\ at[h] = "idle" => row = game
  /\ query[h].kind = "insert" =>
       /\ ~ Violates(query[h])
       /\ WithMove(moveRows, query[h].revision, query[h].move) = moveHistory
  /\ query[h].kind = "delete" => moveHistory = NoMoves
  /\ query[h].kind \in {"update", "done"} => moveRows = moveHistory

\* The invariant of the only handler h.
Follows(h) == QueryFits(h) /\ RowFollows(h) /\ (failures = 0 => MovesFollow(h))

LEMMA FollowsImplies ==
  ASSUME NEW h, Handlers = {h}
  PROVE  Follows(h) => SuccessIsDurable /\ DurableWhenIdle
<1> SUFFICES ASSUME Follows(h) PROVE SuccessIsDurable /\ DurableWhenIdle
  OBVIOUS
<1>1. SuccessIsDurable
  BY DEF Follows, RowFollows, MovesFollow, SuccessIsDurable, Continues, LastAwaits, Done
<1>2. DurableWhenIdle
  BY DEF Follows, QueryFits, MovesFollow, DurableWhenIdle, IsFree, Done
<1> QED BY <1>1, <1>2

\* A save is sent when the move rows are the move list.
LEMMA SaveSessionFollows ==
  ASSUME RequestsGood, NEW h \in Handlers, NEW a \in SaveAwaits, SaveSession(h, a),
         failures' = 0 => moveRows' = moveHistory'
  PROVE  Follows(h)'
<1>1. at'[h] = a /\ query'[h] = Update(game')
  BY DEF RequestsGood, SaveSession, Await
<1> QED
  BY <1>1 DEF Follows, QueryFits, RowFollows, MovesFollow, SaveAwaits, Update, Done, Failed

LEMMA RequestFollows ==
  ASSUME IInv, NEW h \in Handlers, Follows(h), Request(h) PROVE Follows(h)'
<1>0. RequestsGood /\ MemoryGood
  BY DEF IInv
<1>1. IsFree(h) => /\ query[h].kind = "done"
                   /\ failures = 0 => moveRows = moveHistory
  BY DEF Follows, QueryFits, MovesFollow, IsFree, Done
<1>2. ASSUME IsFree(h), UNCHANGED <<moveHistory, database, faults>>,
             NEW a \in SaveAwaits, SaveSession(h, a)
      PROVE  Follows(h)'
  BY <1>0, <1>1, <1>2, SaveSessionFollows DEF database, faults
<1>3. ASSUME NEW p \in Players, JoinGame(h, p) PROVE Follows(h)'
  BY <1>2, <1>3 DEF JoinGame, SaveAwaits
<1>4. ASSUME NEW p \in Players, NEW m \in Moves, SubmitMove(h, p, m) PROVE Follows(h)'
  <2> DEFINE r == game.revision + 1
  <2>1. /\ game.revision \in Nat /\ DOMAIN game.fen = 1 .. game.revision
        /\ game'.revision = r
    <3>1. GoodGame(game) /\ CanSubmitMove(game)
      BY <1>0, <1>4 DEF MemoryGood, SubmitMove
    <3>2. IsGame(Moved(game, m)) /\ Moved(game, m).revision = r
      BY <3>1, MovedPosition DEF Moved, GoodGame, IsGame
    <3> QED
      BY <1>4, <3>1, <3>2, CompletedKeepsPosition
      DEF SubmitMove, GoodGame, IsGame, Coherent, PlayedWithinTheGame
  <2>2. at'[h] = "moveInsert" /\ query'[h] = Insert(r, m)
    BY <1>0, <1>4, <2>1 DEF SubmitMove, RequestsGood, Await
  <2>3. ASSUME failures = 0 PROVE MovesFollow(h)'
    <3>1. moveRows' = game.fen /\ moveHistory' = WithMove(game.fen, r, m)
      BY <1>1, <1>4, <2>1, <2>3 DEF SubmitMove, HistoryMatchesPosition, database
    <3>2. ~ Violates(query[h])'
      BY <2>1, <2>2, <3>1 DEF Violates, Insert
    <3> QED
      BY <2>2, <3>1, <3>2 DEF MovesFollow, Violates, Insert, Failed
  <2>4. QueryFits(h)' /\ RowFollows(h)'
    BY <2>2 DEF QueryFits, RowFollows, Insert, SaveAwaits
  <2> QED BY <1>4, <2>3, <2>4 DEF Follows, SubmitMove, faults
<1>5. ASSUME NEW p \in Players, ResignGame(h, p) PROVE Follows(h)'
  BY <1>2, <1>5 DEF ResignGame, SaveAwaits
<1>6. ASSUME NEW p \in Players, AskRematch(h, p) PROVE Follows(h)'
  BY <1>2, <1>6 DEF AskRematch, SaveAwaits
<1>7. ASSUME NEW p \in Players, AcceptRematch(h, p) PROVE Follows(h)'
  <2>1. at'[h] = "rematchDelete" /\ query'[h] = Delete /\ moveHistory' = NoMoves
    BY <1>0, <1>7 DEF AcceptRematch, RequestsGood, Await
  <2> QED
    BY <2>1
    DEF Follows, QueryFits, RowFollows, MovesFollow, Delete, Done, Failed, SaveAwaits
<1>8. ASSUME NEW p \in Players, ResumeGame(h, p) PROVE Follows(h)'
  BY <1>2, <1>8 DEF ResumeGame, SaveAwaits
<1>9. ASSUME NEW seats \in SUBSET Colours \ {{}}, Disconnect(h, seats)
      PROVE  Follows(h)'
  BY <1>2, <1>9 DEF Disconnect, SaveAwaits
<1> QED BY <1>3, <1>4, <1>5, <1>6, <1>7, <1>8, <1>9 DEF Request

\* A restart makes memory what the database holds.
LEMMA ReloadFollows == ASSUME NEW h \in Handlers, Reload PROVE Follows(h)'
<1>1. /\ at'[h] = "idle" /\ query'[h] = Done
      /\ game' = row' /\ moveHistory' = moveRows'
  BY DEF Reload, database
<1> QED
  BY <1>1 DEF Follows, QueryFits, RowFollows, MovesFollow, Done, Failed, SaveAwaits

LEMMA ContinueFollows ==
  ASSUME IInv, NEW h \in Handlers, Follows(h), Continue(h) PROVE Follows(h)'
<1>0. RequestsGood
  BY DEF IInv
<1>1. query[h] = Done => (failures = 0 => moveRows = moveHistory)
  BY DEF Follows, MovesFollow, Done
<1>2. CASE StartGame(h)
  BY <1>0, <1>1, <1>2, SaveSessionFollows
  DEF StartGame, Continues, database, faults, SaveAwaits
<1>3. CASE SaveMove(h)
  BY <1>0, <1>1, <1>3, SaveSessionFollows
  DEF SaveMove, Continues, memory, database, faults, SaveAwaits
<1>4. CASE SaveRematch(h)
  BY <1>0, <1>1, <1>4, SaveSessionFollows
  DEF SaveRematch, Continues, memory, database, faults, SaveAwaits
<1>5. ASSUME EndRequest(h), UNCHANGED <<memory, database, faults>>,
             failures = 0 => row = game /\ moveRows = moveHistory
      PROVE  Follows(h)'
  <2>1. at'[h] = "idle" /\ query'[h] = Done
    BY <1>0, <1>5 DEF EndRequest, RequestsGood
  <2> QED
    BY <1>5, <2>1
    DEF Follows, QueryFits, RowFollows, MovesFollow, Done, Failed, SaveAwaits,
        memory, database, faults
<1>6. CASE Finish(h)
  BY <1>1, <1>5, <1>6 DEF Finish, LastAwaits, Follows, RowFollows
<1>7. CASE ReportFailure(h)
  BY <1>5, <1>7 DEF ReportFailure, Follows, MovesFollow
<1>8. CASE DieOfUnhandledRejection(h)
  BY <1>8, ReloadFollows DEF DieOfUnhandledRejection
<1> QED BY <1>2, <1>3, <1>4, <1>6, <1>7, <1>8 DEF Continue

LEMMA DatabaseFollows ==
  ASSUME IInv, NEW h \in Handlers, Follows(h), RunQuery(h) \/ LoseConnection(h)
  PROVE  Follows(h)'
<1>0. RequestsGood /\ failures \in Nat
  BY BoundsAssumption DEF IInv, FaultsGood
<1>1. PICK q \in {Done, Failed} : query' = [query EXCEPT ![h] = q]
  BY DEF RunQuery, LoseConnection
<1>2. /\ query'[h] = q /\ at' = at /\ game' = game /\ moveHistory' = moveHistory
      /\ IsPending(h)
  BY <1>0, <1>1 DEF RequestsGood, RunQuery, LoseConnection, memory
<1>3. QueryFits(h)'
  BY <1>2 DEF Follows, QueryFits, IsPending, Done, Failed
<1> DEFINE ends(x) == query' = [query EXCEPT ![h] = x]
<1>4. Done # Failed /\ (ends(Done) => q = Done) /\ (ends(Failed) => q = Failed)
  BY <1>0, <1>2 DEF RequestsGood, Done, Failed
<1>5. \/ /\ ends(Done) /\ Apply(query[h]) /\ failures' = failures
      \/ /\ ends(Failed) /\ Violates(query[h]) /\ failures' = failures
      \/ /\ ends(Failed) /\ failures' = failures + 1
  BY DEF RunQuery, LoseConnection, faults
<1> HIDE DEF ends
<1>6. CASE q = Failed
  <2>1. RowFollows(h)'
    BY <1>2, <1>6 DEF RowFollows, Done, Failed
  <2>2. ASSUME failures' = 0 PROVE FALSE
    BY <1>0, <1>6, <1>4, <1>5, <2>2 DEF Follows, MovesFollow, Violates
  <2> QED BY <1>3, <2>1, <2>2 DEF Follows
<1>7. CASE q = Done
  <2>1. Apply(query[h]) /\ failures' = failures
    BY <1>7, <1>4, <1>5
  <2>2. RowFollows(h)'
    BY <1>2, <1>7, <2>1 DEF Follows, QueryFits, RowFollows, Apply, IsPending, Done
  <2>3. ASSUME failures = 0 PROVE moveRows' = moveHistory
    BY <1>2, <2>1, <2>3 DEF Follows, MovesFollow, Apply, IsPending
  <2>4. at[h] # "idle"
    BY <1>2 DEF Follows, QueryFits, IsPending, Done
  <2>5. failures' = 0 => MovesFollow(h)'
    BY <1>2, <1>7, <2>1, <2>3, <2>4 DEF MovesFollow, Done, Failed
  <2> QED BY <1>3, <2>2, <2>5 DEF Follows
<1> QED BY <1>1, <1>6, <1>7

LEMMA NextFollows ==
  ASSUME NEW h, Handlers = {h}
  PROVE  IInv /\ Follows(h) /\ [Next]_vars => Follows(h)'
<1> SUFFICES ASSUME IInv, Follows(h), [Next]_vars PROVE Follows(h)'
  OBVIOUS
<1>1. CASE Request(h)
  BY <1>1, RequestFollows
<1>2. CASE Continue(h)
  BY <1>2, ContinueFollows
<1>3. CASE RunQuery(h) \/ LoseConnection(h)
  BY <1>3, DatabaseFollows
<1>4. CASE Crash
  BY <1>4, ReloadFollows DEF Crash
<1>5. CASE UNCHANGED vars
  BY <1>5 DEF vars, memory, database, requests, faults, Follows, QueryFits, RowFollows,
              MovesFollow, Violates
<1> QED BY <1>1, <1>2, <1>3, <1>4, <1>5 DEF Next

LEMMA InitFollows == ASSUME NEW h, Handlers = {h} PROVE Init => Follows(h)
BY DEF Init, Follows, QueryFits, RowFollows, MovesFollow, Done, Failed, SaveAwaits

\* When no two requests overlap, what is answered with success has been made
\* durable, whatever queries failed and however often the process died before.
THEOREM SuccessDurable ==
  ASSUME NEW h, Handlers = {h} PROVE Spec => []SuccessIsDurable
BY InitFollows, NextFollows, FollowsImplies, Invariance, PTL DEF Spec

\* When no two requests overlap and nothing has failed, a restart between two
\* requests loses nothing.
THEOREM DurableBetweenRequests ==
  ASSUME NEW h, Handlers = {h} PROVE Spec => []DurableWhenIdle
BY InitFollows, NextFollows, FollowsImplies, Invariance, PTL DEF Spec
-----------------------------------------------------------------------------
(* How far apart a crash may leave the two tables. *)

\* The invariant of the only handler h: rows and memory are one request apart;
\* while a query to the moves is pending the row is what it is to follow.
OneApart(h) ==
  /\ OneRequestApart(row, moveRows)
  /\ OneRequestApart(game, moveHistory)
  /\ query[h].kind = "insert" =>
       moveRows = row.fen /\ query[h].revision = row.revision + 1
  /\ query[h].kind = "delete" => row.state = "FINISHED"

\* A change of the session that leaves position and revision alone.
LEMMA KeepsApart ==
  ASSUME NEW g, NEW f, NEW moves, OneRequestApart(g, moves),
         f.fen = g.fen, f.revision = g.revision,
         g.state = "FINISHED" => f.state = "FINISHED"
  PROVE  OneRequestApart(f, moves)
BY DEF OneRequestApart

\* A handler that sends a save, or ends, leaves the tables alone.
LEMMA SettledApart ==
  ASSUME NEW h, OneApart(h), OneRequestApart(game', moveHistory'),
         UNCHANGED database, query'[h].kind \notin {"insert", "delete"}
  PROVE  OneApart(h)'
BY DEF OneApart, OneRequestApart, database

LEMMA RequestApart ==
  ASSUME IInv, NEW h \in Handlers, Follows(h), failures = 0, OneApart(h), Request(h)
  PROVE  OneApart(h)'
<1>0. /\ RequestsGood /\ IsGame(game) /\ Coherent(game)
      /\ OneRequestApart(game, moveHistory)
  BY DEF IInv, MemoryGood, GoodGame, OneApart
<1>1. IsFree(h) => row = game /\ moveRows = moveHistory
  BY DEF Follows, QueryFits, MovesFollow, IsFree, Done
<1>2. ASSUME UNCHANGED database, NEW a \in SaveAwaits, SaveSession(h, a),
             OneRequestApart(game', moveHistory')
      PROVE  OneApart(h)'
  <2>1. query'[h].kind = "update"
    BY <1>0, <1>2 DEF SaveSession, Await, RequestsGood, Update
  <2> QED BY <1>2, <2>1, SettledApart
<1>3. ASSUME NEW p \in Players, JoinGame(h, p) PROVE OneApart(h)'
  <2>1. /\ game'.fen = game.fen /\ game'.revision = game.revision
        /\ game'.state = game.state /\ moveHistory' = moveHistory
    BY <1>0, <1>3 DEF JoinGame, Seated, IsGame
  <2>2. OneRequestApart(game', moveHistory')
    BY <1>0, <2>1, KeepsApart
  <2> QED BY <1>2, <1>3, <2>2 DEF JoinGame, SaveAwaits
<1>4. ASSUME NEW p \in Players, NEW m \in Moves, SubmitMove(h, p, m)
      PROVE  OneApart(h)'
  <2>1. UNCHANGED <<row, moveRows>> /\ row = game /\ moveRows = game.fen
    BY <1>1, <1>4 DEF SubmitMove, HistoryMatchesPosition, database
  <2>2. /\ game'.revision = game.revision + 1
        /\ game'.fen = WithMove(game.fen, game.revision + 1, m)
    <3>1. IsGame(Moved(game, m))
      BY <1>0, <1>4, MovedPosition DEF SubmitMove, GoodGame
    <3>2. /\ game'.fen = Moved(game, m).fen
          /\ game'.revision = Moved(game, m).revision
      BY <1>4, <3>1, CompletedKeepsPosition DEF SubmitMove
    <3> QED BY <1>0, <3>2 DEF Moved, IsGame
  <2>3. moveHistory' = game'.fen
    BY <1>4, <2>2 DEF SubmitMove, HistoryMatchesPosition
  <2>4. query'[h] = Insert(game.revision + 1, m)
    BY <1>0, <1>4, <2>2 DEF SubmitMove, Await, RequestsGood
  <2>5. OneRequestApart(row', moveRows') /\ OneRequestApart(game', moveHistory')
    BY <2>1, <2>3 DEF OneRequestApart
  <2>6. /\ query'[h].kind = "insert"
        /\ query'[h].revision = game.revision + 1
    BY <2>4 DEF Insert
  <2> QED BY <2>1, <2>5, <2>6 DEF OneApart, OneRequestApart
<1>5. ASSUME NEW p \in Players, ResignGame(h, p) PROVE OneApart(h)'
  <2>1. /\ game'.fen = game.fen /\ game'.revision = game.revision
        /\ game.state = "IN_PROGRESS" /\ moveHistory' = moveHistory
    BY <1>0, <1>5 DEF ResignGame, Resigned, IsGame
  <2>2. OneRequestApart(game', moveHistory')
    BY <1>0, <2>1, KeepsApart
  <2> QED BY <1>2, <1>5, <2>2 DEF ResignGame, SaveAwaits
<1>6. ASSUME NEW p \in Players, AskRematch(h, p) PROVE OneApart(h)'
  <2>1. /\ game'.fen = game.fen /\ game'.revision = game.revision
        /\ game'.state = game.state /\ moveHistory' = moveHistory
    BY <1>0, <1>6 DEF AskRematch, RematchAsked, IsGame
  <2>2. OneRequestApart(game', moveHistory')
    BY <1>0, <2>1, KeepsApart
  <2> QED BY <1>2, <1>6, <2>2 DEF AskRematch, SaveAwaits
<1>7. ASSUME NEW p \in Players, AcceptRematch(h, p) PROVE OneApart(h)'
  <2>1. UNCHANGED <<row, moveRows>> /\ row.state = "FINISHED"
    BY <1>1, <1>7 DEF AcceptRematch, database
  <2>2. moveHistory' = game'.fen
    BY <1>0, <1>7 DEF AcceptRematch, RematchStarted, IsGame
  <2>3. query'[h].kind = "delete"
    BY <1>0, <1>7 DEF AcceptRematch, Await, RequestsGood, Delete
  <2> QED BY <2>1, <2>2, <2>3 DEF OneApart, OneRequestApart
<1>8. ASSUME NEW p \in Players, ResumeGame(h, p) PROVE OneApart(h)'
  BY <1>0, <1>2, <1>8 DEF ResumeGame, SaveAwaits, OneRequestApart
<1>9. ASSUME NEW seats \in SUBSET Colours \ {{}}, Disconnect(h, seats)
      PROVE  OneApart(h)'
  BY <1>0, <1>2, <1>9 DEF Disconnect, SaveAwaits, OneRequestApart
<1> QED BY <1>3, <1>4, <1>5, <1>6, <1>7, <1>8, <1>9 DEF Request

LEMMA ReloadApart ==
  ASSUME NEW h \in Handlers, OneApart(h), Reload PROVE OneApart(h)'
<1>1. /\ query'[h].kind = "done" /\ UNCHANGED <<row, moveRows>>
      /\ game' = row /\ moveHistory' = moveRows
  BY DEF Reload, database, Done
<1> QED BY <1>1 DEF OneApart, OneRequestApart

LEMMA ContinueApart ==
  ASSUME IInv, NEW h \in Handlers, OneApart(h), Continue(h) PROVE OneApart(h)'
<1>0. /\ RequestsGood /\ IsGame(game) /\ OneRequestApart(game, moveHistory)
  BY DEF IInv, MemoryGood, GoodGame, OneApart
<1>1. CASE StartGame(h)
  <2>1. /\ game'.fen = game.fen /\ game'.revision = game.revision
        /\ game.state # "FINISHED" /\ moveHistory' = moveHistory
    BY <1>0, <1>1 DEF StartGame, IsReadyToStart, Started, IsGame
  <2>2. OneRequestApart(game', moveHistory')
    BY <1>0, <2>1, KeepsApart
  <2>3. query'[h].kind = "update" /\ UNCHANGED database
    BY <1>0, <1>1 DEF StartGame, SaveSession, Await, RequestsGood, Update
  <2> QED BY <2>2, <2>3, SettledApart
<1>2. CASE SaveMove(h) \/ SaveRematch(h) \/ Finish(h) \/ ReportFailure(h)
  <2>1. query'[h].kind \in {"update", "done"} /\ UNCHANGED <<memory, database>>
    BY <1>0, <1>2
    DEF SaveMove, SaveRematch, Finish, ReportFailure, SaveSession, Await,
        EndRequest, RequestsGood, Update, Done
  <2> QED BY <1>0, <2>1, SettledApart DEF memory, OneRequestApart
<1>3. CASE DieOfUnhandledRejection(h)
  BY <1>3, ReloadApart DEF DieOfUnhandledRejection
<1> QED BY <1>1, <1>2, <1>3 DEF Continue

\* Where the two tables come apart: an INSERT or a DELETE that has run.
LEMMA DatabaseApart ==
  ASSUME IInv, NEW h \in Handlers, Follows(h), failures' = 0, OneApart(h),
         RunQuery(h) \/ LoseConnection(h)
  PROVE  OneApart(h)'
<1>0. RequestsGood /\ failures \in Nat /\ QueryGood(query[h])
  BY BoundsAssumption DEF IInv, FaultsGood, RequestsGood
<1>1. /\ failures = 0 /\ RunQuery(h)
  BY <1>0 DEF LoseConnection, RunQuery, faults
<1>2. /\ IsPending(h) /\ Apply(query[h]) /\ UNCHANGED memory
      /\ query'[h].kind = "done"
  BY <1>0, <1>1
  DEF RunQuery, Follows, MovesFollow, Violates, RequestsGood, Done
<1>3. OneRequestApart(game', moveHistory')
  BY <1>2 DEF OneApart, OneRequestApart, memory
<1>4. OneRequestApart(row', moveRows')
  <2>1. CASE query[h].kind = "update"
    <3>1. row' = game /\ moveRows' = moveHistory
      BY <1>1, <1>2, <2>1 DEF Apply, Follows, RowFollows, MovesFollow
    <3> QED BY <3>1 DEF OneApart, OneRequestApart
  <2>2. CASE query[h].kind = "insert"
    <3>1. query[h].move \in Moves
      BY <1>0, <2>2 DEF QueryGood, QueryOk, Update, Delete, Done, Failed
    <3>2. /\ row' = row
          /\ moveRows' = WithMove(row.fen, row.revision + 1, query[h].move)
      BY <1>2, <2>2 DEF Apply, OneApart
    <3> QED BY <3>1, <3>2 DEF OneRequestApart
  <2>3. CASE query[h].kind = "delete"
    <3>1. row' = row /\ moveRows' = NoMoves /\ row.state = "FINISHED"
      BY <1>2, <2>3 DEF Apply, OneApart
    <3> QED BY <3>1 DEF OneRequestApart
  <2> QED BY <1>2, <2>1, <2>2, <2>3 DEF IsPending
<1> QED BY <1>2, <1>3, <1>4 DEF OneApart

ApartUntilFailure(h) == failures = 0 => OneApart(h)

LEMMA NextApart ==
  ASSUME NEW h, Handlers = {h}
  PROVE  IInv /\ Follows(h) /\ ApartUntilFailure(h) /\ [Next]_vars
           => ApartUntilFailure(h)'
<1> SUFFICES ASSUME IInv, Follows(h), ApartUntilFailure(h), [Next]_vars, failures' = 0
             PROVE  OneApart(h)'
  BY DEF ApartUntilFailure
<1>1. failures = 0
  <2>1. failures \in Nat /\ (failures' = failures \/ failures' = failures + 1)
    BY BoundsAssumption
    DEF IInv, FaultsGood, Next, vars, faults, Request, JoinGame, SubmitMove, ResignGame,
        AskRematch, AcceptRematch, ResumeGame, Disconnect, Continue, StartGame, SaveMove,
        SaveRematch, Finish, ReportFailure, DieOfUnhandledRejection, Crash, Reload,
        RunQuery, LoseConnection
  <2> QED BY <2>1
<1>2. OneApart(h)
  BY <1>1 DEF ApartUntilFailure
<1>3. CASE Request(h)
  BY <1>1, <1>2, <1>3, RequestApart
<1>4. CASE Continue(h)
  BY <1>2, <1>4, ContinueApart
<1>5. CASE RunQuery(h) \/ LoseConnection(h)
  BY <1>2, <1>5, DatabaseApart
<1>6. CASE Crash
  BY <1>2, <1>6, ReloadApart DEF Crash
<1>7. CASE UNCHANGED vars
  BY <1>2, <1>7
  DEF vars, memory, database, requests, faults, OneApart, OneRequestApart
<1> QED BY <1>3, <1>4, <1>5, <1>6, <1>7 DEF Next

LEMMA InitApart == ASSUME NEW h, Handlers = {h} PROVE Init => ApartUntilFailure(h)
BY DEF Init, ApartUntilFailure, OneApart, OneRequestApart, CreatedBy, Done

\* When no two requests overlap and no query has failed, the rows of moves are
\* those of the stored position, or one move ahead of it, or gone with a game
\* that is over: however often and wherever the process died.
THEOREM TablesAlwaysOneRequestApart ==
  ASSUME NEW h, Handlers = {h} PROVE Spec => []TablesOneRequestApart
<1>1. ApartUntilFailure(h) => TablesOneRequestApart
  BY DEF ApartUntilFailure, OneApart, TablesOneRequestApart
<1> QED
  BY <1>1, InitApart, NextApart, InitFollows, NextFollows, Invariance, PTL DEF Spec
=============================================================================
