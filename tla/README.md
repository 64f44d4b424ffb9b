# Formal models of the remote chess application

The repository is a two-player chess application with two interchangeable
backends that speak the same Socket.IO protocol: a **monolith** (one Node.js
process with the sessions in memory and PostgreSQL behind it) and a
**decomposed** backend (gateway, session service and game service over Redis
and the same two tables). This directory models them in TLA+, checks the models
with TLC and proves their safety properties and four refinements with TLAPS.

## 1. Inventory

| Component | State | Operations | Talks to |
|---|---|---|---|
| Game session rules (`stateMachine.js`, `sessionFactory.js`, rules inside `moveService.js` and `gameLifecycleService.js`) | none: pure functions on a session | join, start, move, completion, resign, rematch | everything below |
| Monolith: session lifecycle and persistence (`gameLifecycleService.js`, `moveService.js`, `disconnectService.js`, `sessionStore.js`) | `sessions` map in memory; tables `games`, `moves` | GAME_CREATE, GAME_JOIN, MOVE_SUBMIT, RESIGN, REMATCH_REQUEST, GAME_RESUME, disconnect; restart (`loadSessionsFromDatabase`) | PostgreSQL through a pool of connections |
| Monolith: rooms (`createGame`, `getSessionByRoomName`) | room name -> session, `UNIQUE (room_name)` | create, look up, load on a cache miss | sessions map, PostgreSQL |
| Monolith: handlers and messages (`handlers/`, `broadcastService.js`, `syncService.js`) | none; reads the session after the awaits | answers and broadcasts | clients |
| Monolith: connections (`connectionRegistry.js`, `handshakeService.js`) | socket -> identity, active game | connect, HELLO, disconnect | handlers |
| Decomposed session and game services | none between requests; tables `games`, `moves` | the same requests, each as read, change, write back | PostgreSQL, Redis channels |
| Decomposed gateway | `pendingRequests`, connection registry, timers | forward a request, time out, run the actions of a reply | clients, services over Redis |
| Client (`App.jsx`) | `sessionState`, identity and last game in the storage, the buffer of socket.io-client | connects, reloads, sends requests, applies WELCOME, STATE_SYNC, STATE_UPDATE, REMATCH_STATUS | backend |
| Metrics, configuration, benchmarks, data | counters, files | measurement | - |

What is hard in each of them:

* **Monolith persistence.** A handler changes the session object *before* its
  first `await`, and then writes one or two queries without a transaction.
  Other requests run at every `await`; their queries run on other connections in
  any order; a query may fail after the object has changed; the process may die
  between two queries. The properties that make it correct: the object is one
  coherent game at every moment; so is the row; the game a restart loads is one
  that a request saved; the two tables are at most one request apart; a game stays
  playable; a full room starts; every request is answered.
* **Rooms.** `createSession` stores the row before the map knows the session, so
  that a lookup in between builds a second object. One game must have one object
  and one player per seat.
* **Handlers.** They read the shared object after their awaits. A message must
  describe a state the game was in and the event it is named after.
* **Connections.** Sockets come and go while requests of theirs are suspended. A
  player who has a live, resumed socket must not be reported as gone.
* **Decomposed services.** Two processes read, change and write back the same
  row. Nothing an answer has confirmed may be overwritten.
* **Gateway.** A timeout races the reply; a reply that is dropped leaves clients
  that never hear of a change.
* **Client.** It applies every state it is sent without comparing revisions, and
  keeps what the user does while the connection is down. What it shows must never
  go back, must become true once all is quiet, and a move must be applied to the
  position its player saw.

The list of hazards, each at its line, is `hazards` in `PROJECT.json`.

## 2. Modules

| Module | What it is |
|---|---|
| `GameSession` | the persisted fields of a session and the pure rules on them; `Coherent`, what the fields must say of each other |
| `ChessGame` | the abstract specification of one game: seats, turns, end, rematch, and which states a restart may bring back |
| `Monolith` | one stored session of the monolith: memory, the two tables, the requests in progress cut at each query, crashes and lost connections |
| `ChessView` | how a session is seen as a game of `ChessGame` |
| `MonolithProperties` | its invariants, the refinement of `ChessGame`, liveness |
| `MCMonolith` | constants for TLC |
| `GameSessionProofs` | every rule preserves well-formed, coherent games, and is a step of the chess game that the session is seen as |
| `MonolithProofs` | the invariants of the monolith for all constants, durability for one handler |
| `MonolithRefinement` | the monolith implements `ChessGame`, for all constants |
| `Services` | one room of the decomposed backend: the row and the moves that both services share, every request cut at each query |
| `ServicesProperties` | its invariants, the refinement of `ChessGame` |
| `MCServices` | constants for TLC |
| `ServicesProofs` | the invariants of the services for all constants and any overlap |
| `ServicesRefinement` | the services keep what they have answered as long as nothing overlaps a move but moves, and implement `ChessGame` when only moves overlap |
| `Gateway` | sockets, registry, room and forwarded requests of the gateway, with Redis and the services seen from it |
| `Relay` | the abstract specification of a gateway: calls that end once, members who enter by a call and leave with one |
| `GatewayProperties` | its invariants, the refinement of `Relay`, liveness |
| `MCGateway` | the instance for TLC |
| `GatewayProofs` | the safety properties of the gateway for all constants, and that it implements `Relay` |
| `Connection` | Socket.IO between the tabs and the server: connections with two ends, messages in order both ways |
| `Browser` | the tab of each player: what it remembers of the messages and which requests its controls allow |
| `GameServer` | the handlers of the monolith as clients meet them: registry, socket of each seat, room, messages |
| `Table` | the composition of the three |
| `TableProperties` | presence, what pages show, what moves are applied to, the refinement of `ChessGame` |
| `MCTable` | constants and initial states for TLC |
| `TableProofs` | presence, what pages show and what moves are applied to, for all constants |
| `TableGameProofs` | the table implements `ChessGame`, and once all is quiet its pages show the game, for all constants |

`Monolith` and `Services` both extend `GameSession`, whose rules the two
backends share line for line, and both are shown to implement `ChessGame`.
`Table` is shown to implement it too, where what is at stake is not what is stored
but which messages are accepted.
`Gateway` does not look into the services: what a request does to a game is in
`Services`, what becomes of the request and of its reply is in `Gateway`.
`Table` looks at the monolith from the other side than `Monolith`: its database
answers every query, and what is at stake is what the two clients are told, when,
and over which connection. It uses the same rules of `GameSession`.

### How the monolith corresponds to the code

*Memory.* `game`, `moveHistory` and `connected` are the session object: the
fields that are columns of `games`, the move list, and the flags that are never
stored. *Database.* `row` is the row of `games`, `moveRows` the rows of `moves`
by `revision_applied`. *Requests.* `at[h]` is the await that handler `h` is
suspended at, `query[h]` the query it waits for, with the values that were bound
when it was sent; `Done` and `Failed` are its outcomes.

Every handler is cut where the code awaits a query, and nowhere else: Node.js
runs the code between two awaits without interruption. `JoinGame`, `SubmitMove`,
`ResignGame`, `AskRematch`, `AcceptRematch`, `ResumeGame` and `Disconnect` are
the handlers up to their first query, guards included; `StartGame`, `SaveMove`
and `SaveRematch` what follows the first query; `Finish` and `ReportFailure` the
answer. `RunQuery` is PostgreSQL executing any pending query, `LoseConnection` a
connection that fails before or after the query took effect, `Crash` the process
being killed and `loadSessionsFromDatabase` on the next start.
`DieOfUnhandledRejection` is the disconnect handler, which awaits its save
outside any `try`: Node.js 24 (the version of `package.json`) ends a process on
an unhandled rejection. A request that a guard refuses changes nothing and is a
stuttering step.

Abstractions:

* A move is a member of `Moves`; `Outcome` says whether it ends the game, the
  only thing the server reads from chess.js. A position is the function from
  revisions to the moves that led to it, so `chess.fen() !== session.fen` is
  inequality of functions. Move-list entries carry their revision, as the
  entries and rows of the code do. Stalemate, insufficient material, repetition
  and the other draws are one result.
* A player stands for the pair of `clientId` and `playerId` that the client
  generates together (`App.jsx:34`).
* Queries that a killed process had sent have either run before the crash or are
  lost. A query still running when the next process loads the tables is not
  modelled.
* GAME_CREATE has ended in the initial state: one session, row and object equal.

### How the services correspond to the code

Neither service keeps anything between requests, so the state is the row of
`games` (`NoRow` before GAME_CREATE), the rows of `moves`, and for each request
in progress what it asks (`request`), the point it has reached (`at`) and the
session object it has read and changed (`copy`). A request reads the row
(`ReadGame`), then the moves (`ReadMoves`), decides and sends its first write
(`CreateGame`, `JoinGame`, `ResumeGame`, `ResignGame`, `AskRematch`,
`AcceptRematch`, `SubmitMove`, `DisconnectPlayer`), sends a second one where
the code does (`SaveMove`, `SaveRematch`), and publishes its answer
(`Answer`) or a refusal (`Refuse`). `SaveSession` replaces the whole row, as
the UPDATE does. `Abandon` is a request that ends anywhere without an answer: a
query that fails, or a service that dies; `FailInsert` is an INSERT that breaks
`UNIQUE (room_name)` or `UNIQUE (game_id, revision_applied)`. A query is one
atomic step, at the moment it runs; a service is never blocked by another one.

`joined` is a history variable: who was answered GAME_JOINED. `Overlapping` says which
kinds of request clients send while others are in progress: with all kinds the code
does lose moves (`viol_lost_move`), with moves alone it does not (`svc_moves`).
Nothing in the code keeps the other kinds apart, so what is stated under a restriction
is a statement about the clients as much as about the services; the comments of the
properties name it. The `connected` flags are left out: `mapRowToSession` sets both to
false on every read, so no request ever depends on them.

### How the gateway corresponds to the code

`registry` is `connectionRegistry`, `room` the Socket.IO room of the one game,
`pending` the keys of `pendingRequests`, `timers` the armed `setTimeout`s.
`state[r]` says where the handler of a request is: awaiting `publish`, awaiting
`responsePromise`, answered while `publish` has not returned, or gone because
`publish` failed (`orphan`: the promise is left with its timer and nobody awaits
it). `bus[r]` is where its message is. Reading a reply and executing its actions
is one step, because promises that are settled run before the next event, and
nothing in `executeGatewayActions` waits.

* A service may lose a message (Redis does not keep it for a subscriber that is
  away), throw and never reply, or reply at any later time.
* `Die`: the timer of a promise that nobody awaits rejects it; an unhandled
  rejection ends the process. `LoseRedis`: the Redis clients have no listener for
  `error`, so that a lost connection is an uncaught exception. Both end in
  `Restart`: nothing survives, and all sockets are closed.
* A reconnection is another socket. HELLO names a player, as `App.jsx:177` does,
  and may be repeated. Replies that only emit are one alternative, refusals
  included.
* Requests are identified without limit in the code; `Requests` is the bound on
  those of which something is left at once.

`Relay` is the gateway without its books: sockets, members, and the calls that
somebody waits for. `KeepsPromise` maps a request to a call while its handler is
awaiting (`OpenCalls`): the registry, the timers, `pending`, the messages, and the
reply that overtakes its `publish` are not seen from outside. A member leaves by
`CloseKnown`, together with the disconnect that is forwarded; that the gateway
always can is what the registry is for.

### How the table corresponds to the code

*Connections.* A tab opens one connection after the other (`socket.id` is the
pair of player and count). Both ends close at their own time: the client by
losing the connection or by leaving the page, the server when it notices. What
the client had sent may still be handled in between, also after the next
connection is open; what the server had sent to a closed end is lost. The
handshake is one step.

*Browser.* `tab[p]` is what the page and its storage keep: `view` is
`sessionState`, `saved` that `lastGameId` is stored, `initialised` that WELCOME
has come. `kept` is the buffer in which socket.io-client keeps what is emitted
while disconnected; it is sent before HELLO, as `Connect` does. Every control of
`App.jsx` that sends a request is an action with the condition that enables it.
Each tab is in a browser of its own. Banners, notices, error texts and the choice
of the page are left out: they decide about no request.

*Server.* Every handler is cut at its await: up to it the action named after the
request (`JoinGame`, `SubmitMove`, `HandleDisconnect`, ...), after it the action
that writes the messages (`AnswerJoin`, `AnswerMove`, `ReportDisconnect`, ...),
from the session as it is *then*. `waiting[s][k]` counts the handlers of a socket
that are suspended before the same continuation. `Refuse` is every early return.
There is one room; lookup and INSERT of GAME_CREATE are one await, as nothing in
memory changes between them. Messages emitted in a row by one handler are one
message. `setActiveGame` is left out, because the client names the game in every
request. Of a message only what the client acts on is kept.

`number` counts the rematches and `seen` is the view a move was made in: both are
history variables, read by properties only, apart from the bound on rematches.

## 3. Runs

Constants: players as model values, moves that go on (`quiet`), mate (`mates`)
or draw (`draws`), and the named bounds `MaxRevision` (moves per game),
`MaxCrashes`, `MaxFailures`, `MaxAbandoned`. Rematches are not bounded: revisions
start again. Handlers are symmetric, except where liveness is checked.

| Run | Instance | Question |
|---|---|---|
| `mono_overlap` | 2 handlers, 2 moves per game, 1 crash | Do overlapping requests and a crash keep the object, the row and the rows in flight coherent, and is the session one chess game? |
| `mono_failures` | 2 handlers, 1 move per game, 1 crash, 1 lost connection | Does the game in memory survive failing queries? |
| `mono_sequential` | 1 handler, 3 moves, 2 crashes, 2 lost connections | When requests do not overlap: is what was answered durable, and are the tables never more than one request apart? |
| `mono_live` | 2 handlers, no faults, `FairSpec` | Is every request answered; does a full room start? |
| `svc_moves` | 2 requests, only moves overlap, 2 moves per game, 1 failure | When only moves overlap: is the stored row one chess game, and does what was answered stay stored? |
| `svc_overlap` | 2 requests of any kind, 1 move per game | Does the row stay one coherent game of its creator, is a full room started, and does a settled guest keep the seat? |
| `gateway` | 2 sockets, 2 requests, `FairSpec` | Do the gateway's maps match, do late replies do nothing, is it the `Relay`, does every handler end? |
| `table` | 2 players with 2 connections each, 1 of them lost, 4 requests, 2 messages in flight, 2 moves, 1 rematch | Does the server know who is there, does only a creation leave a seat with a dead socket, does who is there hear of the game, do pages advance and become current, are moves applied to the position that was seen, is the session one chess game? |
| `viol_wedged` | 1 handler, 1 crash | expected violation: a crash between the two queries of a move |
| `viol_stale_row` | 2 handlers, no faults | expected violation: saves landing out of order |
| `viol_lost_move` | 2 requests, a move and a resume, no failure | expected violation: a resume writes the old row over an accepted move |
| `viol_dead_board` | as `table` | expected violation: after a reconnection the board invites to move in a game that has gone on |

Why the bounds are enough: every await of a request can be interleaved with any
step of a second request, and the second handler is reused, so whole sequences
(resign, two rematch requests, a new move) run while the first is suspended. Two
moves per game give both sides a turn and both a mate; a game of one move already
separates the move list from the position. In `gateway` one socket may have two
requests, or a request and its disconnect, and the other socket replaces it.
In `table` four requests (`MaxClicks`) are a creation, a join and two of a game,
or, from the seated initial states of `MCTable`, three of a game in progress or
finished: two moves, or a rematch and a move in the new game, around a lost
connection and the resume on the next. Those initial states are reachable, by
creation, join and resignation; they spare TLC the requests that lead there.
`MaxLosses` bounds the lost connections, `MaxInFlight` the messages on one way,
`MaxRevision` and `MaxRematches` where users stop moving and asking.

Deadlock is checked in every run but `table` and `viol_dead_board`, where users
may have made all their requests and simply stop; elsewhere some request, restart
or connection is always possible.

**Fairness.** `Continue(h)`: the event loop resumes a handler whose query has
ended. `RunQuery(h)`: PostgreSQL answers a query it was sent. Both weak, per
handler, as the code has no other wait. In `Gateway`, `TimeOut(r) \/ Die(r)`: an
armed timer fires; `PublishReturns(r)`: the client library resolves `publish`
once Redis has taken the message. Redis itself and the services are not fair: a
message may stay in the client or at a service for ever. Clients are not fair:
nothing says that anybody sends a request.

## 4. Proofs

`MonolithProofs` proves, for every set of players, moves and handlers and every
bound, `TypeOK`, `GameCoherent`, `DatabaseCoherent` and
`HistoryIntactUntilRestart` as invariants of `Spec`. Assumptions: `Outcome` is a
function on moves, `NoPlayer` is not a player, the creator is one, the bounds are
naturals.

`GameCoherent` alone is not inductive: a restart makes the row the session
object, an UPDATE makes the values of a suspended save the row, and those values
are the object at an earlier moment. The inductive invariant `IInv` says all three
are well-typed and coherent. `GameSessionProofs` has one lemma per rule
(`SeatedGood`, `StartedGood`, `CompletedGood`, ...); the long one is
`MovedPosition`, which shows that a move made in a game in progress extends a
position in which nothing before it ended the game. The step lemmas are by
request (`RequestIInv`), continuation (`ContinueIInv`), query (`DatabaseIInv`) and
reload (`ReloadIInv`).

`ServicesProofs` proves `TypeOK`, `DatabaseCoherent`, `FullRoomStarted`,
`CreatorKeepsWhite` and `SettledGuestStays` for any number of requests in any overlap,
with any failures and all kinds overlapping. The row alone is not inductive: an UPDATE
stores what a request computed from what it read earlier. The inductive invariant says
the same of every copy, and that a copy that was found is of the room the row is of
(`SameRoom`), which is why a stale write cannot replace the creator. The guest is
different: two joins that have read the open seat both get it (section 5). What holds
is `SettledGuestStays`: once the row has a guest and no request in progress has read
the room otherwise, no later request can store another one, and a join that is still
to be answered is the guest's own (`JoinAnswered`).

`GatewayProofs` proves every safety property of the gateway, the action property
`LateRepliesDropped` included. They hold together only: that the registry has no entry
for a socket that is gone needs that a socket disconnects once (`OneDisconnect`), that
a new member of the room is initialised needs that its request was sent after HELLO
(`SendersKnown`), and that exactly the pending requests have timers needs to know
where a message may be in each state of its handler (`MessagesMatchStates`). Pending
includes the orphan, whose handler has failed with `publish` while its timer is still
armed. One lemma per action, one step per conjunct.

The same invariant makes the gateway a `Relay` (`GatewayImplementsRelay`). A request
is an open call exactly while its handler is in one of three states, so that a step
either leaves every call as it was (`SameCalls`) or begins or ends one (`OneCall`).
Two facts about states carry it: a handler that ends had a request
(`MessagesMatchStates`), and a socket that leaves without a disconnect is no member
(`RoomMembersKnown`).

`MonolithProofs` ends with what holds when requests do not overlap (one handler):
`SuccessIsDurable`, `DurableWhenIdle` and `TablesOneRequestApart`. Their invariant
`Follows` says how far the database is behind memory at each await: a query that is
under way has the values of the session (`QueryFits`), the row is the session once the
save has run (`RowFollows`), the move rows are the list once the INSERT or the DELETE
has (`MovesFollow`).

`TablesOneRequestApart` is about crashes: the move rows are those of the row, or one
INSERT ahead of it, or already deleted for a rematch. A crash at that moment makes the
pair the session object, so `OneApart` says the same of the object and its list. The
distance does not grow, because the code refuses every move of a game whose list does
not replay to its position (`moveService.js:163`), and a rematch brings both to the
start. A query that fails may leave more, and the property ends there.

`MonolithRefinement` proves that the monolith implements `ChessGame`, for any
number of overlapping requests, crashes and lost connections. That each rule is a
step of the chess game is proved once, for coherent sessions, in
`GameSessionProofs` (`SeatedView`, `MovedView`, `RematchStartedView`, ...). What is
left is `saved`, the states a restart may load: it grows by the current game only,
because an UPDATE carries the session as it is at the call of `saveSession`
(`SavesGame`), and a restart picks one of them (`ReloadStep`).

`ServicesRefinement` proves `AcceptedMoveStored` and `PlayableWhenQuiet` for every
behaviour in which nothing overlaps a move but moves and nothing overlaps a rematch:
`Spec /\ []MovesApart => []...`. The hypothesis is about the clients. The code does not
ensure it, and without it both are false: a resume beside a move is enough
(`viol_lost_move`). The invariant `RInv`: of a move, the copy is the row or the next
revision of the copy is taken (`CopyFresh`), so that whoever inserts has read the
current row, and nobody else can insert before the row is saved (`MovePending`,
`OneMovePending`). UNIQUE (game_id, revision_applied) is a lock. A request of the
session service may write back a row that has changed since, but never another
position. That the row goes through the states of one chess game
(`ServicesImplementChessGame`) needs more, that only moves overlap at all
(`Overlapping \subseteq {"move"}`): two resignations or two joins that overlap store
a result or a guest over the other one's. There a request other than a move is alone
and its copy is the row (`CopiesFresh`).

`TableProofs` proves `TypeOK`, `SeatPresence`, `OnlyCreationLeavesGhosts`,
`PresentPlayersHear`, `ViewsAdvance` and `MovesAsSeen` for any players, connections,
losses and messages in flight. The heart is `Earlier`: whatever a page shows, whatever
is on its way to it, and whatever a sent move was made in, is the session of an
earlier moment, and is the same position if the revision is the same. That a page
never goes back needs more: what is on one connection is in order (`DownOrdered`),
what is shown came before it (`ViewBeforeDown`), and nothing is left on a connection
the tab has closed (`DownWhileOpen`). Presence needs that a connection not opened yet
has not been used (`LinesFresh`, `SeatsKnown`, `WaitingKnown`). `SeatPresence` is
weaker for the creator than for the guest, whose seat is also marked when its own
socket closes: the creator's socket may be closed before the session exists.
`OnlyCreationLeavesGhosts` says that this is the only way: no step that finds a
session makes a seat connected over a socket that is not open (`HandlerSeatStep`,
`DisconnectSeatStep`). Assumptions: those of `GameSession`, and that the bounds are
naturals.

`TableGameProofs` proves for the same constants that the table implements
`ChessGame` (`AlwaysOneChessGame`, `TableImplementsChessGame`): each handler that
changes the session is a step of the game, by the lemmas of `GameSessionProofs`, and
every refusal, answer and disconnect is none. `MaxPlies` is `MaxRevision` there,
which bounds where users move and not what the server accepts; that no accepted move
exceeds it is an invariant of the messages (`SmallSent`).

It also proves `QuietViewsCurrent`. The invariant `VInv` speaks of what a page *will*
show: of every page in the room, once it has received what is on its way to it, or
else a handler is still to announce the game (`StatePending`), and the same for the
consents to a rematch (`ConsentPending`). An announcement is written from the
session as it is then, so a handler that changes the session may leave every page
wrong, as long as it suspends before one, and whichever announcement comes last is a
true one; its messages are behind all earlier ones on every line. Beside it only two
facts are needed: a line that is open at the tab's end is its last one
(`LastLineOpen`), and who is in the room is open at the server's end and in a room
that has a session (`RoomKnown`).

Only model-checked: the liveness properties, which TLAPS cannot reach
(`RequestsAnswered`, `SecondPlayerStartsGame`, `HandlersEnd`,
`ClosedSocketsForgotten`).

## 5. Findings

Four statements of the documentation and comments do not hold of the code; the
`viol_*` runs show the shortest behaviour, `findings` in `PROJECT.json` quotes the
lines. More behaviours are in the models, without a run of their own:

* A crash between the two saves of a join (`gameLifecycleService.js:99-112`)
  reloads a room with two players that is still waiting: it can neither be joined
  nor started.
* Two decomposed joins that overlap both read the empty seat and are both answered
  GAME_JOINED as black (`session/index.js:98-128`); the row keeps the one stored last,
  and the other player is refused from then on. GAME_FULL (line 111) answers a join
  only when the seat was taken before it read the row; `SettledGuestStays` says what
  can be relied on.
* A rematch that overlaps another request's save and then a restart loads a new
  game with the old game's move rows: `requestRematch` resets the session before
  its DELETE has run (`gameLifecycleService.js:224-241`).
* Revisions start again at 0 after a rematch (`moveService.js:114`). A move left on
  a half-open connection and handled after the rematch is accepted in the new game
  if the revisions agree and it is that player's turn. `MovesAsSeen` therefore
  speaks of one game.
* A GAME_RESUME left on a connection that its client has given up takes the seat
  back to that socket when it is handled after the resume on the next one
  (`gameLifecycleService.js:154`). When the old socket closes, a player who is
  there is reported as gone.
* The creator's socket may close while GAME_CREATE waits for its INSERT
  (`gameLifecycleService.js:45`): the session is stored with `connected: true` for
  a dead socket, and nothing marks that seat. `SeatPresence` leaves this seat out;
  `OnlyCreationLeavesGhosts` says that nothing else leaves one.
* The button 'Resume This Game' (`App.jsx:642-650`) is shown only while the page
  is not connected and enabled only when it is initialised, which a disconnect
  resets: it can never be used. Resuming is possible from the menu.
* The creator may join the own room as black (`stateMachine.js:8`).
  `getPlayerColour` then finds the white seat only and nobody can answer white's
  first move.
* A decomposed request reads the row and the moves in two SELECTs
  (`sessionRepository.js:72-87`). A move stored in between makes a pair that was
  never stored, and a legal move is refused.

## 6. Not modelled, and the plan

Done: `GameSession`, `ChessGame`, `Monolith`, `Services`, `Gateway`, `Table`, the
proofs of their safety properties, and the refinements. Not modelled:

* Two session objects for one game and several rooms: a lookup by room name
  between the INSERT and the entry in the map (`sessionStore.js:140`), and a socket
  that plays in two games (`sessionStore.js:247`). A module `MonolithRooms` would
  have sessions by game and sockets in several of them.
* Presence in the decomposed backend: its flags are rebuilt on every read and live
  for one reply, so that only the text of a message can be wrong
  (`session/index.js:462`).
* Messages of the decomposed backend to the clients: `Gateway` keeps who receives
  them, not what they say.
* Queries of a killed process that run while the next one loads the tables.
* Metrics, configuration, benchmarks and the scripts that prepare data: nothing a
  game depends on is decided there.

Next: `MonolithRooms`. Every safety property that a run checks is proved.
