----------------------------- MODULE GameServer -----------------------------
(***************************************************************************)
(* The handlers of the monolith as their clients meet them, for one room:  *)
(* the registry of connections, the socket of each player in the session,  *)
(* and the messages, written after the awaits from the session as it is    *)
(* then.                                                                   *)
(*                                                                         *)
(* The database answers every query here; what it stores is the subject of *)
(* the module Monolith.  `waiting' counts the handlers of a socket that    *)
(* await the same thing.  Two awaits are one where nothing in memory       *)
(* changes between them, and where another handler could only look the     *)
(* room up in between.                                                     *)
(***************************************************************************)
EXTENDS Connection

VARIABLES
  registry,  \* connectionRegistry: "absent", "registered" or "initialised"
  session,   \* the session in the map, or NoSession
  room,      \* the sockets in the Socket.IO room of the game
  waiting    \* for each socket, how many of its handlers await what

server == <<registry, session, room, waiting>>

\* number: the rematches so far (a history variable); seat and connected: the
\* socketId and the flag of each seat.
NoSession == [number |-> 0, game |-> NoPlayer,
              seat |-> [c \in Colours |-> NoLine],
              connected |-> [c \in Colours |-> FALSE]]

\* What a handler does after its await.
Continuations == {"create", "seat", "start", "move", "resign", "status",
                  "restart", "resume", "disconnect"}

Exists == session # NoSession
Game == session.game

\* buildStateSyncPayload
Snapshot(x) == [number |-> x.number, game |-> x.game]
StateMessage(x) == [type |-> "STATE", view |-> Snapshot(x)]

ServerInit ==
  /\ registry = [s \in Lines |-> "absent"]
  /\ session = NoSession
  /\ room = {}
  /\ waiting = [s \in Lines |-> [k \in Continuations |-> 0]]

Suspend(s, k) == waiting' = [waiting EXCEPT ![s][k] = @ + 1]

Return(s, k) ==
  /\ waiting[s][k] > 0
  /\ waiting' = [waiting EXCEPT ![s][k] = @ - 1]

\* The player that HELLO named for this socket.
PlayerOf(s) == s[1]

-----------------------------------------------------------------------------
(* The early returns of the handlers and of the services they call *)

\* Mutant: the revision is not compared.
AcceptsAnyRevision(s, msg) == CanSubmitMove(Game) /\ IsPlayersTurn(Game, PlayerOf(s))

AcceptsMove(s, msg) ==
  /\ CanSubmitMove(Game)
  /\ msg.expectedRevision = Game.revision
  /\ IsPlayersTurn(Game, PlayerOf(s))

Accepts(s, msg) ==
  \/ msg.type = "HELLO"
  \/ /\ registry[s] = "initialised"
     /\ Exists <=> msg.type # "GAME_CREATE"
     /\ msg.type = "GAME_JOIN" => CanJoinSession(Game)
     /\ msg.type \notin {"GAME_CREATE", "GAME_JOIN"} =>
          SeatOf(Game, PlayerOf(s)) # "null"
     /\ msg.type = "REMATCH_REQUEST" => Game.state = "FINISHED"
     /\ msg.type = "RESIGN" => Game.state = "IN_PROGRESS"
     /\ msg.type = "MOVE_SUBMIT" => AcceptsMove(s, msg)

\* The message at the head of a connection is received.
Receive(s) ==
  /\ there[s] = "open"
  /\ up[s] # << >>
  /\ up' = [up EXCEPT ![s] = Tail(@)]
  /\ UNCHANGED <<here, there>>

\* A request is accepted; its handler will answer after an await.
Request(s, type) ==
  /\ Receive(s)
  /\ Head(up[s]).type = type
  /\ Accepts(s, Head(up[s]))
  /\ UNCHANGED <<down, registry, room>>

\* Every other request is answered with an error and changes nothing.
Refuse(s) ==
  /\ Receive(s)
  /\ ~ Accepts(s, Head(up[s]))
  /\ UNCHANGED <<down, server>>

-----------------------------------------------------------------------------
(* Connections *)

RegisterSocket(s) ==
  /\ registry' = [registry EXCEPT ![s] = "registered"]
  /\ UNCHANGED <<session, room, waiting>>

Hello(s) ==
  /\ Receive(s)
  /\ Head(up[s]).type = "HELLO"
  /\ registry' = [registry EXCEPT ![s] = "initialised"]
  /\ down' = Emitted({s}, [type |-> "WELCOME"])
  /\ UNCHANGED <<session, room, waiting>>

\* Mutant: the player of the socket is marked, whatever socket he has now.
PlayerDisconnected(x, s) ==
  [x EXCEPT !.connected =
     [c \in Colours |-> @[c] /\ SeatOf(x.game, PlayerOf(s)) # c]]

\* The seats whose player uses this socket.
SocketDisconnected(x, s) ==
  [x EXCEPT !.connected = [c \in Colours |-> @[c] /\ x.seat[c] # s]]

\* The disconnect handler up to its save.
HandleDisconnect(s) ==
  /\ CloseThere(s)
  /\ room' = room \ {s}
  /\ IF \E c \in Colours : session.seat[c] = s
     THEN /\ session' = SocketDisconnected(session, s)
          /\ Suspend(s, "disconnect")
          /\ UNCHANGED registry
     ELSE /\ registry' = [registry EXCEPT ![s] = "absent"]
          /\ UNCHANGED <<session, waiting>>

-----------------------------------------------------------------------------
(* The handlers up to their await *)

CreateGame(s) ==
  /\ Request(s, "GAME_CREATE")
  /\ Suspend(s, "create")
  /\ UNCHANGED session

JoinGame(s) ==
  /\ Request(s, "GAME_JOIN")
  /\ session' = [session EXCEPT !.game = Seated(@, PlayerOf(s)),
                                !.seat["black"] = s, !.connected["black"] = TRUE]
  /\ Suspend(s, "seat")

ResumeGame(s) ==
  LET c == SeatOf(Game, PlayerOf(s))
  IN /\ Request(s, "GAME_RESUME")
     /\ session' = [session EXCEPT !.seat[c] = s, !.connected[c] = TRUE]
     /\ Suspend(s, "resume")

SubmitMove(s) ==
  LET m == Head(up[s]).move
  IN /\ Request(s, "MOVE_SUBMIT")
     /\ session' = [session EXCEPT !.game = Completed(Moved(@, m), m)]
     /\ Suspend(s, "move")

ResignGame(s) ==
  /\ Request(s, "RESIGN")
  /\ session' = [session EXCEPT !.game = Resigned(@, SeatOf(@, PlayerOf(s)))]
  /\ Suspend(s, "resign")

RequestRematch(s) ==
  LET asked == RematchAsked(Game, SeatOf(Game, PlayerOf(s)))
  IN /\ Request(s, "REMATCH_REQUEST")
     /\ \/ /\ ~ BothPlayersAccepted(asked)
           /\ session' = [session EXCEPT !.game = asked]
           /\ Suspend(s, "status")
        \/ /\ BothPlayersAccepted(asked)
           /\ session' = [session EXCEPT !.game = RematchStarted(@),
                                         !.number = @ + 1]
           /\ Suspend(s, "restart")

-----------------------------------------------------------------------------
(* What follows the await *)

\* socket.join does nothing for a socket that has closed.
EnterRoom(s) == room' = IF there[s] = "open" THEN room \cup {s} ELSE room

\* createGame after its awaits: the session enters the map.
CreateSession(s) ==
  LET new == [number |-> 0, game |-> CreatedBy(PlayerOf(s)),
              seat |-> [c \in Colours |-> IF c = "white" THEN s ELSE NoLine],
              connected |-> [c \in Colours |-> c = "white"]]
  IN /\ Return(s, "create")
     /\ ~ Exists
     /\ session' = new
     /\ EnterRoom(s)
     /\ Emit({s} \cap room', StateMessage(new))
     /\ UNCHANGED registry

\* Two creations overlap: the second INSERT breaks UNIQUE (room_name).
FailToCreate(s) ==
  /\ Return(s, "create")
  /\ Exists
  /\ UNCHANGED <<wires, registry, session, room>>

\* joinGame after its first save.
StartGame(s) ==
  /\ waiting[s]["seat"] > 0
  /\ waiting' = [waiting EXCEPT ![s]["seat"] = @ - 1, ![s]["start"] = @ + 1]
  /\ session' = [session EXCEPT !.game = IF IsReadyToStart(@) THEN Started(@) ELSE @]
  /\ UNCHANGED <<wires, registry, room>>

\* Mutant: only the socket that joined is told that the game has started.
AnswerJoinAlone(s) ==
  /\ Return(s, "start")
  /\ EnterRoom(s)
  /\ Emit({s} \cap room', StateMessage(session))
  /\ UNCHANGED <<registry, session>>

\* GAME_JOINED, then GAME_START and STATE_SYNC to the room.
AnswerJoin(s) ==
  /\ Return(s, "start")
  /\ EnterRoom(s)
  /\ Emit(room', StateMessage(session))
  /\ UNCHANGED <<registry, session>>

\* MOVE_ACCEPTED, then STATE_UPDATE to the room, and GAME_CONCLUDED with
\* STATE_SYNC if the game is over.
AnswerMove(s) ==
  /\ Return(s, "move")
  /\ Emit(room, StateMessage(session))
  /\ UNCHANGED <<registry, session, room>>

\* GAME_CONCLUDED and STATE_SYNC to the room.
AnswerResign(s) ==
  /\ Return(s, "resign")
  /\ Emit(room, StateMessage(session))
  /\ UNCHANGED <<registry, session, room>>

AnswerRematchStatus(s) ==
  /\ Return(s, "status")
  /\ Emit(room, [type |-> "REMATCH_STATUS", rematch |-> Game.rematch])
  /\ UNCHANGED <<registry, session, room>>

\* REMATCH_START and STATE_SYNC to the room.
AnswerRematchStart(s) ==
  /\ Return(s, "restart")
  /\ Emit(room, StateMessage(session))
  /\ UNCHANGED <<registry, session, room>>

\* Mutant: the socket of the player is not put into the room again.
AnswerResumeOutside(s) ==
  /\ Return(s, "resume")
  /\ Emit({x \in {s} : there[x] = "open"}, StateMessage(session))
  /\ UNCHANGED <<registry, session, room>>

\* Mutant: the seat is marked as connected once more, after the save.
AnswerResumeConnected(s) ==
  /\ Return(s, "resume")
  /\ session' = [session EXCEPT !.connected =
                   [c \in Colours |-> @[c] \/ session.seat[c] = s]]
  /\ EnterRoom(s)
  /\ Emit({s} \cap room', StateMessage(session'))
  /\ UNCHANGED registry

\* GAME_RESUMED and STATE_SYNC to the socket that resumed.
AnswerResume(s) ==
  /\ Return(s, "resume")
  /\ EnterRoom(s)
  /\ Emit({s} \cap room', StateMessage(session))
  /\ UNCHANGED <<registry, session>>

\* PLAYER_LEFT and STATE_SYNC to the room.
ReportDisconnect(s) ==
  /\ Return(s, "disconnect")
  /\ registry' = [registry EXCEPT ![s] = "absent"]
  /\ Emit(room, StateMessage(session))
  /\ UNCHANGED <<session, room>>

Handler(s) ==
  \/ Hello(s)
  \/ CreateGame(s)
  \/ JoinGame(s)
  \/ ResumeGame(s)
  \/ SubmitMove(s)
  \/ ResignGame(s)
  \/ RequestRematch(s)
  \/ Refuse(s)

Continuation(s) ==
  \/ CreateSession(s)
  \/ FailToCreate(s)
  \/ StartGame(s)
  \/ AnswerJoin(s)
  \/ AnswerMove(s)
  \/ AnswerResign(s)
  \/ AnswerRematchStatus(s)
  \/ AnswerRematchStart(s)
  \/ AnswerResume(s)
  \/ ReportDisconnect(s)
=============================================================================
