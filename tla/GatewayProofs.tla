---------------------------- MODULE GatewayProofs ----------------------------
(***************************************************************************)
(* For any number of sockets and of requests in progress, however Redis    *)
(* and the services lose and delay messages and whenever the gateway dies: *)
(* its maps match each other and the sockets, no late reply has an effect, *)
(* and the gateway implements the relay.                                   *)
(*                                                                         *)
(* The properties are inductive once it is known what a request implies:   *)
(* where its message may be in each state of its handler, that its socket  *)
(* was initialised when it was sent, and that a socket disconnects once.   *)
(***************************************************************************)
EXTENDS GatewayProperties, TLAPS

\* Where the message of a request may be.
MessagesMatchStates ==
  \A r \in Requests :
    /\ request[r] = NoRequest <=> state[r] = "idle" /\ bus[r] = "none"
    /\ bus[r] = "queued" => state[r] = "publishing"
    /\ state[r] \in {"answered", "orphan"} => bus[r] = "none"

\* A client's request comes from a socket that has completed HELLO, a
\* disconnect from one that has closed.
SendersKnown ==
  \A r \in Requests : request[r] # NoRequest =>
    /\ socket[request[r].socket] # "new"
    /\ socket[request[r].socket] = "open" =>
         request[r].kind # "disconnect" /\ registry[request[r].socket].initialised

OneDisconnect ==
  \A q, r \in Requests, s \in Sockets :
    request[q] = Call("disconnect", s) /\ request[r] = Call("disconnect", s) => q = r

\* The inductive invariant.
IInv ==
  /\ TypeOK
  /\ MessagesMatchStates
  /\ SendersKnown
  /\ OneDisconnect
  /\ TimersMatchPending
  /\ RegistryMatchesSockets
  /\ RoomMembersKnown

-----------------------------------------------------------------------------
(* What the end of a handler does to the registry and to the room. *)

LEMMA CallOf ==
  ASSUME IInv, NEW r \in Requests, request[r] # NoRequest
  PROVE  /\ request[r] \in Calls
         /\ request[r].socket \in Sockets
         /\ request[r] = Call(request[r].kind, request[r].socket)
BY DEF IInv, TypeOK, Calls, Call

\* Only a disconnect removes its entry.
LEMMA FinallyEffect ==
  ASSUME IInv, NEW r \in Requests, request[r] # NoRequest, Finally(r)
  PROVE  /\ registry' \in [Sockets -> Entries]
         /\ \A s \in Sockets :
              registry'[s] = IF request[r] = Call("disconnect", s) THEN NoEntry
                                                                  ELSE registry[s]
<1>1. NoEntry \in Entries
  BY DEF NoEntry, Entries
<1>2. registry \in [Sockets -> Entries]
  BY DEF IInv, TypeOK
<1>3. CASE request[r].kind = "disconnect"
  <2>1. registry' = [registry EXCEPT ![request[r].socket] = NoEntry]
    BY <1>3 DEF Finally, RemoveSocket
  <2>2. \A s \in Sockets : request[r] = Call("disconnect", s) <=> s = request[r].socket
    BY <1>3, CallOf DEF Call
  <2> QED BY <1>1, <1>2, <2>1, <2>2, CallOf
<1>4. CASE request[r].kind # "disconnect"
  <2>1. registry' = registry
    BY <1>4 DEF Finally
  <2>2. \A s \in Sockets : request[r] # Call("disconnect", s)
    BY <1>4 DEF Call
  <2> QED BY <1>2, <2>1, <2>2
<1> QED BY <1>3, <1>4

\* The actions of a reply admit at most the sender, and only while it is open.
LEMMA ExecuteEffect ==
  ASSUME IInv, NEW r \in Requests, request[r] # NoRequest, ExecuteGatewayActions(r)
  PROVE  /\ registry' \in [Sockets -> Entries]
         /\ room' \subseteq Sockets
         /\ socket' = socket
         /\ \A s \in Sockets :
              /\ registry'[s].present <=>
                   registry[s].present /\ request[r] # Call("disconnect", s)
              /\ socket[s] = "open" =>
                   /\ registry[s].initialised => registry'[s].initialised
                   /\ registry[s].activeGame => registry'[s].activeGame
         /\ \A s \in room' \ room :
              /\ request[r] = Call("enter", s)
              /\ socket[s] = "open"
              /\ registry'[s].initialised /\ registry'[s].activeGame
<1>1. registry \in [Sockets -> Entries] /\ room \subseteq Sockets
  BY DEF IInv, TypeOK
<1>2. CASE request[r].kind = "enter" /\ Enter(r)
  <2> DEFINE t == request[r].socket
  <2>1. t \in Sockets /\ request[r] = Call("enter", t)
    BY <1>2, CallOf
  <2>2. \A s \in Sockets : request[r] # Call("disconnect", s)
    BY <1>2 DEF Call
  <2>3. registry' = [registry EXCEPT ![t].activeGame = @ \/ registry[t].present]
    BY <1>2 DEF Enter, SetActiveGame
  <2>4. /\ registry' \in [Sockets -> Entries]
        /\ \A s \in Sockets : s # t => registry'[s] = registry[s]
        /\ registry'[t].present = registry[t].present
        /\ registry'[t].initialised = registry[t].initialised
        /\ registry'[t].activeGame = (registry[t].activeGame \/ registry[t].present)
    BY <1>1, <2>1, <2>3 DEF Entries
  <2>5. room' = IF socket[t] = "open" THEN room \cup {t} ELSE room
    BY <1>2 DEF Enter
  <2>6. socket[t] = "open" => registry[t].present /\ registry[t].initialised
    BY <2>1 DEF IInv, RegistryMatchesSockets, SendersKnown
  <2> HIDE DEF t
  <2> QED BY <1>1, <2>1, <2>2, <2>4, <2>5, <2>6 DEF ExecuteGatewayActions
<1>3. CASE Finally(r) /\ room' = room
  <2>1. \A s \in Sockets : request[r] = Call("disconnect", s) => socket[s] # "open"
    BY DEF IInv, SendersKnown, Call
  <2>2. ~ NoEntry.present
    BY DEF NoEntry
  <2> QED BY <1>1, <1>3, <2>1, <2>2, FinallyEffect DEF ExecuteGatewayActions
<1> QED BY <1>2, <1>3 DEF ExecuteGatewayActions

LEMMA EndHandlerEffect ==
  ASSUME IInv, NEW r \in Requests, EndHandler(r)
  PROVE  /\ state' \in [Requests -> States]
         /\ request' \in [Requests -> Calls \cup {NoRequest}]
         /\ state'[r] = "idle"
         /\ request'[r] \in {request[r], NoRequest}
         /\ \A q \in Requests \ {r} : state'[q] = state[q] /\ request'[q] = request[q]
BY DEF IInv, TypeOK, EndHandler, States

-----------------------------------------------------------------------------
(* Every step keeps the invariant. *)

LEMMA ConnectKeeps ==
  ASSUME IInv, NEW s \in Sockets, Connect(s)
  PROVE  IInv'
<1>1. TypeOK'
  BY DEF IInv, TypeOK, Connect, RegisterSocket, NewEntry, NoEntry, Entries,
    calls
<1>2. MessagesMatchStates'
  BY DEF IInv, MessagesMatchStates, Connect, calls
<1>3. SendersKnown'
  BY DEF IInv, SendersKnown, Connect, RegisterSocket, calls
<1>4. OneDisconnect'
  BY DEF IInv, OneDisconnect, Connect, calls
<1>5. TimersMatchPending'
  BY DEF IInv, TimersMatchPending, Connect, calls
<1>6. RegistryMatchesSockets'
  BY DEF IInv, RegistryMatchesSockets, Connect, RegisterSocket, NewEntry,
    calls, TypeOK
<1>7. RoomMembersKnown'
  BY DEF IInv, RoomMembersKnown, IsPlaying, Connect, RegisterSocket
<1> QED BY <1>1, <1>2, <1>3, <1>4, <1>5, <1>6, <1>7 DEF IInv

LEMMA HelloKeeps ==
  ASSUME IInv, NEW s \in Sockets, Hello(s)
  PROVE  IInv'
<1>1. TypeOK'
  BY DEF IInv, TypeOK, Hello, MarkInitialised, Entries, calls
<1>2. MessagesMatchStates'
  BY DEF IInv, MessagesMatchStates, Hello, calls
<1>3. SendersKnown'
  BY DEF IInv, SendersKnown, Hello, MarkInitialised, calls
<1>4. OneDisconnect'
  BY DEF IInv, OneDisconnect, Hello, calls
<1>5. TimersMatchPending'
  BY DEF IInv, TimersMatchPending, Hello, calls
<1>6. RegistryMatchesSockets'
  BY DEF IInv, RegistryMatchesSockets, Hello, MarkInitialised, calls
<1>7. RoomMembersKnown'
  BY DEF IInv, RoomMembersKnown, IsPlaying, Hello, MarkInitialised
<1> QED BY <1>1, <1>2, <1>3, <1>4, <1>5, <1>6, <1>7 DEF IInv

LEMMA ForwardKeeps ==
  ASSUME IInv, NEW r \in Requests, NEW s \in Sockets, Forward(r, s)
  PROVE  IInv'
<1>1. TypeOK'
  BY DEF IInv, TypeOK, Forward, SendInternalRequest, clients, Calls, Call,
    States, Places
<1>2. MessagesMatchStates'
  BY DEF IInv, TypeOK, MessagesMatchStates, Forward, SendInternalRequest, Call,
    NoRequest
<1>3. SendersKnown'
  BY DEF IInv, SendersKnown, Forward, SendInternalRequest, clients,
    ClientKinds, Call
<1>4. OneDisconnect'
  BY DEF IInv, OneDisconnect, Forward, SendInternalRequest, ClientKinds, Call
<1>5. TimersMatchPending'
  BY DEF IInv, TimersMatchPending, Forward, SendInternalRequest, TypeOK
<1>6. RegistryMatchesSockets'
  BY DEF IInv, RegistryMatchesSockets, Forward, SendInternalRequest, Unused,
    clients, Call, NoRequest
<1>7. RoomMembersKnown'
  BY DEF IInv, RoomMembersKnown, IsPlaying, Forward, clients
<1> QED BY <1>1, <1>2, <1>3, <1>4, <1>5, <1>6, <1>7 DEF IInv

LEMMA LeaveKeeps ==
  ASSUME IInv, NEW s \in Sockets, Leave(s)
  PROVE  IInv'
<1>1. TypeOK'
  BY DEF IInv, TypeOK, Leave, Close, RemoveSocket, NoEntry, calls, Entries
<1>2. MessagesMatchStates'
  BY DEF IInv, MessagesMatchStates, Leave, calls
<1>3. SendersKnown'
  BY DEF IInv, SendersKnown, Leave, Close, RemoveSocket, calls, TypeOK
<1>4. OneDisconnect'
  BY DEF IInv, OneDisconnect, Leave, calls
<1>5. TimersMatchPending'
  BY DEF IInv, TimersMatchPending, Leave, calls
<1>6. RegistryMatchesSockets'
  BY DEF IInv, TypeOK, RegistryMatchesSockets, SendersKnown,
    MessagesMatchStates, Leave, Close, RemoveSocket, NoEntry, calls, Call
<1>7. RoomMembersKnown'
  BY DEF IInv, RoomMembersKnown, Leave, Close, IsPlaying, RemoveSocket
<1> QED BY <1>1, <1>2, <1>3, <1>4, <1>5, <1>6, <1>7 DEF IInv

LEMMA LeaveGameKeeps ==
  ASSUME IInv, NEW r \in Requests, NEW s \in Sockets, LeaveGame(r, s)
  PROVE  IInv'
<1>1. TypeOK'
  BY DEF IInv, TypeOK, LeaveGame, Close, SendInternalRequest, Calls, Call,
    States, Places
<1>2. MessagesMatchStates'
  BY DEF IInv, TypeOK, MessagesMatchStates, LeaveGame, SendInternalRequest,
    Call, NoRequest
<1>3. SendersKnown'
  BY DEF IInv, TypeOK, SendersKnown, LeaveGame, Close, SendInternalRequest,
    Call
<1>4. OneDisconnect'
  BY DEF IInv, LeaveGame, Close, SendInternalRequest, Unused, OneDisconnect,
    SendersKnown, Call
<1>5. TimersMatchPending'
  BY DEF IInv, TimersMatchPending, LeaveGame, SendInternalRequest, TypeOK
<1>6. RegistryMatchesSockets'
  BY DEF IInv, TypeOK, RegistryMatchesSockets, LeaveGame, Close,
    SendInternalRequest, Unused, Call, NoRequest
<1>7. RoomMembersKnown'
  BY DEF IInv, RoomMembersKnown, LeaveGame, Close, IsPlaying
<1> QED BY <1>1, <1>2, <1>3, <1>4, <1>5, <1>6, <1>7 DEF IInv

LEMMA TakeMessageKeeps ==
  ASSUME IInv, NEW r \in Requests, TakeMessage(r)
  PROVE  IInv'
<1>1. TypeOK'
  BY DEF IInv, TypeOK, TakeMessage, clients, calls, Places
<1>2. MessagesMatchStates'
  BY DEF IInv, MessagesMatchStates, TakeMessage, calls
<1>3. SendersKnown'
  BY DEF IInv, SendersKnown, TakeMessage, clients, calls
<1>4. OneDisconnect'
  BY DEF IInv, OneDisconnect, TakeMessage, calls
<1>5. TimersMatchPending'
  BY DEF IInv, TimersMatchPending, TakeMessage, calls
<1>6. RegistryMatchesSockets'
  BY DEF IInv, RegistryMatchesSockets, TakeMessage, clients, calls
<1>7. RoomMembersKnown'
  BY DEF IInv, RoomMembersKnown, IsPlaying, TakeMessage, clients
<1> QED BY <1>1, <1>2, <1>3, <1>4, <1>5, <1>6, <1>7 DEF IInv

LEMMA ServeKeeps ==
  ASSUME IInv, NEW r \in Requests, Serve(r)
  PROVE  IInv'
<1>1. TypeOK'
  BY DEF IInv, TypeOK, Serve, clients, Places
<1>2. MessagesMatchStates'
  BY DEF IInv, MessagesMatchStates, Serve, TypeOK
<1>3. SendersKnown'
  BY DEF IInv, SendersKnown, Serve, clients
<1>4. OneDisconnect'
  BY DEF IInv, OneDisconnect, Serve, Call, NoRequest
<1>5. TimersMatchPending'
  BY DEF IInv, TimersMatchPending, Serve
<1>6. RegistryMatchesSockets'
  BY DEF IInv, RegistryMatchesSockets, Serve, clients
<1>7. RoomMembersKnown'
  BY DEF IInv, RoomMembersKnown, IsPlaying, Serve, clients
<1> QED BY <1>1, <1>2, <1>3, <1>4, <1>5, <1>6, <1>7 DEF IInv

LEMMA PublishReturnsKeeps ==
  ASSUME IInv, NEW r \in Requests, PublishReturns(r)
  PROVE  IInv'
<1>a. request[r] # NoRequest
  BY DEF IInv, MessagesMatchStates, PublishReturns
<1>1. TypeOK'
  <2>1. bus[r] # "queued" /\ UNCHANGED <<pending, timers, bus>>
    BY DEF PublishReturns
  <2>2. CASE /\ state[r] = "publishing"
             /\ state' = [state EXCEPT ![r] = "waiting"]
             /\ UNCHANGED <<clients, request>>
    BY <2>1, <2>2 DEF IInv, TypeOK, States, clients
  <2>3. CASE state[r] = "answered" /\ EndHandler(r) /\ ExecuteGatewayActions(r)
    BY <1>a, <2>1, <2>3, ExecuteEffect, EndHandlerEffect DEF IInv, TypeOK
  <2> QED BY <2>2, <2>3 DEF PublishReturns
<1>2. MessagesMatchStates'
  BY DEF IInv, MessagesMatchStates, PublishReturns, EndHandler, TypeOK
<1>3. SendersKnown'
  BY DEF IInv, TypeOK, SendersKnown, MessagesMatchStates, PublishReturns,
    clients, EndHandler, ExecuteGatewayActions, Enter, SetActiveGame, Finally,
    RemoveSocket, NoEntry, Entries, Calls
<1>4. OneDisconnect'
  BY DEF IInv, TypeOK, OneDisconnect, PublishReturns, EndHandler, Call,
    NoRequest
<1>5. TimersMatchPending'
  BY DEF IInv, TimersMatchPending, PublishReturns, EndHandler, TypeOK
<1>6. RegistryMatchesSockets'
  BY DEF IInv, TypeOK, RegistryMatchesSockets, SendersKnown, OneDisconnect,
    MessagesMatchStates, PublishReturns, clients, EndHandler,
    ExecuteGatewayActions, Enter, SetActiveGame, Finally, RemoveSocket,
    NoEntry, Entries, Calls, Call, NoRequest, ClientKinds
<1>7. RoomMembersKnown'
  <2>1. CASE UNCHANGED clients
    BY <2>1 DEF IInv, RoomMembersKnown, clients, IsPlaying
  <2>2. CASE ExecuteGatewayActions(r)
    BY <1>a, <2>2, ExecuteEffect DEF IInv, TypeOK, RoomMembersKnown, IsPlaying
  <2> QED BY <2>1, <2>2 DEF PublishReturns, clients
<1> QED BY <1>1, <1>2, <1>3, <1>4, <1>5, <1>6, <1>7 DEF IInv

LEMMA PublishFailsKeeps ==
  ASSUME IInv, NEW r \in Requests, PublishFails(r)
  PROVE  IInv'
<1>a. request[r] # NoRequest
  BY DEF IInv, MessagesMatchStates, PublishFails
<1>1. TypeOK'
  BY <1>a, FinallyEffect DEF IInv, TypeOK, PublishFails, States, Places
<1>2. MessagesMatchStates'
  BY DEF IInv, MessagesMatchStates, PublishFails, TypeOK
<1>3. SendersKnown'
  BY DEF IInv, TypeOK, SendersKnown, PublishFails, Finally, RemoveSocket,
    Calls, Call, NoRequest
<1>4. OneDisconnect'
  BY DEF IInv, OneDisconnect, PublishFails
<1>5. TimersMatchPending'
  BY DEF IInv, TimersMatchPending, MessagesMatchStates, PublishFails
<1>6. RegistryMatchesSockets'
  BY DEF IInv, TypeOK, RegistryMatchesSockets, SendersKnown, OneDisconnect,
    MessagesMatchStates, PublishFails, Finally, RemoveSocket, NoEntry, Calls,
    Call
<1>7. RoomMembersKnown'
  BY DEF IInv, TypeOK, RoomMembersKnown, SendersKnown, MessagesMatchStates,
    IsPlaying, PublishFails, Finally, RemoveSocket
<1> QED BY <1>1, <1>2, <1>3, <1>4, <1>5, <1>6, <1>7 DEF IInv

LEMMA ReceiveReplyKeeps ==
  ASSUME IInv, NEW r \in Requests, ReceiveReply(r)
  PROVE  IInv'
<1>a. request[r] # NoRequest
  BY DEF IInv, MessagesMatchStates, ReceiveReply
<1>1. TypeOK'
  <2>1. bus' = [bus EXCEPT ![r] = "none"]
    BY DEF ReceiveReply
  <2>2. CASE r \in pending /\ EndHandler(r) /\ ExecuteGatewayActions(r)
             /\ pending' = pending \ {r} /\ timers' = timers \ {r}
    BY <1>a, <2>1, <2>2, ExecuteEffect, EndHandlerEffect DEF IInv, TypeOK, Places
  <2>3. CASE r \in pending /\ state' = [state EXCEPT ![r] = "answered"]
             /\ pending' = pending \ {r} /\ timers' = timers \ {r}
             /\ UNCHANGED <<clients, request>>
    BY <2>1, <2>3 DEF IInv, TypeOK, States, Places, clients
  <2>4. CASE r \notin pending
    BY <2>1, <2>4 DEF ReceiveReply, IInv, TypeOK, Places, clients
  <2> QED BY <2>2, <2>3, <2>4 DEF ReceiveReply, Resolve
<1>2. MessagesMatchStates'
  BY DEF IInv, MessagesMatchStates, ReceiveReply, Resolve, EndHandler, TypeOK
<1>3. SendersKnown'
  BY DEF IInv, TypeOK, SendersKnown, ReceiveReply, Resolve, clients,
    EndHandler, ExecuteGatewayActions, Enter, SetActiveGame, Finally,
    RemoveSocket, NoEntry, Entries, Calls, Call, NoRequest
<1>4. OneDisconnect'
  BY DEF IInv, TypeOK, OneDisconnect, ReceiveReply, Resolve, EndHandler, Call,
    NoRequest
<1>5. TimersMatchPending'
  BY DEF IInv, TypeOK, TimersMatchPending, MessagesMatchStates, ReceiveReply,
    Resolve, EndHandler
<1>6. RegistryMatchesSockets'
  <2>1. CASE /\ r \in pending /\ state[r] = "waiting"
             /\ EndHandler(r) /\ ExecuteGatewayActions(r)
    <3>1. \A s \in Sockets, q \in Requests :
            q # r /\ request[q] = Call("disconnect", s) => request[r] # Call("disconnect", s)
      BY DEF IInv, OneDisconnect
    <3>2. \A s \in Sockets : request[r] = Call("disconnect", s) => socket[s] # "open"
      BY <1>a DEF IInv, SendersKnown, Call
    <3> QED BY <1>a, <2>1, <3>1, <3>2, ExecuteEffect, EndHandlerEffect
         DEF IInv, RegistryMatchesSockets
  <2>2. CASE UNCHANGED clients /\ UNCHANGED request /\ state[r] = "publishing"
             /\ state' = [state EXCEPT ![r] = "answered"]
    BY <2>2 DEF IInv, TypeOK, RegistryMatchesSockets, clients
  <2>3. CASE UNCHANGED <<clients, state>>
             /\ request' = [request EXCEPT ![r] = IF state[r] = "idle" THEN NoRequest ELSE @]
    BY <2>3 DEF IInv, TypeOK, RegistryMatchesSockets, clients
  <2> QED BY <2>1, <2>2, <2>3 DEF ReceiveReply, Resolve, clients
<1>7. RoomMembersKnown'
  <2>1. CASE UNCHANGED clients
    BY <2>1 DEF IInv, RoomMembersKnown, clients, IsPlaying
  <2>2. CASE ExecuteGatewayActions(r)
    BY <1>a, <2>2, ExecuteEffect DEF IInv, TypeOK, RoomMembersKnown, IsPlaying
  <2> QED BY <2>1, <2>2 DEF ReceiveReply, Resolve, clients
<1> QED BY <1>1, <1>2, <1>3, <1>4, <1>5, <1>6, <1>7 DEF IInv

LEMMA TimeOutKeeps ==
  ASSUME IInv, NEW r \in Requests, TimeOut(r)
  PROVE  IInv'
<1>a. request[r] # NoRequest
  BY DEF IInv, MessagesMatchStates, TimeOut
<1>1. TypeOK'
  BY <1>a, FinallyEffect, EndHandlerEffect DEF IInv, TypeOK, TimeOut, FailHandler
<1>2. MessagesMatchStates'
  BY DEF IInv, MessagesMatchStates, TimeOut, EndHandler, FailHandler, TypeOK
<1>3. SendersKnown'
  BY DEF IInv, TypeOK, SendersKnown, TimeOut, EndHandler, FailHandler, Finally,
    RemoveSocket, Calls, NoRequest
<1>4. OneDisconnect'
  BY DEF IInv, OneDisconnect, TimeOut, EndHandler, FailHandler, Call, NoRequest
<1>5. TimersMatchPending'
  BY DEF IInv, TimersMatchPending, TimeOut, EndHandler, FailHandler, TypeOK
<1>6. RegistryMatchesSockets'
  BY DEF IInv, TypeOK, RegistryMatchesSockets, SendersKnown, OneDisconnect,
    MessagesMatchStates, TimeOut, EndHandler, FailHandler, Finally,
    RemoveSocket, NoEntry, Calls, Call
<1>7. RoomMembersKnown'
  BY DEF IInv, TypeOK, RoomMembersKnown, SendersKnown, MessagesMatchStates,
    IsPlaying, TimeOut, FailHandler, Finally, RemoveSocket
<1> QED BY <1>1, <1>2, <1>3, <1>4, <1>5, <1>6, <1>7 DEF IInv

LEMMA RestartKeeps ==
  ASSUME IInv, Restart
  PROVE  IInv'
<1>1. TypeOK'
  BY DEF IInv, TypeOK, Restart, NoEntry, Entries, States, Places
<1>2. MessagesMatchStates'
  BY DEF IInv, MessagesMatchStates, Restart
<1>3. SendersKnown'
  BY DEF IInv, SendersKnown, Restart
<1>4. OneDisconnect'
  BY DEF IInv, OneDisconnect, Restart, NoRequest, Call
<1>5. TimersMatchPending'
  BY DEF IInv, TimersMatchPending, Restart
<1>6. RegistryMatchesSockets'
  BY DEF IInv, RegistryMatchesSockets, Restart, NoEntry
<1>7. RoomMembersKnown'
  BY DEF IInv, RoomMembersKnown, Restart
<1> QED BY <1>1, <1>2, <1>3, <1>4, <1>5, <1>6, <1>7 DEF IInv

-----------------------------------------------------------------------------
LEMMA StutterKeeps == ASSUME IInv, UNCHANGED vars PROVE IInv'
BY DEF IInv, vars, clients, calls, TypeOK, MessagesMatchStates, SendersKnown,
  OneDisconnect, TimersMatchPending, RegistryMatchesSockets, RoomMembersKnown,
  IsPlaying

LEMMA InitKeeps == Init => IInv
BY DEF Init, IInv, NoEntry, NoRequest, Call, TypeOK, Entries, Calls, States, Places,
  MessagesMatchStates, SendersKnown, OneDisconnect, TimersMatchPending,
  RegistryMatchesSockets, RoomMembersKnown

LEMMA NextKeeps == IInv /\ [Next]_vars => IInv'
<1> SUFFICES ASSUME IInv, [Next]_vars PROVE IInv'
  OBVIOUS
<1>1. CASE UNCHANGED vars
  BY <1>1, StutterKeeps
<1>2. ASSUME NEW s \in Sockets, Connect(s) \/ Hello(s) \/ Leave(s) PROVE IInv'
  BY <1>2, ConnectKeeps, HelloKeeps, LeaveKeeps
<1>3. ASSUME NEW r \in Requests, NEW s \in Sockets, Forward(r, s) \/ LeaveGame(r, s)
      PROVE IInv'
  BY <1>3, ForwardKeeps, LeaveGameKeeps
<1>4. ASSUME NEW r \in Requests, TakeMessage(r) \/ Serve(r) \/ PublishReturns(r)
      PROVE IInv'
  BY <1>4, TakeMessageKeeps, ServeKeeps, PublishReturnsKeeps
<1>5. ASSUME NEW r \in Requests, PublishFails(r) \/ ReceiveReply(r) \/ TimeOut(r)
      PROVE IInv'
  BY <1>5, PublishFailsKeeps, ReceiveReplyKeeps, TimeOutKeeps
<1>6. ASSUME LoseRedis \/ \E r \in Requests : Die(r) PROVE IInv'
  BY <1>6, RestartKeeps DEF LoseRedis, Die
<1> QED BY <1>1, <1>2, <1>3, <1>4, <1>5, <1>6 DEF Next

LEMMA IInvHolds == Spec => []IInv
BY InitKeeps, NextKeeps, PTL DEF Spec

\* Every variable of the gateway keeps its type (gateway/index.js).
THEOREM TypeCorrect == Spec => []TypeOK
<1>1. IInv => TypeOK
  BY DEF IInv
<1> QED BY <1>1, IInvHolds, PTL

\* The requests that are pending are those whose reply would still be looked up,
\* orphans included, and exactly those have a timer (gateway/index.js:93-122).
THEOREM TimersAlwaysMatchPending == Spec => []TimersMatchPending
<1>1. IInv => TimersMatchPending
  BY DEF IInv
<1> QED BY <1>1, IInvHolds, PTL

\* The registry knows the open sockets, and the closed ones while their
\* disconnect is forwarded (gateway/index.js:286-312).
THEOREM RegistryAlwaysMatchesSockets == Spec => []RegistryMatchesSockets
<1>1. IInv => RegistryMatchesSockets
  BY DEF IInv
<1> QED BY <1>1, IInvHolds, PTL

\* A member of the room is open and known to play (gateway/index.js:64-91).
THEOREM RoomMembersAlwaysKnown == Spec => []RoomMembersKnown
<1>1. IInv => RoomMembersKnown
  BY DEF IInv
<1> QED BY <1>1, IInvHolds, PTL

\* The room grows by the sender of a request that is still awaited only.
LEMMA RoomStep ==
  ASSUME IInv, [Next]_vars, NEW t \in room' \ room
  PROVE  \E r \in Requests :
           request[r] = Call("enter", t) /\ state[r] \in {"waiting", "answered"}
<1>1. ASSUME NEW r \in Requests, PublishReturns(r)
      PROVE  state[r] = "answered" /\ ExecuteGatewayActions(r)
  BY <1>1 DEF PublishReturns, clients
<1>2. ASSUME NEW r \in Requests, ReceiveReply(r)
      PROVE  state[r] = "waiting" /\ ExecuteGatewayActions(r)
  BY <1>2 DEF ReceiveReply, Resolve, clients
<1>3. ASSUME NEW r \in Requests, state[r] \in {"waiting", "answered"},
             ExecuteGatewayActions(r)
      PROVE  request[r] = Call("enter", t)
  <2>1. request[r] # NoRequest
    BY <1>3 DEF IInv, MessagesMatchStates
  <2> QED BY <1>3, <2>1, ExecuteEffect
<1>4. \E r \in Requests : PublishReturns(r) \/ ReceiveReply(r)
  BY DEF Next, vars, clients, calls, Connect, Hello, Leave, LeaveGame, Close, Forward,
    TakeMessage, Serve, PublishFails, TimeOut, FailHandler, LoseRedis, Die, Restart
<1> QED BY <1>1, <1>2, <1>3, <1>4

\* A reply that comes after its request was given up changes no membership
\* (gateway/index.js:127-141).
THEOREM LateRepliesAlwaysDropped == Spec => LateRepliesDropped
<1>1. IInv /\ [Next]_vars =>
        [\A s \in room' \ room :
           \E r \in Requests :
             request[r] = Call("enter", s) /\ state[r] \in {"waiting", "answered"}]_vars
  BY RoomStep
<1> QED BY <1>1, IInvHolds, PTL DEF Spec, LateRepliesDropped

-----------------------------------------------------------------------------
(* The gateway is the relay. *)

Awaited == {"publishing", "answered", "waiting"}

\* The handlers of other requests go on as they were.
LEMMA OneCall ==
  ASSUME NEW r \in Requests, NEW c,
         \A q \in Requests \ {r} : state'[q] = state[q] /\ request'[q] = request[q],
         c = IF state'[r] \in Awaited THEN request'[r] ELSE NoRequest
  PROVE  OpenCalls' = [OpenCalls EXCEPT ![r] = c]
BY DEF OpenCalls, Awaited

LEMMA SameCalls ==
  ASSUME \A q \in Requests :
           \/ state'[q] = state[q] /\ request'[q] = request[q]
           \/ state[q] \notin Awaited /\ state'[q] \notin Awaited
           \/ state[q] \in Awaited /\ state'[q] \in Awaited /\ request'[q] = request[q]
  PROVE  OpenCalls' = OpenCalls
BY DEF OpenCalls, Awaited

LEMMA SendBegins ==
  ASSUME IInv, NEW r \in Requests, NEW kind, NEW s, SendInternalRequest(r, kind, s)
  PROVE  Promise!Begin(r, kind, s)
<1>1. request' = [request EXCEPT ![r] = Call(kind, s)]
      /\ state' = [state EXCEPT ![r] = "publishing"] /\ request[r] = NoRequest
  BY DEF SendInternalRequest, Unused
<1>2. OpenCalls' = [OpenCalls EXCEPT ![r] = Call(kind, s)]
  BY <1>1, OneCall DEF IInv, TypeOK, Awaited
<1>3. OpenCalls[r] = Promise!NoCall
  BY <1>1 DEF OpenCalls, NoRequest, Promise!NoCall
<1> QED BY <1>2, <1>3 DEF Promise!Begin, Promise!Call, Call

\* A handler that ends, ends its call.
LEMMA HandlerEnds ==
  ASSUME IInv, NEW r \in Requests, state[r] \in Awaited, state'[r] \notin Awaited,
         \A q \in Requests \ {r} : state'[q] = state[q] /\ request'[q] = request[q],
         socket' = socket
  PROVE  Promise!End(r) /\ OpenCalls[r] = request[r]
<1>1. request[r] # NoRequest /\ OpenCalls[r] = request[r]
  BY DEF IInv, MessagesMatchStates, Awaited, OpenCalls
<1>2. OpenCalls' = [OpenCalls EXCEPT ![r] = NoRequest]
  BY OneCall
<1>3. Promise!NoCall = NoRequest
  BY DEF Promise!NoCall, NoRequest
<1> QED BY <1>1, <1>2, <1>3 DEF Promise!End

LEMMA ExecuteEnds ==
  ASSUME IInv, NEW r \in Requests, state[r] \in Awaited,
         EndHandler(r), ExecuteGatewayActions(r)
  PROVE  Promise!EndOnly(r) \/ Promise!Admit(r)
<1>1. request[r] # NoRequest
  BY DEF IInv, MessagesMatchStates, Awaited
<1>2. Promise!End(r) /\ OpenCalls[r] = request[r]
  BY HandlerEnds, EndHandlerEffect DEF ExecuteGatewayActions, Awaited
<1>3. CASE room' = room
  BY <1>2, <1>3 DEF Promise!EndOnly
<1>4. CASE request[r].kind = "enter" /\ socket[request[r].socket] = "open"
           /\ room' = room \cup {request[r].socket}
  BY <1>2, <1>4 DEF Promise!Admit
<1> QED BY <1>3, <1>4 DEF ExecuteGatewayActions, Enter

RelayStep == Promise!Next \/ UNCHANGED <<socket, room, OpenCalls>>

LEMMA SocketRelays ==
  ASSUME IInv, NEW s \in Sockets, Connect(s) \/ Hello(s) \/ Leave(s)
  PROVE  RelayStep
<1>1. OpenCalls' = OpenCalls
  BY SameCalls DEF Connect, Hello, Leave, calls
<1>2. CASE Connect(s)
  <2>1. Promise!Open(s)
    BY <1>1, <1>2 DEF Connect, Promise!Open
  <2> QED BY <2>1 DEF RelayStep, Promise!Next
<1>3. CASE Hello(s)
  BY <1>1, <1>3 DEF Hello, RelayStep
<1>4. CASE Leave(s)
  <2>1. s \notin room
    BY <1>4 DEF Leave, IInv, RoomMembersKnown
  <2>2. Promise!CloseUnknown(s)
    BY <1>1, <1>4, <2>1 DEF Leave, Close, Promise!CloseUnknown, Promise!Close
  <2> QED BY <2>2 DEF RelayStep, Promise!Next
<1> QED BY <1>2, <1>3, <1>4

LEMMA SendRelays ==
  ASSUME IInv, NEW r \in Requests, NEW s \in Sockets, Forward(r, s) \/ LeaveGame(r, s)
  PROVE  RelayStep
<1>1. CASE Forward(r, s)
  <2>1. PICK kind \in ClientKinds : SendInternalRequest(r, kind, s)
    BY <1>1 DEF Forward
  <2>2. Promise!Begin(r, kind, s)
    BY <2>1, SendBegins
  <2>3. Promise!Ask(r, s)
    BY <1>1, <2>2 DEF Forward, clients, ClientKinds, Promise!Ask
  <2> QED BY <2>3 DEF RelayStep, Promise!Next
<1>2. CASE LeaveGame(r, s)
  <2>1. Promise!Begin(r, "disconnect", s)
    BY <1>2, SendBegins DEF LeaveGame
  <2>2. Promise!Close(s)
    BY <1>2 DEF LeaveGame, Close, Promise!Close
  <2> QED BY <2>1, <2>2 DEF RelayStep, Promise!Next, Promise!CloseKnown
<1> QED BY <1>1, <1>2

LEMMA BusRelays ==
  ASSUME IInv, NEW r \in Requests, TakeMessage(r) \/ Serve(r)
  PROVE  RelayStep
<1>1. socket' = socket /\ room' = room
  BY DEF TakeMessage, Serve, clients
<1>2. ASSUME NEW q \in Requests
      PROVE  \/ state'[q] = state[q] /\ request'[q] = request[q]
             \/ state[q] \notin Awaited /\ state'[q] \notin Awaited
  BY DEF TakeMessage, Serve, calls, IInv, TypeOK, Awaited
<1>3. OpenCalls' = OpenCalls
  BY <1>2, SameCalls
<1> QED BY <1>1, <1>3 DEF RelayStep

LEMMA PublishReturnsRelays ==
  ASSUME IInv, NEW r \in Requests, PublishReturns(r)
  PROVE  RelayStep
<1>1. CASE /\ state[r] = "publishing" /\ state' = [state EXCEPT ![r] = "waiting"]
           /\ UNCHANGED <<clients, request>>
  <2>1. OpenCalls' = OpenCalls
    BY <1>1, SameCalls DEF Awaited, IInv, TypeOK
  <2> QED BY <1>1, <2>1 DEF RelayStep, clients
<1>2. CASE state[r] = "answered" /\ EndHandler(r) /\ ExecuteGatewayActions(r)
  BY <1>2, ExecuteEnds DEF Awaited, RelayStep, Promise!Next
<1> QED BY <1>1, <1>2 DEF PublishReturns

LEMMA FailRelays ==
  ASSUME IInv, NEW r \in Requests, PublishFails(r) \/ TimeOut(r)
  PROVE  RelayStep
<1>1. socket' = socket /\ room' = room
  BY DEF PublishFails, TimeOut, FailHandler
<1>2. state[r] \in Awaited
  BY DEF PublishFails, TimeOut, IInv, MessagesMatchStates, Awaited
<1>3. /\ state'[r] \notin Awaited
      /\ \A q \in Requests \ {r} : state'[q] = state[q] /\ request'[q] = request[q]
  BY DEF PublishFails, TimeOut, FailHandler, EndHandler, IInv, TypeOK, Awaited
<1>4. Promise!EndOnly(r)
  BY <1>1, <1>2, <1>3, HandlerEnds DEF Promise!EndOnly
<1> QED BY <1>4 DEF RelayStep, Promise!Next

LEMMA ReceiveReplyRelays ==
  ASSUME IInv, NEW r \in Requests, ReceiveReply(r)
  PROVE  RelayStep
<1>1. CASE state[r] = "waiting" /\ EndHandler(r) /\ ExecuteGatewayActions(r)
  BY <1>1, ExecuteEnds DEF Awaited, RelayStep, Promise!Next
<1>2. CASE /\ state[r] = "publishing" /\ state' = [state EXCEPT ![r] = "answered"]
           /\ UNCHANGED <<clients, request>>
  <2>1. OpenCalls' = OpenCalls
    BY <1>2, SameCalls DEF Awaited, IInv, TypeOK
  <2> QED BY <1>2, <2>1 DEF RelayStep, clients
<1>3. CASE /\ UNCHANGED <<clients, state>>
           /\ request' = [request EXCEPT ![r] = IF state[r] = "idle" THEN NoRequest ELSE @]
  <2>1. ASSUME NEW q \in Requests
        PROVE  \/ state'[q] = state[q] /\ request'[q] = request[q]
               \/ state[q] \notin Awaited /\ state'[q] \notin Awaited
    BY <1>3 DEF Awaited, IInv, TypeOK
  <2>2. OpenCalls' = OpenCalls
    BY <2>1, SameCalls
  <2> QED BY <1>3, <2>2 DEF RelayStep, clients
<1> QED BY <1>1, <1>2, <1>3 DEF ReceiveReply, Resolve, clients

LEMMA RestartRelays == ASSUME Restart PROVE RelayStep
<1>1. OpenCalls' = [r \in Requests |-> Promise!NoCall]
  BY DEF Restart, OpenCalls, NoRequest, Promise!NoCall
<1>2. Promise!Die
  BY <1>1 DEF Restart, Promise!Die
<1> QED BY <1>2 DEF RelayStep, Promise!Next

LEMMA InitRelay == Init => Promise!Init
<1> SUFFICES ASSUME Init PROVE Promise!Init
  OBVIOUS
<1>1. OpenCalls = [r \in Requests |-> Promise!NoCall]
  BY DEF Init, OpenCalls, NoRequest, Promise!NoCall
<1> QED BY <1>1 DEF Init, Promise!Init

LEMMA NextRelays == ASSUME IInv, [Next]_vars PROVE RelayStep
<1>1. CASE UNCHANGED vars
  BY <1>1, SameCalls DEF vars, clients, calls, RelayStep
<1>2. ASSUME LoseRedis \/ \E r \in Requests : Die(r) PROVE RelayStep
  BY <1>2, RestartRelays DEF LoseRedis, Die
<1> QED BY <1>1, <1>2, SocketRelays, SendRelays, BusRelays, PublishReturnsRelays,
           FailRelays, ReceiveReplyRelays DEF Next

\* Behind its registry, its timers and the messages on their way, the gateway is
\* the relay: every request it takes ends once, a player enters the game only by
\* a request that is awaited, and leaves it only with a disconnect forwarded.
THEOREM GatewayImplementsRelay == Spec => KeepsPromise
<1>1. IInv /\ [Next]_vars => [Promise!Next]_<<socket, room, OpenCalls>>
  BY NextRelays DEF RelayStep
<1> QED BY <1>1, InitRelay, IInvHolds, PTL DEF Spec, KeepsPromise, Promise!Spec
=============================================================================
