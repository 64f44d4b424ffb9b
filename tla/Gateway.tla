------------------------------- MODULE Gateway -------------------------------
(***************************************************************************)
(* The gateway of the decomposed backend, for one game: the sockets of the *)
(* browsers, the registry of connections, and the requests it forwards to  *)
(* the services over Redis.  A request waits first for Redis to take the   *)
(* message and then for the reply of a service; a timer gives it up.       *)
(*                                                                         *)
(* The services are seen from here only: a message may reach them or not,  *)
(* and they reply late, or never.  Code that awaits an already settled     *)
(* promise runs before the next event, so a reply and the actions it       *)
(* brings, or a timeout and the ERROR it causes, are one step.             *)
(***************************************************************************)
EXTENDS Naturals

CONSTANTS
  Sockets,   \* the sockets that connect (a reconnection is a new socket)
  Requests   \* bound: the forwarded requests of which something is left at once

VARIABLES
  socket,    \* a socket at the transport: "new", "open" or "closed"
  registry,  \* connectionRegistry: the entry of a socket, or NoEntry
  room,      \* the sockets in the Socket.IO room of the game
  request,   \* what a forwarded request is about
  state,     \* how far the handler of a request is
  pending,   \* the keys of pendingRequests
  timers,    \* the requests whose timeout is armed
  bus        \* where the message of a request is, or its reply

clients == <<socket, registry, room>>
calls == <<request, state, pending, timers>>
vars == <<clients, calls, bus>>

NoEntry == [present |-> FALSE, initialised |-> FALSE, activeGame |-> FALSE]
NewEntry == [NoEntry EXCEPT !.present = TRUE]

\* "enter" is create, join and resume, whose replies make the socket a member
\* of the game; "play" is move, resign and rematch, whose replies only emit.
ClientKinds == {"enter", "play"}
Call(kind, s) == [kind |-> kind, socket |-> s]
NoRequest == [kind |-> "none"]

\* "publishing": awaiting publisher.publish; "answered": the reply has come
\* before that; "waiting": awaiting responsePromise; "orphan": the handler has
\* ended because publish failed, and nobody awaits responsePromise.
States == {"idle", "publishing", "answered", "waiting", "orphan"}

\* "queued" in the Redis client, "sent" to a service, "replied" by it.
Places == {"none", "queued", "sent", "replied"}

Init ==
  /\ socket = [s \in Sockets |-> "new"]
  /\ registry = [s \in Sockets |-> NoEntry]
  /\ room = {}
  /\ request = [r \in Requests |-> NoRequest]
  /\ state = [r \in Requests |-> "idle"]
  /\ pending = {}
  /\ timers = {}
  /\ bus = [r \in Requests |-> "none"]

-----------------------------------------------------------------------------
(* connectionRegistry.js *)

RegisterSocket(s) == registry' = [registry EXCEPT ![s] = NewEntry]

\* Mutant: HELLO makes a new entry instead of extending the old one.
MarkInitialisedAnew(s) ==
  registry' = [registry EXCEPT ![s] = [NewEntry EXCEPT !.initialised = TRUE]]

MarkInitialised(s) == registry' = [registry EXCEPT ![s].initialised = TRUE]

\* Mutant: the old entry is not spread into the new one.
SetActiveGameOnly(s) == registry' = [registry EXCEPT ![s] = [activeGame |-> TRUE]]

SetActiveGame(s) ==
  registry' = [registry EXCEPT ![s].activeGame = @ \/ registry[s].present]

RemoveSocket(s) == registry' = [registry EXCEPT ![s] = NoEntry]

-----------------------------------------------------------------------------
(* Connections *)

Connect(s) ==
  /\ socket[s] = "new"
  /\ socket' = [socket EXCEPT ![s] = "open"]
  /\ RegisterSocket(s)
  /\ UNCHANGED <<room, calls, bus>>

\* A HELLO names its player, as every client's does.
Hello(s) ==
  /\ socket[s] = "open"
  /\ MarkInitialised(s)
  /\ UNCHANGED <<socket, room, calls, bus>>

-----------------------------------------------------------------------------
(* sendInternalRequest *)

\* Request identifiers are unique: one is not used again while anything of
\* it is left.
Unused(r) == request[r] = NoRequest

\* Mutant: no timer is set.
SendWithoutTimer(r, kind, s) ==
  /\ Unused(r)
  /\ request' = [request EXCEPT ![r] = Call(kind, s)]
  /\ state' = [state EXCEPT ![r] = "publishing"]
  /\ pending' = pending \cup {r}
  /\ bus' = [bus EXCEPT ![r] = "queued"]
  /\ UNCHANGED timers

SendInternalRequest(r, kind, s) ==
  /\ Unused(r)
  /\ request' = [request EXCEPT ![r] = Call(kind, s)]
  /\ state' = [state EXCEPT ![r] = "publishing"]
  /\ pending' = pending \cup {r}
  /\ timers' = timers \cup {r}
  /\ bus' = [bus EXCEPT ![r] = "queued"]

\* handleLifecycleRequest and the handler of MOVE_SUBMIT
Forward(r, s) ==
  /\ socket[s] = "open"
  /\ registry[s].initialised
  /\ \E kind \in ClientKinds : SendInternalRequest(r, kind, s)
  /\ UNCHANGED clients

IsPlaying(s) == registry[s].initialised /\ registry[s].activeGame

\* The transport closes: the socket has left its rooms when the event comes.
Close(s) ==
  /\ socket[s] = "open"
  /\ socket' = [socket EXCEPT ![s] = "closed"]
  /\ room' = room \ {s}

Leave(s) ==
  /\ Close(s)
  /\ ~ IsPlaying(s)
  /\ RemoveSocket(s)
  /\ UNCHANGED <<calls, bus>>

LeaveGame(r, s) ==
  /\ Close(s)
  /\ IsPlaying(s)
  /\ SendInternalRequest(r, "disconnect", s)
  /\ UNCHANGED registry

-----------------------------------------------------------------------------
(* How the handler of a request ends *)

\* Mutant: no finally block, the entry is removed after a reply only.
NoFinally(r) == UNCHANGED registry

\* The `finally' of the disconnect handler.
Finally(r) ==
  IF request[r].kind = "disconnect"
  THEN RemoveSocket(request[r].socket)
  ELSE UNCHANGED registry

\* A request is forgotten when neither its handler nor its message is left.
EndHandler(r) ==
  /\ state' = [state EXCEPT ![r] = "idle"]
  /\ request' = [request EXCEPT ![r] = IF bus'[r] = "none" THEN NoRequest ELSE @]

\* The catch block: ERROR to the socket, or a line in the log.
FailHandler(r) ==
  /\ EndHandler(r)
  /\ Finally(r)
  /\ UNCHANGED <<socket, room>>

\* Mutant: the socket is not looked up again.
EnterAnyway(r) ==
  /\ SetActiveGame(request[r].socket)
  /\ room' = room \cup {request[r].socket}

\* setActiveGame, then joinGameRoom: each looks the socket up again.
Enter(r) ==
  /\ SetActiveGame(request[r].socket)
  /\ room' = IF socket[request[r].socket] = "open"
              THEN room \cup {request[r].socket} ELSE room

\* executeGatewayActions: the actions of a refusal only emit.
ExecuteGatewayActions(r) ==
  /\ \/ request[r].kind = "enter" /\ Enter(r)
     \/ Finally(r) /\ UNCHANGED room
  /\ UNCHANGED socket

-----------------------------------------------------------------------------
(* Redis and the services *)

\* Redis takes the message; a service that is subscribed receives it.
TakeMessage(r) ==
  /\ bus[r] = "queued"
  /\ \E place \in {"sent", "none"} : bus' = [bus EXCEPT ![r] = place]
  /\ UNCHANGED <<clients, calls>>

\* The service replies, or throws and does not.
Serve(r) ==
  /\ bus[r] = "sent"
  /\ \E place \in {"replied", "none"} :
       /\ bus' = [bus EXCEPT ![r] = place]
       /\ request' = [request EXCEPT ![r] =
                        IF place = "none" /\ state[r] = "idle" THEN NoRequest ELSE @]
  /\ UNCHANGED <<clients, state, pending, timers>>

\* `await publisher.publish' returns.
PublishReturns(r) ==
  /\ bus[r] # "queued"
  /\ UNCHANGED <<pending, timers, bus>>
  /\ \/ /\ state[r] = "publishing"
        /\ state' = [state EXCEPT ![r] = "waiting"]
        /\ UNCHANGED <<clients, request>>
     \/ /\ state[r] = "answered"
        /\ EndHandler(r)
        /\ ExecuteGatewayActions(r)

\* It rejects: Redis answers with an error.  The entry of pendingRequests and
\* its timer stay.
PublishFails(r) ==
  /\ bus[r] = "queued"
  /\ bus' = [bus EXCEPT ![r] = "none"]
  /\ state' = [state EXCEPT ![r] = "orphan"]
  /\ Finally(r)
  /\ UNCHANGED <<socket, room, request, pending, timers>>

-----------------------------------------------------------------------------
(* A reply, and the timeout *)

\* pending.resolve clears the timer; what comes next depends on who awaits.
Resolve(r) ==
  /\ pending' = pending \ {r}
  /\ timers' = timers \ {r}
  /\ \/ /\ state[r] = "waiting"
        /\ EndHandler(r)
        /\ ExecuteGatewayActions(r)
     \/ /\ state[r] = "publishing"
        /\ state' = [state EXCEPT ![r] = "answered"]
        /\ UNCHANGED <<clients, request>>

\* Mutant: the actions of every reply are executed.
ReceiveAnyReply(r) ==
  /\ bus[r] = "replied"
  /\ bus' = [bus EXCEPT ![r] = "none"]
  /\ IF r \in pending
     THEN Resolve(r)
     ELSE EndHandler(r) /\ ExecuteGatewayActions(r) /\ UNCHANGED <<pending, timers>>

\* A reply that is no longer pending is dropped.
ReceiveReply(r) ==
  /\ bus[r] = "replied"
  /\ bus' = [bus EXCEPT ![r] = "none"]
  /\ IF r \in pending
     THEN Resolve(r)
     ELSE /\ request' = [request EXCEPT ![r] = IF state[r] = "idle" THEN NoRequest ELSE @]
          /\ UNCHANGED <<clients, state, pending, timers>>

\* Mutant: the timeout leaves the entry in pendingRequests.
TimeOutKeepingEntry(r) ==
  /\ r \in timers
  /\ state[r] = "waiting"
  /\ timers' = timers \ {r}
  /\ UNCHANGED <<pending, bus>>
  /\ FailHandler(r)

\* The timeout rejects a promise that the handler awaits.
TimeOut(r) ==
  /\ r \in timers
  /\ state[r] = "waiting"
  /\ pending' = pending \ {r}
  /\ timers' = timers \ {r}
  /\ UNCHANGED bus
  /\ FailHandler(r)

\* The next gateway has another reply channel and knows no socket.
Restart ==
  /\ socket' = [s \in Sockets |-> IF socket[s] = "open" THEN "closed" ELSE socket[s]]
  /\ registry' = [s \in Sockets |-> NoEntry]
  /\ room' = {}
  /\ request' = [r \in Requests |-> NoRequest]
  /\ state' = [r \in Requests |-> "idle"]
  /\ pending' = {}
  /\ timers' = {}
  /\ bus' = [r \in Requests |-> "none"]

\* The timeout rejects a promise that nobody awaits, because publish has not
\* returned or has failed: the rejection is unhandled and ends the process.
Die(r) == r \in timers /\ state[r] \in {"publishing", "orphan"} /\ Restart

\* The Redis clients have no listener for "error": a lost connection is an
\* uncaught exception and ends the process too.
LoseRedis == Restart

-----------------------------------------------------------------------------
Next ==
  \/ LoseRedis
  \/ \E s \in Sockets : Connect(s) \/ Hello(s) \/ Leave(s)
  \/ \E r \in Requests :
       \/ \E s \in Sockets : Forward(r, s) \/ LeaveGame(r, s)
       \/ TakeMessage(r)
       \/ Serve(r)
       \/ PublishReturns(r)
       \/ PublishFails(r)
       \/ ReceiveReply(r)
       \/ TimeOut(r)
       \/ Die(r)

Spec == Init /\ [][Next]_vars

\* Timers fire, and publish returns once Redis has the message.
Fairness ==
  \A r \in Requests :
    /\ WF_vars(TimeOut(r) \/ Die(r))
    /\ WF_vars(PublishReturns(r))

FairSpec == Spec /\ Fairness
=============================================================================
