-------------------------- MODULE GatewayProperties --------------------------
(***************************************************************************)
(* What must be true of the gateway: its maps do not outlive what they are *)
(* about, and nothing is done for a request that was given up.             *)
(***************************************************************************)
EXTENDS Gateway

Entries == [present : BOOLEAN, initialised : BOOLEAN, activeGame : BOOLEAN]
Calls == [kind : ClientKinds \cup {"disconnect"}, socket : Sockets]

\* Every variable has its type.
TypeOK ==
  /\ socket \in [Sockets -> {"new", "open", "closed"}]
  /\ registry \in [Sockets -> Entries]
  /\ room \subseteq Sockets
  /\ request \in [Requests -> Calls \cup {NoRequest}]
  /\ state \in [Requests -> States]
  /\ pending \subseteq Requests
  /\ timers \subseteq Requests
  /\ bus \in [Requests -> Places]

\* pendingRequests holds exactly the requests whose reply would still be looked
\* up, and each of them has its timer: no entry can stay for ever and no timer
\* fires for a request that was answered or given up (gateway/index.js:93-122).
\* Orphans are among them: their publish has failed and their handler is over,
\* but their entry and timer stay (line 111), and the timer ends the gateway.
TimersMatchPending ==
  /\ pending = {r \in Requests : state[r] \in {"publishing", "waiting", "orphan"}}
  /\ timers = pending

\* The registry has an entry for every open socket, and for a closed one only
\* while its disconnect is being forwarded, whatever replies arrive late.
RegistryMatchesSockets ==
  \A s \in Sockets :
    registry[s].present <=>
      \/ socket[s] = "open"
      \/ \E r \in Requests :
           /\ request[r] = Call("disconnect", s)
           /\ state[r] \in {"publishing", "answered", "waiting"}

\* A socket that hears the broadcasts of the game is open and known to play in
\* it, so that its disconnect will be forwarded to the session service.
RoomMembersKnown ==
  \A s \in room : socket[s] = "open" /\ IsPlaying(s)

\* A socket enters the game only by a request whose handler still waits for the
\* reply: after the client was told ERROR nothing more is done for it.
LateRepliesDropped ==
  [][\A s \in room' \ room :
       \E r \in Requests :
         request[r] = Call("enter", s) /\ state[r] \in {"waiting", "answered"}]_vars

\* The calls whose handler has still to end.
OpenCalls ==
  [r \in Requests |-> IF state[r] \in {"publishing", "answered", "waiting"}
                     THEN request[r] ELSE NoRequest]

Promise == INSTANCE Relay WITH line <- socket, members <- room, calls <- OpenCalls

\* With its registry, its timers, the reply that overtakes its publish and the
\* replies nobody awaits any more, the gateway is the relay: each request ends
\* once, and no member leaves without its disconnect being forwarded.
KeepsPromise == Promise!Spec

\* Every handler ends, even if Redis stalls and no service ever replies.
HandlersEnd == \A r \in Requests : state[r] # "idle" ~> state[r] = "idle"

\* A socket that has closed is removed from the registry in the end.
ClosedSocketsForgotten ==
  \A s \in Sockets : socket[s] = "closed" ~> ~ registry[s].present
=============================================================================
