----------------------------- MODULE Connection -----------------------------
(***************************************************************************)
(* Socket.IO between the browsers and the server, as both of them use it.  *)
(* A tab opens one connection after the other; each has two ends, which    *)
(* close one after the other, and carries messages in order both ways.     *)
(* What is on its way to the server when the client loses the connection   *)
(* may still be handled, even after the client has opened the next one.    *)
(***************************************************************************)
EXTENDS GameSession, Sequences, FiniteSets

CONSTANT MaxLosses   \* bound: the connections that are lost

ASSUME MaxLossesAssumption == MaxLosses \in Nat

\* A connection is named after its tab and counted: socket.id.
Lines == Players \X (1 .. MaxLosses + 1)
NoLine == <<NoPlayer, 0>>

VARIABLES
  here,   \* the client's end of a connection: "new", "open" or "closed"
  there,  \* the server's end
  up,     \* the messages on their way to the server
  down    \* the messages on their way to the tab

wires == <<here, there, up, down>>

WireInit ==
  /\ here = [s \in Lines |-> "new"]
  /\ there = [s \in Lines |-> "new"]
  /\ up = [s \in Lines |-> << >>]
  /\ down = [s \in Lines |-> << >>]

\* The handshake of Socket.IO; `first' is what the client sends at once.
OpenLine(s, first) ==
  /\ here' = [here EXCEPT ![s] = "open"]
  /\ there' = [there EXCEPT ![s] = "open"]
  /\ up' = [up EXCEPT ![s] = first]
  /\ UNCHANGED down

Lost == {s \in Lines : here[s] = "closed" \/ there[s] = "closed"}
MayBeLost(s) == s \in Lost \/ Cardinality(Lost) < MaxLosses

\* The client drops the connection, or notices that it is gone.
CloseHere(s) ==
  /\ MayBeLost(s)
  /\ here' = [here EXCEPT ![s] = "closed"]
  /\ down' = [down EXCEPT ![s] = << >>]
  /\ UNCHANGED <<there, up>>

\* The server notices it: what it has not received by then is lost.
CloseThere(s) ==
  /\ there[s] = "open"
  /\ MayBeLost(s)
  /\ there' = [there EXCEPT ![s] = "closed"]
  /\ up' = [up EXCEPT ![s] = << >>]
  /\ UNCHANGED <<here, down>>

\* An emit of the client on an open connection.
SendUp(s, msg) ==
  /\ up' = IF there[s] = "open" THEN [up EXCEPT ![s] = Append(@, msg)] ELSE up
  /\ UNCHANGED <<here, there, down>>

\* An emit of the server to some sockets: what `down' becomes.
Emitted(to, msg) ==
  [s \in Lines |-> IF s \in to /\ here[s] = "open" THEN Append(down[s], msg)
                                                   ELSE down[s]]

Emit(to, msg) ==
  /\ down' = Emitted(to, msg)
  /\ UNCHANGED <<here, there, up>>
=============================================================================
