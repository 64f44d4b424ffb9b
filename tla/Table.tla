------------------------------- MODULE Table -------------------------------
(***************************************************************************)
(* Two tabs at one table of the monolith: the browsers, the handlers of    *)
(* the server and the connections between them.                            *)
(***************************************************************************)
EXTENDS Browser, GameServer

vars == <<wires, browsers, server>>

Init == WireInit /\ BrowserInit /\ ServerInit

\* A tab connects and the server registers its socket.
Open(p) ==
  /\ Connect(p)
  /\ RegisterSocket(<<p, tab[p].line + 1>>)

Page(p) ==
  /\ Disconnect(p) \/ Reload(p) \/ ReceiveDown(p) \/ User(p)
  /\ UNCHANGED server

Serve(s) ==
  /\ Handler(s) \/ Continuation(s) \/ HandleDisconnect(s)
  /\ UNCHANGED browsers

Next ==
  \/ \E p \in Players : Open(p) \/ Page(p)
  \/ \E s \in Lines : Serve(s)

Spec == Init /\ [][Next]_vars
=============================================================================
