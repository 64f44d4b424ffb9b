-------------------------------- MODULE Relay --------------------------------
(***************************************************************************)
(* What a gateway promises to the players of one game and to the services, *)
(* however it keeps its books: every request it takes is one call, which   *)
(* ends once; only the end of a call to enter the game makes its socket a  *)
(* member, while the socket is open; and a member does not leave without   *)
(* a call that says so.  It may die, and then forgets everything.          *)
(***************************************************************************)

CONSTANTS
  Sockets,   \* the sockets of the players
  Requests   \* the names of calls; one is free again when its call has ended

VARIABLES
  line,      \* a socket: "new", "open" or "closed"
  members,   \* the sockets that hear what happens to the game
  calls      \* the calls whose end somebody waits for

NoCall == [kind |-> "none"]
Call(kind, s) == [kind |-> kind, socket |-> s]

Init ==
  /\ line = [s \in Sockets |-> "new"]
  /\ members = {}
  /\ calls = [r \in Requests |-> NoCall]

Open(s) ==
  /\ line[s] = "new"
  /\ line' = [line EXCEPT ![s] = "open"]
  /\ UNCHANGED <<members, calls>>

Begin(r, kind, s) ==
  /\ calls[r] = NoCall
  /\ calls' = [calls EXCEPT ![r] = Call(kind, s)]

Ask(r, s) ==
  /\ line[s] = "open"
  /\ \E kind \in {"enter", "play"} : Begin(r, kind, s)
  /\ UNCHANGED <<line, members>>

End(r) ==
  /\ calls[r] # NoCall
  /\ calls' = [calls EXCEPT ![r] = NoCall]
  /\ UNCHANGED line

\* The call has failed, or its end is only told to the players.
EndOnly(r) == End(r) /\ UNCHANGED members

Admit(r) ==
  /\ End(r)
  /\ calls[r].kind = "enter"
  /\ line[calls[r].socket] = "open"
  /\ members' = members \cup {calls[r].socket}

Close(s) ==
  /\ line[s] = "open"
  /\ line' = [line EXCEPT ![s] = "closed"]
  /\ members' = members \ {s}

CloseUnknown(s) == s \notin members /\ Close(s) /\ UNCHANGED calls

CloseKnown(r, s) == Close(s) /\ Begin(r, "disconnect", s)

Die ==
  /\ line' = [s \in Sockets |-> IF line[s] = "open" THEN "closed" ELSE line[s]]
  /\ members' = {}
  /\ calls' = [r \in Requests |-> NoCall]

Next ==
  \/ \E s \in Sockets : Open(s) \/ CloseUnknown(s)
  \/ \E r \in Requests :
       \/ EndOnly(r) \/ Admit(r)
       \/ \E s \in Sockets : Ask(r, s) \/ CloseKnown(r, s)
  \/ Die

Spec == Init /\ [][Next]_<<line, members, calls>>
=============================================================================
