------------------------------ MODULE Browser ------------------------------
(***************************************************************************)
(* The tab of each player (App.jsx): what the page remembers of the        *)
(* server's messages, and which requests its controls let the user send.   *)
(*                                                                         *)
(* Only what decides about requests is kept of a message: banners, error   *)
(* texts and the choice of the page shown are left out; the user can reach *)
(* every page, so every control that its condition enables may be used.    *)
(* The messages one handler of the server emits in a row are one message.  *)
(***************************************************************************)
EXTENDS Connection

CONSTANTS
  MaxClicks,    \* bound: the requests the users make
  MaxInFlight,  \* bound: the messages on one way when a user makes one
  MaxRevision,  \* bound: the revision at which a user moves
  MaxRematches  \* bound: the rematches after which users ask for no more

ASSUME BoundsAssumption ==
  MaxClicks \in Nat /\ MaxInFlight \in Nat /\ MaxRevision \in Nat /\ MaxRematches \in Nat

VARIABLES
  tab,      \* the state of each player's page and of its storage
  kept,     \* sendBuffer of socket.io-client: emitted while disconnected
  clicks    \* the requests the users have made

browsers == <<tab, kept, clicks>>

\* The null of sessionState: no game in it.
NoView == [number |-> 0]

\* line: the last connection; saved: lastGameId is set; view: sessionState.
NewTab == [line |-> 0, initialised |-> FALSE, saved |-> FALSE, view |-> NoView]

BrowserInit ==
  /\ tab = [p \in Players |-> NewTab]
  /\ kept = [p \in Players |-> << >>]
  /\ clicks = 0

LineOf(p) == <<p, tab[p].line>>
Connected(p) == tab[p].line > 0 /\ here[LineOf(p)] = "open"
HasView(p) == tab[p].view # NoView
Shown(p) == tab[p].view.game

\* assignedColour: the white seat is tested first.
AssignedColour(p) == GetPlayerColour(Shown(p), p)

CanDragPieces(p) ==
  /\ HasView(p)
  /\ Shown(p).state = "IN_PROGRESS"
  /\ IsPlayersTurn(Shown(p), p)
  /\ Connected(p)
  /\ tab[p].initialised

LocalRematchAccepted(p) ==
  AssignedColour(p) # "null" /\ Shown(p).rematch[AssignedColour(p)]

-----------------------------------------------------------------------------
(* The connection *)

\* "connect": socket.io-client sends what it kept before the listener runs
\* and sends HELLO.
Connect(p) ==
  /\ ~ Connected(p)
  /\ tab[p].line <= MaxLosses
  /\ tab' = [tab EXCEPT ![p].line = @ + 1]
  /\ kept' = [kept EXCEPT ![p] = << >>]
  /\ OpenLine(<<p, tab[p].line + 1>>, Append(kept[p], [type |-> "HELLO"]))
  /\ UNCHANGED clicks

\* "disconnect"
Disconnect(p) ==
  /\ Connected(p)
  /\ CloseHere(LineOf(p))
  /\ tab' = [tab EXCEPT ![p].initialised = FALSE]
  /\ UNCHANGED <<kept, clicks>>

\* The page is loaded again: identity and lastGameId are in the storage.  (A
\* page that shows no game and has sent all it had loses only its connection.)
Reload(p) ==
  /\ HasView(p) \/ kept[p] # << >>
  /\ IF Connected(p) THEN CloseHere(LineOf(p)) ELSE UNCHANGED wires
  /\ tab' = [tab EXCEPT ![p].initialised = FALSE, ![p].view = NoView]
  /\ kept' = [kept EXCEPT ![p] = << >>]
  /\ UNCHANGED clicks

-----------------------------------------------------------------------------
(* Messages of the server *)

Welcomed(t) == [t EXCEPT !.initialised = TRUE]

\* Mutant: the whole message becomes the state of the page, not its payload.
SyncedWithMessage(t, msg) == [t EXCEPT !.saved = TRUE, !.view = msg]

\* STATE_SYNC and STATE_UPDATE replace sessionState and save the game.
Synced(t, msg) == [t EXCEPT !.saved = TRUE, !.view = msg.view]

\* Mutant: `{...sessionState, rematch}' in a listener that was made when the
\* page was loaded, and has kept the null of that moment.
RematchShownFromClosure(t, msg) == [t EXCEPT !.view = NoView]

\* REMATCH_STATUS: `{...prev, rematch}', if there is a prev.
RematchShown(t, msg) ==
  IF t.view = NoView THEN t ELSE [t EXCEPT !.view.game.rematch = msg.rematch]

ReceiveDown(p) ==
  LET msg == Head(down[LineOf(p)])
  IN /\ Connected(p)
     /\ down[LineOf(p)] # << >>
     /\ \/ /\ msg.type = "WELCOME"
           /\ tab' = [tab EXCEPT ![p] = Welcomed(@)]
        \/ /\ msg.type = "STATE"
           /\ tab' = [tab EXCEPT ![p] = Synced(@, msg)]
        \/ /\ msg.type = "REMATCH_STATUS"
           /\ tab' = [tab EXCEPT ![p] = RematchShown(@, msg)]
     /\ down' = [down EXCEPT ![LineOf(p)] = Tail(@)]
     /\ UNCHANGED <<here, there, up, kept, clicks>>

-----------------------------------------------------------------------------
(* Requests of the user.  `seen' is not in a message: it is what the user    *)
(* was shown when making the request.                                        *)

EmitSocketMessage(p, msg) ==
  /\ clicks < MaxClicks
  /\ Connected(p) => Len(up[LineOf(p)]) < MaxInFlight
  /\ clicks' = clicks + 1
  /\ UNCHANGED tab
  /\ IF Connected(p)
     THEN SendUp(LineOf(p), msg) /\ UNCHANGED kept
     ELSE kept' = [kept EXCEPT ![p] = Append(@, msg)] /\ UNCHANGED wires

\* Bound: the form of a room is used by a user who is not shown a game.
HandleCreateRoom(p) ==
  /\ tab[p].initialised
  /\ ~ HasView(p)
  /\ EmitSocketMessage(p, [type |-> "GAME_CREATE"])

HandleJoinRoom(p) ==
  /\ tab[p].initialised
  /\ ~ HasView(p)
  /\ EmitSocketMessage(p, [type |-> "GAME_JOIN"])

HandleResumeGame(p) ==
  /\ tab[p].initialised
  /\ tab[p].saved
  /\ EmitSocketMessage(p, [type |-> "GAME_RESUME"])

HandleRequestRematch(p) ==
  /\ HasView(p)
  /\ Shown(p).state = "FINISHED"
  /\ ~ LocalRematchAccepted(p)
  /\ tab[p].view.number < MaxRematches
  /\ EmitSocketMessage(p, [type |-> "REMATCH_REQUEST"])

HandleResign(p) ==
  /\ HasView(p)
  /\ Shown(p).state = "IN_PROGRESS"
  /\ AssignedColour(p) # "null"
  /\ EmitSocketMessage(p, [type |-> "RESIGN"])

HandlePieceDrop(p, m) ==
  /\ CanDragPieces(p)
  /\ Shown(p).revision < MaxRevision
  /\ EmitSocketMessage(p, [type |-> "MOVE_SUBMIT", move |-> m,
                           expectedRevision |-> Shown(p).revision,
                           seen |-> tab[p].view])

User(p) ==
  \/ HandleCreateRoom(p)
  \/ HandleJoinRoom(p)
  \/ HandleResumeGame(p)
  \/ HandleRequestRematch(p)
  \/ HandleResign(p)
  \/ \E m \in Moves : HandlePieceDrop(p, m)
=============================================================================
