------------------------------ MODULE MCTable ------------------------------
(* Constants and initial states for TLC. *)
EXTENDS TableProperties, TLC

CONSTANTS alice, bob, plain, mate

\* mate ends the game, plain does not.
OutcomeOf == (plain :> "none") @@ (mate :> "checkmate")

Symmetry == Permutations(Players)

First(p) == <<p, 1>>

\* Both players seated and connected, all quiet: Spec reaches this after a
\* creation, a join and, for a finished game, a resignation.  One of these
\* requests counts as made.
Seating(w, b, g) ==
  /\ here = [s \in Lines |-> IF s[2] = 1 THEN "open" ELSE "new"]
  /\ there = here
  /\ up = [s \in Lines |-> << >>]
  /\ down = [s \in Lines |-> << >>]
  /\ registry = [s \in Lines |-> IF s[2] = 1 THEN "initialised" ELSE "absent"]
  /\ session = [number |-> 0, game |-> g,
                seat |-> [c \in Colours |-> First(IF c = "white" THEN w ELSE b)],
                connected |-> [c \in Colours |-> TRUE]]
  /\ room = {First(w), First(b)}
  /\ waiting = [s \in Lines |-> [k \in Continuations |-> 0]]
  /\ tab = [p \in Players |-> [line |-> 1, initialised |-> TRUE, saved |-> TRUE,
                               view |-> Snapshot(session)]]
  /\ kept = [p \in Players |-> << >>]
  /\ clicks = 1

SeatedInit ==
  \E w, b \in Players :
    /\ w # b
    /\ LET begun == Started(Seated(CreatedBy(w), b))
       IN \E g \in {begun} \cup {Resigned(begun, c) : c \in Colours} : Seating(w, b, g)

MCInit == Init \/ SeatedInit

MCSpec == MCInit /\ [][Next]_vars
=============================================================================
