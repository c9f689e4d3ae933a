----------------------------- MODULE StepBarrier -----------------------------
(***************************************************************************)
(* What a playing table promises its players, with everything about cards, *)
(* bids and scores left out: the game goes through steps in the order of   *)
(* the game, and a step that is shown to the players is left only when     *)
(* every seat has acknowledged that very step.  Network.cpp lists the      *)
(* steps that are acknowledged; at the others the table waits for the      *)
(* answer of one player.                                                   *)
(***************************************************************************)
EXTENDS FiniteSets

CONSTANTS
  Seats,      \* the places around the table
  Follows,    \* Follows[s]: the steps that may come after step s
  Barriers    \* the steps that every seat acknowledges

VARIABLES step, acked

barrierVars == <<step, acked>>

\* A new table waits for its players.
BarrierInit == step = "PLAYERS" /\ acked = {}

\* A seat acknowledges the current step, and others still have to.
Acknowledge(p) ==
  /\ step \in Barriers
  /\ acked' = acked \cup {p}
  /\ acked' # Seats
  /\ UNCHANGED step

\* The last seat acknowledges the step: the game goes on, nobody has
\* acknowledged the next step.
PassBarrier(p) ==
  /\ step \in Barriers
  /\ acked \cup {p} = Seats
  /\ acked' = {}
  /\ step' \in Follows[step]

\* The player the table waits for has answered.
Answer ==
  /\ step \notin Barriers
  /\ acked = {}
  /\ acked' = {}
  /\ step' \in Follows[step]

\* A player leaves: his seat has acknowledged nothing any more.
Withdraw(p) ==
  /\ acked' = acked \ {p}
  /\ UNCHANGED step

\* The administrator of the table starts a new game, at any time.
Restart ==
  /\ step' = "READY"
  /\ acked' = {}

BarrierNext ==
  \/ \E p \in Seats : Acknowledge(p) \/ PassBarrier(p) \/ Withdraw(p)
  \/ Answer
  \/ Restart

BarrierSpec == BarrierInit /\ [][BarrierNext]_barrierVars
=============================================================================
