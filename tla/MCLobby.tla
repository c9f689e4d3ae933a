------------------------------ MODULE MCLobby ------------------------------
(***************************************************************************)
(* A lobby with two identifiers for users and more peers than that, two    *)
(* nicknames and tables of two seats.                                      *)
(***************************************************************************)
EXTENDS LobbyProperties, TLC

MCSymmetry == Permutations(Peers) \cup Permutations(Nicknames)

=============================================================================
