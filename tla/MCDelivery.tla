----------------------------- MODULE MCDelivery -----------------------------
(***************************************************************************)
(* Constants for model checking Delivery.                                  *)
(***************************************************************************)
EXTENDS Delivery, TLC

CONSTANTS alice, bob, sys, dm, room

\* One DM room between alice and bob; room, when present, is an ordinary room.
MCPeers == [r \in {dm} \cap RoomIDs |-> {alice, bob}]

MCSymmetry == Permutations(Posters) \cup Permutations(Listeners)
=============================================================================
