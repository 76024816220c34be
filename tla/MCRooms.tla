------------------------------ MODULE MCRooms -------------------------------
(* Values for the constants of Rooms.                                      *)
EXTENDS Rooms, TLC

CONSTANTS alice, bob, carol, sys, room, dm

\* A DM between two participants.
PairDM == dm :> <<alice, bob>>
=============================================================================
