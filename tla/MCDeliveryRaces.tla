-------------------------- MODULE MCDeliveryRaces --------------------------
(***************************************************************************)
(* Delivery in two kinds of behaviours: several posters race each other    *)
(* and no room is deleted, or one poster at a time works on a server that  *)
(* may be stopped.                                                         *)
(***************************************************************************)
EXTENDS MCDelivery

VARIABLE stopping

MayPost(g) == stopping => \A h \in Posters \ {g} : posting[h].pc \in {"idle", "down"}

\* A request that waits from its cursor, and none that moves it by hand.
Wait(g) ==
  \/ \E a \in Readers, r \in RoomIDs : RoomWait(g, a, r, 0)
  \/ ScanNothing(g) \/ ScanAnswer(g) \/ ScanAnswerFails(g) \/ Subscribe(g)
  \/ Ignore(g) \/ PassOwn(g) \/ HandOver(g) \/ HandOverFails(g)
  \/ GiveUp(g) \/ AdvanceCursor(g)

RacesInit == Init /\ stopping \in BOOLEAN
RacesNext ==
  /\ \/ \E g \in Posters : MayPost(g) /\ Post(g)
     \/ \E g \in Listeners : IF stopping THEN Wait(g) ELSE Listen(g)
     \/ \E r \in RoomIDs \cup {Everywhere} : Stop(r)
     \/ Start
  /\ ~stopping => rooms \subseteq rooms' /\ crashes' = 0
  /\ UNCHANGED stopping
RacesSpec == RacesInit /\ [][RacesNext]_<<vars, stopping>>
=============================================================================
