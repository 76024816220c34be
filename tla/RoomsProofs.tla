----------------------------- MODULE RoomsProofs -----------------------------
(***************************************************************************)
(* What holds of the membership store for any number of agents, rooms and   *)
(* concurrent requests.                                                     *)
(***************************************************************************)
EXTENDS Rooms, TLAPS

\* Without a DM of an agent with itself no agent sits twice in one room, which
\* is why removing the first entry of a stale agent removes it altogether.
SingleSeats == \A r \in RoomIDs, a \in Agents : seats[r][a] <= 1

\* The inductive invariant: HoldersPresent stands on its own, MembersRegistered
\* needs SingleSeats, and SingleSeats needs that nobody opens a DM with itself.
\* A new DM room finds no role held in it, because no room that is gone has seats.
Seating == NoSelfDM => SingleSeats /\ MembersRegistered
SeatsInRooms == \A r \in RoomIDs \ rooms, a \in Agents : ~In(a, r)
Placement == HoldersPresent /\ Seating /\ SeatsInRooms
IInv == TypeOK /\ Placement

-----------------------------------------------------------------------------
(* Types.                                                                  *)

LEMMA RequestType ==
  ASSUME NEW p \in {"idle", "welcome", "kick", "hide", "attend", "surface"},
         NEW a \in Agents \cup {Nobody}, NEW r \in RoomIDs, NEW left \in [Agents -> Nat]
  PROVE  [pc |-> p, agent |-> a, room |-> r, left |-> left] \in Request
BY DEF Request

LEMMA IdleType == Idle \in Request /\ NoneLeft \in [Agents -> Nat]
BY RoomsAssumption, RequestType DEF Idle, NoneLeft

\* A request that starts, and one that treats one entry of its list.
LEMMA StartType ==
  ASSUME TypeOK, NEW h \in Handlers, NEW q \in Request
  PROVE  [serving EXCEPT ![h] = q] \in [Handlers -> Request]
BY DEF TypeOK

LEMMA ContinueType ==
  ASSUME TypeOK, NEW h \in Handlers,
         NEW p \in {"idle", "welcome", "kick", "hide", "attend", "surface"},
         NEW a \in Agents \cup {Nobody}, NEW r \in RoomIDs, NEW left \in [Agents -> Nat],
         Continue(h, p, a, r, left)
  PROVE  serving' \in [Handlers -> Request]
<1>1. [pc |-> p, agent |-> a, room |-> r, left |-> left] \in Request
  BY RequestType
<1>2. QED
  BY <1>1, StartType DEF Continue

LEMMA LeftType ==
  ASSUME TypeOK, NEW h \in Handlers, NEW left \in [Agents -> Nat]
  PROVE  [serving EXCEPT ![h].left = left] \in [Handlers -> Request]
<1>1. serving[h] \in Request
  BY DEF TypeOK
<1>2. [serving[h] EXCEPT !.left = left] \in Request
  BY <1>1 DEF Request
<1>3. QED
  BY <1>2 DEF TypeOK

LEMMA SeatTypes ==
  ASSUME TypeOK, NEW gone \in SUBSET Agents
  PROVE  /\ SeatsWithout(gone) \in [RoomIDs -> [Agents -> Nat]]
         /\ SeatsLessOne(gone) \in [RoomIDs -> [Agents -> Nat]]
         /\ RolesWithout(gone) \in [RoomIDs -> SUBSET Agents]
BY DEF TypeOK, SeatsWithout, SeatsLessOne, RolesWithout

LEMMA SitType ==
  ASSUME TypeOK, NEW a \in Agents, NEW r \in RoomIDs, Sit(a, r)
  PROVE  /\ rooms' \subseteq RoomIDs
         /\ seats' \in [RoomIDs -> [Agents -> Nat]]
         /\ hidden' \in [Agents -> SUBSET RoomIDs]
BY DEF TypeOK, Sit, ShownToAll

LEMMA StandUpType ==
  ASSUME TypeOK, NEW a \in Agents, NEW r \in RoomIDs, In(a, r), StandUp(a, r)
  PROVE  /\ seats' \in [RoomIDs -> [Agents -> Nat]]
         /\ holders' \in [RoomIDs -> SUBSET Agents]
<1>1. seats[r] \in [Agents -> Nat] /\ seats[r][a] - 1 \in Nat
  BY DEF TypeOK, In
<1>2. [seats[r] EXCEPT ![a] = @ - 1] \in [Agents -> Nat]
  BY <1>1
<1>3. seats' \in [RoomIDs -> [Agents -> Nat]]
  BY <1>2 DEF TypeOK, StandUp
<1>4. holders' \in [RoomIDs -> SUBSET Agents]
  BY DEF TypeOK, StandUp
<1>5. QED
  BY <1>3, <1>4

LEMMA PairType ==
  ASSUME NEW r \in DMRooms
  PROVE  /\ r \in RoomIDs
         /\ Pair(r) \subseteq Agents
         /\ PairSeats(r) \in [Agents -> Nat]
BY RoomsAssumption DEF Pair, PairSeats

-----------------------------------------------------------------------------
(* Every step keeps the types.                                             *)

LEMMA TypeInit == Init => TypeOK
BY IdleType, RoomsAssumption DEF Init, TypeOK

LEMMA TypeStep == TypeOK /\ [Next]_vars => TypeOK'
<1> SUFFICES ASSUME TypeOK, [Next]_vars
             PROVE  TypeOK'
  OBVIOUS
<1> USE IdleType
<1>1. ASSUME NEW h \in Handlers, NEW a \in Agents, RegisterHuman(h, a) \/ RegisterAI(h, a)
     PROVE  TypeOK'
  BY <1>1, ContinueType, RoomsAssumption DEF RegisterHuman, RegisterAI, TypeOK
<1>2. ASSUME NEW h \in Handlers, NEW a \in Agents, Deregister(h, a)
     PROVE  TypeOK'
  BY <1>2, SeatTypes DEF Deregister, TypeOK
<1>3. ASSUME NEW h \in Handlers, NEW r \in RoomIDs, CreateRoom(h, r)
     PROVE  TypeOK'
  BY <1>3 DEF CreateRoom, TypeOK
<1>4. ASSUME NEW h \in Handlers, NEW r \in RoomIDs, DeleteRoom(h, r)
     PROVE  TypeOK'
  BY <1>4 DEF DeleteRoom, TypeOK
<1>5. ASSUME NEW h \in Handlers, NEW r \in RoomIDs, KickAgents(h, r)
     PROVE  TypeOK'
  <2>1. Kickable(r) \in [Agents -> Nat]
    BY DEF Kickable, TypeOK
  <2>2. QED
    BY <1>5, <2>1, ContinueType DEF KickAgents, TypeOK, store
<1>6. ASSUME NEW h \in Handlers, NEW r \in RoomIDs, NewDM(h, r)
     PROVE  TypeOK'
  BY <1>6, PairType DEF NewDM, TypeOK
<1>7. ASSUME NEW h \in Handlers, NEW r \in RoomIDs, RepairDM(h, r)
     PROVE  TypeOK'
  BY <1>7 DEF RepairDM, TypeOK, ShownToAll
<1>8. ASSUME NEW h \in Handlers, NEW r \in RoomIDs, UnassignRoles(h, r)
     PROVE  TypeOK'
  BY <1>8 DEF UnassignRoles, TypeOK
<1>9. ASSUME NEW h \in Handlers, NEW a \in Agents, NEW r \in RoomIDs, JoinRoom(h, a, r)
     PROVE  TypeOK'
  BY <1>9, SitType DEF JoinRoom, TypeOK
<1>10. ASSUME NEW h \in Handlers, NEW a \in Agents, NEW r \in RoomIDs, LeaveRoom(h, a, r)
      PROVE  TypeOK'
  BY <1>10, StandUpType DEF LeaveRoom, TypeOK
<1>11. ASSUME NEW h \in Handlers, NEW a \in Agents, NEW r \in RoomIDs, MayHide(h, a, r)
      PROVE  TypeOK'
  BY <1>11, ContinueType DEF MayHide, TypeOK, store
<1>12. ASSUME NEW h \in Handlers, NEW a \in Agents, NEW r \in RoomIDs, Show(h, a, r)
      PROVE  TypeOK'
  BY <1>12 DEF Show, TypeOK
<1>13. ASSUME NEW h \in Handlers, NEW a \in Agents, NEW r \in RoomIDs, SendAttention(h, a, r)
      PROVE  TypeOK'
  <2> DEFINE called == [b \in Agents |-> IF b \in agents \cap Humans THEN 1 ELSE 0]
  <2>1. called \in [Agents -> Nat]
    OBVIOUS
  <2>2. QED
    BY <1>13, <2>1, ContinueType DEF SendAttention, TypeOK, store
<1>14. ASSUME NEW h \in Handlers, NEW a \in Agents, NEW r \in RoomIDs, AssignRole(h, a, r)
      PROVE  TypeOK'
  BY <1>14 DEF AssignRole, TypeOK
<1>15. ASSUME NEW h \in Handlers, Welcome(h)
      PROVE  TypeOK'
  <2>1. serving' \in [Handlers -> Request]
    BY <1>15, StartType DEF Welcome, Done
  <2>2. CASE serving[h].agent \in agents /\ ~In(serving[h].agent, SystemRoom)
    BY <1>15, <2>1, <2>2, SitType, RoomsAssumption DEF Welcome, TypeOK
  <2>3. CASE ~(serving[h].agent \in agents /\ ~In(serving[h].agent, SystemRoom))
    BY <1>15, <2>1, <2>3, RoomsAssumption DEF Welcome, TypeOK
  <2>4. QED
    BY <2>2, <2>3
<1>16. ASSUME NEW h \in Handlers, KickNext(h)
      PROVE  TypeOK'
  <2> DEFINE r == serving[h].room
  <2>1. r \in RoomIDs /\ serving[h].left \in [Agents -> Nat]
    BY DEF TypeOK, Request
  <2>2. PICK a \in Agents :
           /\ serving[h].left[a] > 0
           /\ IF In(a, r) THEN StandUp(a, r) ELSE UNCHANGED <<seats, holders>>
           /\ IF [serving[h].left EXCEPT ![a] = @ - 1] = NoneLeft THEN Done(h)
              ELSE serving' = [serving EXCEPT ![h].left = [serving[h].left EXCEPT ![a] = @ - 1]]
    BY <1>16 DEF KickNext
  <2>3. [serving[h].left EXCEPT ![a] = @ - 1] \in [Agents -> Nat]
    BY <2>1, <2>2
  <2>4. serving' \in [Handlers -> Request]
    BY <2>2, <2>3, LeftType, StartType DEF Done
  <2>5. /\ seats' \in [RoomIDs -> [Agents -> Nat]]
        /\ holders' \in [RoomIDs -> SUBSET Agents]
    BY <2>1, <2>2, StandUpType DEF TypeOK
  <2>6. QED
    BY <1>16, <2>4, <2>5 DEF KickNext, TypeOK
<1>17. ASSUME NEW h \in Handlers, Hide(h)
      PROVE  TypeOK'
  <2>1. serving[h].room \in RoomIDs
    BY DEF TypeOK, Request
  <2>2. QED
    BY <1>17, <2>1, StartType DEF Hide, Done, TypeOK
<1>18. ASSUME NEW h \in Handlers, AttendNext(h)
      PROVE  TypeOK'
  <2> DEFINE r == serving[h].room
  <2>1. r \in RoomIDs /\ serving[h].left \in [Agents -> Nat]
    BY DEF TypeOK, Request
  <2>2. PICK a \in Agents :
           /\ IF a \in agents /\ ~In(a, r) THEN Sit(a, r) ELSE UNCHANGED <<rooms, seats, hidden>>
           /\ serving' = [serving EXCEPT ![h].left[a] = 0]
    BY <1>18 DEF AttendNext
  <2>3. serving' = [serving EXCEPT ![h].left = [serving[h].left EXCEPT ![a] = 0]]
    BY <2>2
  <2>4. [serving[h].left EXCEPT ![a] = 0] \in [Agents -> Nat]
    BY <2>1
  <2>5. serving' \in [Handlers -> Request]
    BY <2>3, <2>4, LeftType
  <2>6. /\ rooms' \subseteq RoomIDs
        /\ seats' \in [RoomIDs -> [Agents -> Nat]]
        /\ hidden' \in [Agents -> SUBSET RoomIDs]
    BY <2>1, <2>2, SitType DEF TypeOK
  <2>7. QED
    BY <1>18, <2>5, <2>6 DEF AttendNext, TypeOK
<1>19. ASSUME NEW h \in Handlers, Surface(h)
      PROVE  TypeOK'
  BY <1>19, StartType DEF Surface, Done, TypeOK
<1>20. ASSUME NEW h \in Handlers, ClearAgents(h)
      PROVE  TypeOK'
  BY <1>20, SeatTypes DEF ClearAgents, TypeOK
<1>21. ASSUME NEW h \in Handlers, ClearEverything(h)
      PROVE  TypeOK'
  BY <1>21, SeatTypes DEF ClearEverything, TypeOK
<1>22. ASSUME NEW stale \in SUBSET Agents, PruneStale(stale)
      PROVE  TypeOK'
  BY <1>22, SeatTypes DEF PruneStale, TypeOK
<1>23. ASSUME NEW stale \in SUBSET Agents, Restart(stale)
      PROVE  TypeOK'
  BY <1>23, SeatTypes, RoomsAssumption DEF Restart, TypeOK
<1>24. CASE UNCHANGED vars
  BY <1>24 DEF vars, store, TypeOK
<1>25. QED
  BY <1>1, <1>2, <1>3, <1>4, <1>5, <1>6, <1>7, <1>8, <1>9, <1>10, <1>11, <1>12,
     <1>13, <1>14, <1>15, <1>16, <1>17, <1>18, <1>19, <1>20, <1>21, <1>22, <1>23,
     <1>24 DEF Next, Serve

\* Every reachable state of the membership store is well typed: the member lists
\* count down only what is in them, whichever requests interleave (store_rooms.go,
\* store_agents.go, store.go).
THEOREM TypeCorrect == Spec => []TypeOK
<1>1. QED
  BY TypeInit, TypeStep, PTL DEF Spec

-----------------------------------------------------------------------------
(* Every step keeps the seats in order.                                    *)

\* What HoldersPresent and Seating speak of, when a step leaves it alone.
LEMMA Undisturbed ==
  ASSUME IInv, UNCHANGED <<agents, seats, holders>>, rooms \subseteq rooms'
  PROVE  Placement'
BY DEF IInv, Placement, SeatsInRooms, HoldersPresent, Seating, SingleSeats,
       MembersRegistered, In

\* A registered agent that was not in the room takes one seat.
LEMMA Seated ==
  ASSUME IInv, NEW a \in Agents, NEW r \in RoomIDs, a \in agents, ~In(a, r),
         Sit(a, r), UNCHANGED <<agents, holders>>
  PROVE  Placement'
<1>1. seats[r][a] = 0 /\ seats'[r][a] = 1
  BY DEF IInv, Placement, TypeOK, Sit, In
<1>2. \A q \in RoomIDs, b \in Agents : q # r \/ b # a => seats'[q][b] = seats[q][b]
  BY DEF IInv, Placement, TypeOK, Sit
<1>3. HoldersPresent'
  BY <1>1, <1>2 DEF IInv, Placement, HoldersPresent, In, TypeOK
<1>4. Seating'
  BY <1>1, <1>2 DEF IInv, Placement, Seating, SingleSeats, MembersRegistered, In
<1>5. SeatsInRooms'
  BY <1>2 DEF IInv, Placement, SeatsInRooms, In, Sit
<1>6. QED
  BY <1>3, <1>4, <1>5 DEF Placement

\* One that sits in the room gives one seat and its role back.
LEMMA StoodUp ==
  ASSUME IInv, NEW a \in Agents, NEW r \in RoomIDs, In(a, r), StandUp(a, r),
         UNCHANGED <<agents, rooms>>
  PROVE  Placement'
<1>1. seats'[r][a] = seats[r][a] - 1 /\ seats[r][a] \in Nat
  BY DEF IInv, Placement, TypeOK, StandUp
<1>2. \A q \in RoomIDs, b \in Agents : q # r \/ b # a => seats'[q][b] = seats[q][b]
  BY DEF IInv, Placement, TypeOK, StandUp
<1>3. \A q \in RoomIDs : holders'[q] \subseteq holders[q]
  BY DEF IInv, Placement, TypeOK, StandUp
<1>4. a \notin holders'[r]
  BY DEF IInv, Placement, TypeOK, StandUp
<1>5. HoldersPresent'
  BY <1>2, <1>3, <1>4 DEF IInv, Placement, HoldersPresent, In, TypeOK
<1>6. Seating'
  BY <1>1, <1>2 DEF IInv, Placement, Seating, SingleSeats, MembersRegistered, In
<1>7. SeatsInRooms'
  BY <1>1, <1>2 DEF IInv, Placement, SeatsInRooms, In
<1>8. QED
  BY <1>5, <1>6, <1>7 DEF Placement

\* Agents that are removed lose all their seats, and every role they hold.
LEMMA Removed ==
  ASSUME IInv, NEW gone \in SUBSET Agents, NEW freed \in SUBSET Agents,
         agents' = agents \ gone, seats' = SeatsWithout(gone),
         holders' = RolesWithout(freed),
         \A r \in RoomIDs : holders[r] \cap gone \subseteq freed,
         rooms \subseteq rooms'
  PROVE  Placement'
BY DEF IInv, Placement, TypeOK, HoldersPresent, Seating, SeatsInRooms, SingleSeats,
       MembersRegistered, In, SeatsWithout, RolesWithout

LEMMA SeatingStep == IInv /\ [Next]_vars => Placement'
<1> SUFFICES ASSUME IInv, [Next]_vars
             PROVE  Placement'
  OBVIOUS
<1> TypeOK
  BY DEF IInv
<1>1. ASSUME NEW h \in Handlers, NEW a \in Agents, RegisterHuman(h, a) \/ RegisterAI(h, a)
     PROVE  Placement'
  BY <1>1 DEF RegisterHuman, RegisterAI, IInv, Placement, SeatsInRooms, HoldersPresent, Seating,
        SingleSeats, MembersRegistered, In
<1>2. ASSUME NEW h \in Handlers, NEW a \in Agents, Deregister(h, a)
     PROVE  Placement'
  BY <1>2, Removed DEF Deregister
<1>3. ASSUME NEW h \in Handlers, NEW r \in RoomIDs, CreateRoom(h, r)
     PROVE  Placement'
  BY <1>3, Undisturbed DEF CreateRoom
<1>4. ASSUME NEW h \in Handlers, NEW r \in RoomIDs, DeleteRoom(h, r)
     PROVE  Placement'
  BY <1>4 DEF DeleteRoom, NoneLeft, IInv, Placement, TypeOK, HoldersPresent, Seating,
        SeatsInRooms, SingleSeats, MembersRegistered, In
<1>5. ASSUME NEW h \in Handlers, NEW r \in RoomIDs, KickAgents(h, r)
     PROVE  Placement'
  BY <1>5, Undisturbed DEF KickAgents, store
<1>6. ASSUME NEW h \in Handlers, NEW r \in RoomIDs, NewDM(h, r)
     PROVE  Placement'
  <2>1. \A q \in RoomIDs \ {r} : seats'[q] = seats[q]
    BY <1>6 DEF NewDM, TypeOK
  <2>2. seats'[r] = PairSeats(r)
    BY <1>6 DEF NewDM, TypeOK
  <2>3. \A b \in Agents : PairSeats(r)[b] > 0 => b \in agents
    BY <1>6 DEF NewDM, Pair, PairSeats
  <2>4. NoSelfDM => \A b \in Agents : PairSeats(r)[b] <= 1
    BY <1>6 DEF NewDM, NoSelfDM, PairSeats
  <2>5. Seating'
    BY <1>6, <2>1, <2>2, <2>3, <2>4
       DEF NewDM, IInv, Placement, Seating, SingleSeats, MembersRegistered, In
  <2>6. holders[r] = {}
    BY <1>6 DEF NewDM, IInv, TypeOK, Placement, HoldersPresent, SeatsInRooms
  <2>7. HoldersPresent'
    BY <1>6, <2>1, <2>6 DEF NewDM, IInv, Placement, HoldersPresent, In
  <2>8. SeatsInRooms'
    BY <1>6, <2>1 DEF NewDM, IInv, Placement, SeatsInRooms, In
  <2>9. QED
    BY <2>5, <2>7, <2>8 DEF Placement
<1>7. ASSUME NEW h \in Handlers, NEW r \in RoomIDs, RepairDM(h, r)
     PROVE  Placement'
  <2> DEFINE missing == {a \in Pair(r) : ~In(a, r)}
  <2>1. \A q \in RoomIDs, b \in Agents :
           seats'[q][b] = IF q = r /\ b \in missing THEN 1 ELSE seats[q][b]
    BY <1>7 DEF RepairDM, TypeOK
  <2>2. missing \subseteq agents
    BY <1>7 DEF RepairDM
  <2>3. HoldersPresent'
    BY <1>7, <2>1 DEF RepairDM, IInv, Placement, TypeOK, HoldersPresent, In
  <2>4. Seating'
    BY <1>7, <2>1, <2>2 DEF RepairDM, IInv, Placement, Seating, SingleSeats, MembersRegistered, In
  <2>5. SeatsInRooms'
    BY <1>7, <2>1 DEF RepairDM, IInv, Placement, SeatsInRooms, In
  <2>6. QED
    BY <2>3, <2>4, <2>5 DEF Placement
<1>8. ASSUME NEW h \in Handlers, NEW r \in RoomIDs, UnassignRoles(h, r)
     PROVE  Placement'
  BY <1>8 DEF UnassignRoles, IInv, Placement, TypeOK, HoldersPresent, Seating, SingleSeats,
        SeatsInRooms, MembersRegistered, In
<1>9. ASSUME NEW h \in Handlers, NEW a \in Agents, NEW r \in RoomIDs, JoinRoom(h, a, r)
     PROVE  Placement'
  BY <1>9, Seated DEF JoinRoom
<1>10. ASSUME NEW h \in Handlers, NEW a \in Agents, NEW r \in RoomIDs, LeaveRoom(h, a, r)
      PROVE  Placement'
  BY <1>10, StoodUp DEF LeaveRoom
<1>11. ASSUME NEW h \in Handlers, NEW a \in Agents, NEW r \in RoomIDs, MayHide(h, a, r)
      PROVE  Placement'
  BY <1>11, Undisturbed DEF MayHide, store
<1>12. ASSUME NEW h \in Handlers, NEW a \in Agents, NEW r \in RoomIDs, Show(h, a, r)
      PROVE  Placement'
  BY <1>12, Undisturbed DEF Show
<1>13. ASSUME NEW h \in Handlers, NEW a \in Agents, NEW r \in RoomIDs, SendAttention(h, a, r)
      PROVE  Placement'
  BY <1>13, Undisturbed DEF SendAttention, store
<1>14. ASSUME NEW h \in Handlers, NEW a \in Agents, NEW r \in RoomIDs, AssignRole(h, a, r)
      PROVE  Placement'
  BY <1>14 DEF AssignRole, IInv, Placement, TypeOK, HoldersPresent, Seating, SingleSeats,
        SeatsInRooms, MembersRegistered, In
<1>15. ASSUME NEW h \in Handlers, Welcome(h)
      PROVE  Placement'
  <2> DEFINE a == serving[h].agent
  <2>1. CASE a \in agents /\ ~In(a, SystemRoom)
    BY <1>15, <2>1, Seated, RoomsAssumption DEF Welcome, TypeOK
  <2>2. CASE ~(a \in agents /\ ~In(a, SystemRoom))
    BY <1>15, <2>2, Undisturbed DEF Welcome
  <2>3. QED
    BY <2>1, <2>2
<1>16. ASSUME NEW h \in Handlers, KickNext(h)
      PROVE  Placement'
  <2> DEFINE r == serving[h].room
  <2>1. r \in RoomIDs
    BY DEF TypeOK, Request
  <2>2. PICK a \in Agents : IF In(a, r) THEN StandUp(a, r) ELSE UNCHANGED <<seats, holders>>
    BY <1>16 DEF KickNext
  <2>3. QED
    BY <1>16, <2>1, <2>2, StoodUp, Undisturbed DEF KickNext
<1>17. ASSUME NEW h \in Handlers, Hide(h)
      PROVE  Placement'
  BY <1>17, Undisturbed DEF Hide
<1>18. ASSUME NEW h \in Handlers, AttendNext(h)
      PROVE  Placement'
  <2> DEFINE r == serving[h].room
  <2>1. r \in RoomIDs
    BY DEF TypeOK, Request
  <2>2. PICK a \in Agents :
           IF a \in agents /\ ~In(a, r) THEN Sit(a, r) ELSE UNCHANGED <<rooms, seats, hidden>>
    BY <1>18 DEF AttendNext
  <2>3. QED
    BY <1>18, <2>1, <2>2, Seated, Undisturbed DEF AttendNext
<1>19. ASSUME NEW h \in Handlers, Surface(h)
      PROVE  Placement'
  BY <1>19, Undisturbed DEF Surface
<1>20. ASSUME NEW h \in Handlers, ClearAgents(h)
      PROVE  Placement'
  <2>1. agents' = agents \ agents /\ agents \subseteq Agents
    BY <1>20 DEF ClearAgents, TypeOK
  <2>2. \A r \in RoomIDs : holders[r] \cap agents
                             \subseteq {a \in agents : \E q \in RoomIDs : In(a, q)}
    BY DEF IInv, Placement, HoldersPresent
  <2>3. QED
    BY <1>20, <2>1, <2>2, Removed DEF ClearAgents
<1>21. ASSUME NEW h \in Handlers, ClearEverything(h)
      PROVE  Placement'
  BY <1>21 DEF ClearEverything, IInv, Placement, TypeOK, HoldersPresent, Seating, SingleSeats,
        SeatsInRooms, MembersRegistered, In, SeatsWithout, RolesWithout
<1>22. ASSUME NEW stale \in SUBSET Agents, PruneStale(stale)
      PROVE  Placement'
  <2>1. HoldersPresent'
    BY <1>22 DEF PruneStale, IInv, Placement, TypeOK, HoldersPresent, In, SeatsLessOne, RolesWithout
  <2>2. Seating'
    BY <1>22 DEF PruneStale, IInv, Placement, TypeOK, Seating, SingleSeats, MembersRegistered, In,
                 SeatsLessOne
  <2>3. SeatsInRooms'
    BY <1>22 DEF PruneStale, IInv, Placement, TypeOK, SeatsInRooms, In, SeatsLessOne
  <2>4. QED
    BY <2>1, <2>2, <2>3 DEF Placement
<1>23. ASSUME NEW stale \in SUBSET Agents, Restart(stale)
      PROVE  Placement'
  <2>1. \A r \in RoomIDs : holders[r] \cap stale
                             \subseteq {a \in stale : \E q \in RoomIDs : In(a, q)}
    BY DEF IInv, Placement, HoldersPresent
  <2>2. QED
    BY <1>23, <2>1, Removed DEF Restart
<1>24. CASE UNCHANGED vars
  BY <1>24, Undisturbed DEF vars, store
<1>25. QED
  BY <1>1, <1>2, <1>3, <1>4, <1>5, <1>6, <1>7, <1>8, <1>9, <1>10, <1>11, <1>12,
     <1>13, <1>14, <1>15, <1>16, <1>17, <1>18, <1>19, <1>20, <1>21, <1>22, <1>23,
     <1>24 DEF Next, Serve

LEMMA InitSeats == Init => Placement
BY DEF Init, Placement, SeatsInRooms, HoldersPresent, Seating, SingleSeats,
       MembersRegistered, In, NoneLeft

LEMMA Inductive == Spec => []IInv
<1>1. Init => IInv
  BY TypeInit, InitSeats DEF IInv
<1>2. IInv /\ [Next]_vars => IInv'
  BY TypeStep, SeatingStep DEF IInv
<1>3. QED
  BY <1>1, <1>2, PTL DEF Spec

\* Whoever holds a role in a room is registered and sits in it, for any number of
\* agents, rooms and concurrent requests: an agent that is removed, in whichever
\* way, never holds a singleton role any longer (store.go:216-220).
THEOREM NoGhostHolds == Spec => []HoldersPresent
<1>1. IInv => HoldersPresent
  BY DEF IInv, Placement
<1>2. QED
  BY Inductive, <1>1, PTL

\* As long as no participant opens a DM with itself, a member list names
\* registered agents only, whatever joins, registrations and prunes interleave.
THEOREM NoGhostMembers ==
  ASSUME NoSelfDM
  PROVE  Spec => []MembersRegistered
<1>1. IInv => MembersRegistered
  BY DEF IInv, Placement, Seating
<1>2. QED
  BY Inductive, <1>1, PTL

=============================================================================
