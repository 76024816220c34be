------------------------------- MODULE Rooms --------------------------------
(***************************************************************************)
(* The membership side of the aimebu store: registering and removing       *)
(* agents, rooms and their member lists, who holds a role in a room, and    *)
(* each participant's hidden rooms.                                        *)
(*                                                                         *)
(* A member list is a Go slice that is searched from the front, so an agent *)
(* may sit in it more than once; seats counts how often.  Requests that     *)
(* take the store lock more than once are several steps.                    *)
(***************************************************************************)
EXTENDS Integers, FiniteSets

CONSTANTS
  Agents,       \* every participant id that may register
  Humans,       \* those that register with kind "human"
  Nobody,       \* the agent of a request that names none
  RoomIDs,      \* every room id that may exist
  SystemRoom,   \* the id "_system"
  Participants, \* [DM room ids -> the pair of participants the id is built from]
  Handlers,     \* goroutines serving the requests
  Calls         \* bound: the calls the clients of this instance make

DMRooms == DOMAIN Participants

ASSUME RoomsAssumption ==
  /\ Humans \subseteq Agents /\ Nobody \notin Agents
  /\ SystemRoom \in RoomIDs
  /\ DMRooms \subseteq RoomIDs \ {SystemRoom}
  /\ Participants \in [DMRooms -> Agents \X Agents]
  /\ Calls \subseteq {"register", "deregister", "join", "leave", "kick_all", "create",
                      "delete", "dm", "hide", "show", "attention", "role", "prune",
                      "clear", "restart"}

VARIABLES
  agents,   \* the registered agents
  rooms,    \* the rooms that exist
  seats,    \* room id -> agent -> how often it is in the room's member list
  holders,  \* room id -> the agents that hold a role there
  hidden,   \* agent -> the rooms it has hidden
  serving   \* handler -> the state of the request it serves

store == <<agents, rooms, seats, holders, hidden>>
vars == <<store, serving>>

-----------------------------------------------------------------------------

Request == [pc : {"idle", "welcome", "kick", "hide", "attend", "surface"},
            agent : Agents \cup {Nobody}, room : RoomIDs,
            left : [Agents -> Nat]]  \* member-list entries still to be treated

NoneLeft == [a \in Agents |-> 0]
Idle == [pc |-> "idle", agent |-> Nobody, room |-> SystemRoom, left |-> NoneLeft]

TypeOK ==
  /\ agents \subseteq Agents
  /\ rooms \subseteq RoomIDs
  /\ seats \in [RoomIDs -> [Agents -> Nat]]
  /\ holders \in [RoomIDs -> SUBSET Agents]
  /\ hidden \in [Agents -> SUBSET RoomIDs]
  /\ serving \in [Handlers -> Request]

In(a, r) == seats[r][a] > 0
Alone(a, r) == \A b \in Agents \ {a} : ~In(b, r)

\* clearHiddenForRoomLocked.
ShownToAll(r) == [a \in Agents |-> hidden[a] \ {r}]

\* What every way into a room does once the agent is known not to be in it.
Sit(a, r) ==
  /\ rooms' = rooms \cup {r}
  /\ seats' = [seats EXCEPT ![r][a] = @ + 1]
  /\ hidden' = ShownToAll(r)

\* Removing an agent from every member list: all its entries, or the first only.
SeatsWithout(gone) ==
  [r \in RoomIDs |-> [a \in Agents |-> IF a \in gone THEN 0 ELSE seats[r][a]]]
SeatsLessOne(gone) ==
  [r \in RoomIDs |-> [a \in Agents |->
     IF a \in gone /\ seats[r][a] > 0 THEN seats[r][a] - 1 ELSE seats[r][a]]]
RolesWithout(gone) == [r \in RoomIDs |-> holders[r] \ gone]

Free(h, call) == serving[h].pc = "idle" /\ call \in Calls
Continue(h, pc, a, r, left) ==
  serving' = [serving EXCEPT ![h] = [pc |-> pc, agent |-> a, room |-> r, left |-> left]]
Done(h) == serving' = [serving EXCEPT ![h] = Idle]

-----------------------------------------------------------------------------
(* Agents.                                                                 *)

\* A new registration and a repeated one end the same way.
RegisterHuman(h, a) ==
  /\ Free(h, "register")
  /\ a \in Humans
  /\ agents' = agents \cup {a}
  /\ Continue(h, "welcome", a, SystemRoom, NoneLeft)
  /\ UNCHANGED <<rooms, seats, holders, hidden>>

\* An AI whose session hint cannot be stored is told so, but stays registered
\* and goes no further.
RegisterAI(h, a) ==
  /\ Free(h, "register")
  /\ a \notin Humans
  /\ agents' = agents \cup {a}
  /\ Continue(h, "welcome", a, SystemRoom, NoneLeft) \/ UNCHANGED serving
  /\ UNCHANGED <<rooms, seats, holders, hidden>>

\* joinRoomInternal("_system", id), after the lock was released.
WelcomeAnyone(h) ==
  /\ serving[h].pc = "welcome"
  /\ Sit(serving[h].agent, SystemRoom)
  /\ Done(h)
  /\ UNCHANGED <<agents, holders>>

Welcome(h) ==
  LET a == serving[h].agent IN
  /\ serving[h].pc = "welcome"
  /\ IF a \in agents /\ ~In(a, SystemRoom)
     THEN Sit(a, SystemRoom)
     ELSE UNCHANGED <<seats, hidden>>
          /\ rooms' = IF a \in agents THEN rooms \cup {SystemRoom} ELSE rooms
  /\ Done(h)
  /\ UNCHANGED <<agents, holders>>

DeregisterKeepsRole(h, a) ==
  /\ Free(h, "deregister")
  /\ a \in agents
  /\ agents' = agents \ {a}
  /\ seats' = SeatsWithout({a})
  /\ UNCHANGED <<rooms, holders, hidden, serving>>

Deregister(h, a) ==
  /\ Free(h, "deregister")
  /\ a \in agents
  /\ agents' = agents \ {a}
  /\ seats' = SeatsWithout({a})
  /\ holders' = RolesWithout({a})
  /\ UNCHANGED <<rooms, hidden, serving>>

\* The cleanup ticker: it takes only the first entry of a stale agent out of
\* each member list.
PruneStale(stale) ==
  /\ "prune" \in Calls
  /\ stale # {} /\ stale \subseteq agents
  /\ agents' = agents \ stale
  /\ seats' = SeatsLessOne(stale)
  /\ holders' = RolesWithout(stale)
  /\ UNCHANGED <<rooms, hidden, serving>>

\* DELETE /all, plain and with include_settings.
ClearAgents(h) ==
  /\ Free(h, "clear")
  /\ agents' = {}
  /\ seats' = SeatsWithout(agents)
  /\ holders' = RolesWithout({a \in agents : \E r \in RoomIDs : In(a, r)})
  /\ UNCHANGED <<rooms, hidden, serving>>

ClearEverything(h) ==
  /\ Free(h, "clear")
  /\ agents' = {}
  /\ rooms' = {}
  /\ seats' = SeatsWithout(Agents)
  /\ holders' = RolesWithout(Agents)
  /\ hidden' = [a \in Agents |-> {}]
  /\ UNCHANGED serving

\* A stop at any point, then newStore: pruneOnStartup and ensureSystemRoom.
Restart(stale) ==
  /\ "restart" \in Calls
  /\ stale \subseteq agents
  /\ agents' = agents \ stale
  /\ seats' = SeatsWithout(stale)
  /\ holders' = RolesWithout({a \in stale : \E r \in RoomIDs : In(a, r)})
  /\ rooms' = rooms \cup {SystemRoom}
  /\ serving' = [h \in Handlers |-> Idle]
  /\ UNCHANGED hidden

-----------------------------------------------------------------------------
(* Rooms and their members.                                                *)

CreateRoom(h, r) ==
  /\ Free(h, "create")
  /\ r # SystemRoom
  /\ rooms' = rooms \cup {r}
  /\ UNCHANGED <<agents, seats, holders, hidden, serving>>

\* deleteRoom: the system room is not spared, and hidden flags stay behind.
DeleteRoom(h, r) ==
  /\ Free(h, "delete")
  /\ r \in rooms
  /\ rooms' = rooms \ {r}
  /\ seats' = [seats EXCEPT ![r] = NoneLeft]
  /\ holders' = [holders EXCEPT ![r] = {}]
  /\ UNCHANGED <<agents, hidden, serving>>

JoinRoomHidden(h, a, r) ==
  /\ Free(h, "join")
  /\ r # SystemRoom
  /\ a \in agents /\ ~In(a, r)
  /\ rooms' = rooms \cup {r}
  /\ seats' = [seats EXCEPT ![r][a] = @ + 1]
  /\ UNCHANGED <<agents, holders, hidden, serving>>

JoinRoom(h, a, r) ==
  /\ Free(h, "join")
  /\ r # SystemRoom
  /\ a \in agents /\ ~In(a, r)
  /\ Sit(a, r)
  /\ UNCHANGED <<agents, holders, serving>>

\* leaveRoomWithEvent: the first entry only.
StandUp(a, r) ==
  /\ seats' = [seats EXCEPT ![r][a] = @ - 1]
  /\ holders' = [holders EXCEPT ![r] = @ \ {a}]

LeaveRoom(h, a, r) ==
  /\ Free(h, "leave")
  /\ In(a, r)
  /\ StandUp(a, r)
  /\ UNCHANGED <<agents, rooms, hidden, serving>>

\* kickAgents: a snapshot of the member list, then one leave per entry.
Kickable(r) == [a \in Agents |-> IF a \in agents \ Humans THEN seats[r][a] ELSE 0]

KickAgents(h, r) ==
  /\ Free(h, "kick_all")
  /\ r \in rooms
  /\ Kickable(r) # NoneLeft
  /\ Continue(h, "kick", Nobody, r, Kickable(r))
  /\ UNCHANGED store

KickNext(h) ==
  LET r == serving[h].room IN
  \E a \in Agents :
    LET rest == [serving[h].left EXCEPT ![a] = @ - 1] IN
    /\ serving[h].pc = "kick"
    /\ serving[h].left[a] > 0
    /\ IF In(a, r) THEN StandUp(a, r) ELSE UNCHANGED <<seats, holders>>
    /\ IF rest = NoneLeft THEN Done(h)
       ELSE serving' = [serving EXCEPT ![h].left = rest]
    /\ UNCHANGED <<agents, rooms, hidden>>

\* findOrCreateDM: a new room gets its two entries, which are one agent twice
\* when an agent opens a DM with itself, and unhides nothing; an existing room
\* is joined by whoever is missing.
Pair(r) == {Participants[r][1], Participants[r][2]}
PairSeats(r) ==
  [a \in Agents |-> (IF Participants[r][1] = a THEN 1 ELSE 0)
                    + (IF Participants[r][2] = a THEN 1 ELSE 0)]

NewDM(h, r) ==
  /\ Free(h, "dm")
  /\ r \in DMRooms \ rooms
  /\ Pair(r) \subseteq agents
  /\ rooms' = rooms \cup {r}
  /\ seats' = [seats EXCEPT ![r] = PairSeats(r)]
  /\ UNCHANGED <<agents, holders, hidden, serving>>

RepairDM(h, r) ==
  LET missing == {a \in Pair(r) : ~In(a, r)} IN
  /\ Free(h, "dm")
  /\ r \in DMRooms \cap rooms
  /\ Pair(r) \subseteq agents
  /\ missing # {}
  /\ seats' = [seats EXCEPT ![r] = [a \in Agents |-> IF a \in missing THEN 1 ELSE @[a]]]
  /\ hidden' = ShownToAll(r)
  /\ UNCHANGED <<agents, rooms, holders, serving>>

-----------------------------------------------------------------------------
(* Hidden rooms, messages that need attention, roles.                      *)

\* POST /agents/{id}/rooms/{room_id}/prefs with hidden=true asks first whether
\* anyone else is in the room; neither the agent nor the room need exist.
MayHide(h, a, r) ==
  /\ Free(h, "hide")
  /\ Alone(a, r)
  /\ Continue(h, "hide", a, r, NoneLeft)
  /\ UNCHANGED store

Hide(h) ==
  /\ serving[h].pc = "hide"
  /\ hidden' = [hidden EXCEPT ![serving[h].agent] = @ \cup {serving[h].room}]
  /\ Done(h)
  /\ UNCHANGED <<agents, rooms, seats, holders>>

Show(h, a, r) ==
  /\ Free(h, "show")
  /\ hidden' = [hidden EXCEPT ![a] = @ \ {r}]
  /\ UNCHANGED <<agents, rooms, seats, holders, serving>>

\* A needs_attention message joins the humans it found registered, one by one,
\* then unhides the room for those it addresses.
SendAttention(h, a, r) ==
  /\ Free(h, "attention")
  /\ r # SystemRoom
  /\ In(a, r)
  /\ Continue(h, "attend", a, r,
              [b \in Agents |-> IF b \in agents \cap Humans THEN 1 ELSE 0])
  /\ UNCHANGED store

AttendNext(h) ==
  LET r == serving[h].room IN
  /\ serving[h].pc = "attend"
  /\ \E a \in Agents :
       /\ serving[h].left[a] > 0
       /\ IF a \in agents /\ ~In(a, r) THEN Sit(a, r) ELSE UNCHANGED <<rooms, seats, hidden>>
       /\ serving' = [serving EXCEPT ![h].left[a] = 0]
  /\ UNCHANGED <<agents, holders>>

Surface(h) ==
  /\ serving[h].pc = "attend"
  /\ serving[h].left = NoneLeft
  /\ \E addressed \in SUBSET Agents :
       hidden' = [a \in Agents |-> IF a \in addressed THEN hidden[a] \ {serving[h].room}
                                   ELSE hidden[a]]
  /\ Done(h)
  /\ UNCHANGED <<agents, rooms, seats, holders>>

\* assignRole; which role, and whether it is taken, is the business of Roles.
AssignRole(h, a, r) ==
  /\ Free(h, "role")
  /\ In(a, r)
  /\ a \in agents \ Humans
  /\ holders' = [holders EXCEPT ![r] = @ \cup {a}]
  /\ UNCHANGED <<agents, rooms, seats, hidden, serving>>

UnassignRoles(h, r) ==
  /\ Free(h, "role")
  /\ \E freed \in SUBSET holders[r] : holders' = [holders EXCEPT ![r] = @ \ freed]
  /\ UNCHANGED <<agents, rooms, seats, hidden, serving>>

-----------------------------------------------------------------------------

Init ==
  /\ agents = {}
  /\ rooms = {SystemRoom}
  /\ seats = [r \in RoomIDs |-> NoneLeft]
  /\ holders = [r \in RoomIDs |-> {}]
  /\ hidden = [a \in Agents |-> {}]
  /\ serving = [h \in Handlers |-> Idle]

Serve(h) ==
  \/ \E a \in Agents : RegisterHuman(h, a) \/ RegisterAI(h, a) \/ Deregister(h, a)
  \/ \E r \in RoomIDs :
        \/ CreateRoom(h, r) \/ DeleteRoom(h, r) \/ KickAgents(h, r)
        \/ NewDM(h, r) \/ RepairDM(h, r) \/ UnassignRoles(h, r)
  \/ \E a \in Agents, r \in RoomIDs :
        \/ JoinRoom(h, a, r) \/ LeaveRoom(h, a, r) \/ MayHide(h, a, r)
        \/ Show(h, a, r) \/ SendAttention(h, a, r) \/ AssignRole(h, a, r)
  \/ Welcome(h) \/ KickNext(h) \/ Hide(h) \/ AttendNext(h) \/ Surface(h)
  \/ ClearAgents(h) \/ ClearEverything(h)

Next ==
  \/ \E h \in Handlers : Serve(h)
  \/ \E stale \in SUBSET Agents : PruneStale(stale) \/ Restart(stale)

Spec == Init /\ [][Next]_vars

-----------------------------------------------------------------------------
(* Properties.                                                             *)

\* A member list names registered agents only: every way of removing an agent
\* takes it out of every room, whatever joins are under way.  "Agents are also
\* dropped from every room's membership and roles" (store.go:216-220).
MembersRegistered == \A r \in RoomIDs, a \in Agents : In(a, r) => a \in agents

\* Whoever holds a role in a room is registered and sits in that room, so no
\* singleton role is held forever by an agent that is gone (store.go:217-220).
HoldersPresent == \A r \in RoomIDs : \A a \in holders[r] : a \in agents /\ In(a, r)

\* "Anyone joining unhides it" (store_room_prefs.go:10-13): whoever arrives in a
\* room unhides it for everybody in the same step, whatever hide requests are half
\* done; only the first opening of a DM does not.
ArrivalShows ==
  [][\A r \in RoomIDs :
       (r \in rooms \/ r \notin DMRooms)
         /\ (\E a \in Agents : ~In(a, r) /\ In(a, r)')
       => \A a \in Agents : r \notin hidden'[a]]_vars

\* No participant opens a DM with itself.
NoSelfDM == \A r \in DMRooms : Participants[r][1] # Participants[r][2]
=============================================================================
