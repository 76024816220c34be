------------------------------ MODULE Delivery ------------------------------
(***************************************************************************)
(* The message path of the aimebu server: how a message is posted into a   *)
(* room, how the two long-poll handlers GET /rooms/{id}/wait and           *)
(* GET /agents/{id}/wait hand it to an agent, and how the per-room read    *)
(* cursors remember what the agent has been handed.                        *)
(*                                                                         *)
(* Every HTTP request is served by its own goroutine; the store's mutexes  *)
(* are held for short sections only, so one request is several steps here, *)
(* one per critical section.  A request's program counter names the step   *)
(* it takes next.  rooms, members, messages, nextID and cursors are the    *)
(* fields of the store that survive a restart (nextID by recomputation);   *)
(* requests and channels do not.                                           *)
(***************************************************************************)
EXTENDS Integers, Sequences, FiniteSets

CONSTANTS
  Agents,       \* the registered participants; registration itself is in Rooms
  RoomIDs,      \* every room id that may exist
  SystemRoom,   \* the id "_system", whose messages are the lifecycle events
  Humans,       \* those of kind "human", whom a needs_attention message joins
  Peers,        \* [DM room ids -> the two participants the id is built from]
  System,       \* the sender "_system" of the server's own messages
  Everywhere,   \* the scope of an agent-wide wait, "" in the code
  Posters,      \* goroutines serving send, join, leave, create, delete, DM
  Listeners,    \* goroutines serving wait and mark-read
  ChanCap,      \* capacity of a subscription channel, 64 in the code
  RecentWindow, \* history a first read returns, 5 in the code
  ServeTwoWaits,\* may one agent have two waits open at once?
  Readers,      \* bound: the agents that wait and mark read in this instance
  Calls,        \* bound: the calls the clients of this instance make
  MaxID,        \* bound: the highest message id the model allocates
  MaxCrashes    \* bound: how often the server may stop and start again

DMRooms == DOMAIN Peers

ASSUME DeliveryAssumption ==
  /\ SystemRoom \in RoomIDs
  /\ IsFiniteSet(Agents) /\ Humans \subseteq Agents
  /\ DMRooms \subseteq RoomIDs \ {SystemRoom}
  /\ \A r \in DMRooms : Peers[r] \subseteq Agents
  /\ Everywhere \notin RoomIDs
  /\ System \notin Agents
  /\ Posters # {} /\ Posters \cap Listeners = {}
  /\ ServeTwoWaits \in BOOLEAN
  /\ ChanCap \in Nat \ {0} /\ RecentWindow \in Nat
  /\ Readers \subseteq Agents
  /\ Calls \subseteq {"send", "announce", "create", "join", "leave", "dm", "delete",
                     "room_wait", "agent_wait", "replay", "mark_read"}
  /\ MaxID \in Nat /\ MaxCrashes \in Nat

VARIABLES
  rooms,     \* the rooms that exist
  members,   \* room id -> its members
  messages,  \* room id -> its messages in storage order
  nextID,    \* the highest message id handed out so far
  cursors,   \* agent -> room id -> read cursor, or Unset
  posting,   \* poster -> the state of the request it serves
  waiting,   \* listener -> the state of the request it serves
  chan,      \* listener -> its subscription channel
  crashes,   \* how often the server has stopped
  \* What the properties talk about; no step reads these.
  settled,   \* agent -> ids it was handed, posted itself, or chose to skip
  handed,    \* agent -> ids that were written into a response to it
  repeated,  \* agent -> ids written twice into responses it asked nothing special of
  exposed    \* ids that met one of the races the code leaves open

store == <<rooms, members, messages, nextID, cursors>>
history == <<settled, handed, repeated, exposed>>
vars == <<store, posting, waiting, chan, crashes, history>>

-----------------------------------------------------------------------------
(* The values the variables take.                                          *)

Unset == -1
Message == [id : Nat, room : RoomIDs, from : Agents \cup {System}]
\* calls: the humans a needs_attention message has still to look for.
Emission == [room : RoomIDs, from : Agents \cup {System}, calls : SUBSET Agents]

PostingState == [pc : {"idle", "attend", "allocate", "append", "notify", "down"},
                 outbox : Seq(Emission), id : Nat]
WaitingState == [pc : {"idle", "scan", "subscribe", "listen", "advance", "down"},
                 agent : Agents \cup {System}, room : RoomIDs \cup {Everywhere},
                 since : Nat, explicit : BOOLEAN,
                 acks : SUBSET (RoomIDs \X Nat)]

NoPost == [pc |-> "idle", outbox |-> <<>>, id |-> 0]
NoWait == [pc |-> "idle", agent |-> System, room |-> Everywhere,
           since |-> 0, explicit |-> FALSE, acks |-> {}]

TypeOK ==
  /\ rooms \subseteq RoomIDs
  /\ members \in [RoomIDs -> SUBSET Agents]
  /\ messages \in [RoomIDs -> Seq(Message)]
  /\ nextID \in Nat
  /\ cursors \in [Agents -> [RoomIDs -> Nat \cup {Unset}]]
  /\ posting \in [Posters -> PostingState]
  /\ waiting \in [Listeners -> WaitingState]
  /\ chan \in [Listeners -> Seq(Message)]
  /\ crashes \in Nat
  /\ settled \in [Agents -> SUBSET Nat]
  /\ handed \in [Agents -> SUBSET Nat]
  /\ repeated \in [Agents -> SUBSET Nat]
  /\ exposed \subseteq Nat

Elements(s) == {s[i] : i \in DOMAIN s}
IDs(ms) == {m.id : m \in ms}
Stored(r) == Elements(messages[r])
StoredIDs == UNION {IDs(Stored(r)) : r \in RoomIDs}

\* roomHead: the id of the message stored last, 0 in an empty room.
RoomHead(r) == IF messages[r] = <<>> THEN 0 ELSE messages[r][Len(messages[r])].id

\* The cursor a read of r by a starts from; a first read starts RecentWindow
\* ids before the head.
FirstCursor(r) == IF RoomHead(r) > RecentWindow THEN RoomHead(r) - RecentWindow ELSE 0
CursorOf(a, r) == IF cursors[a][r] = Unset THEN FirstCursor(r) ELSE cursors[a][r]

\* advanceCursor: a cursor only moves forward, and one never set counts as 0.
AdvancedAnyway(cur, to) == to
AdvancedBeyond(cur, to) == IF cur >= to THEN cur ELSE to + 1
AdvancedNever(cur, to) == cur
Advanced(cur, to) == IF cur >= to \/ (cur = Unset /\ to = 0) THEN cur ELSE to

-----------------------------------------------------------------------------
(* Posting.  Every handler that posts does its own critical section first  *)
(* and then emits one message after the other: allocate the id with no     *)
(* lock held, append under the store lock, notify under the subscription   *)
(* lock.                                                                   *)

EventIn(r) == [room |-> r, from |-> System, calls |-> {}]

\* The server's lifecycle events are emitted for ordinary rooms only.
Lifecycle(r) == IF r = SystemRoom \/ r \in DMRooms THEN <<>> ELSE <<EventIn(SystemRoom)>>

Emit(g, box) ==
  posting' = [posting EXCEPT ![g] =
                [pc |-> IF box = <<>> THEN "idle"
                        ELSE IF Head(box).calls # {} THEN "attend" ELSE "allocate",
                 outbox |-> box, id |-> 0]]

EmitNext(g) == Emit(g, Tail(posting[g].outbox))

\* POST /rooms/{id}/send: the membership check, then, for a needs_attention
\* message, the humans to join one by one, then the message.
Send(g, a, r) ==
  /\ posting[g].pc = "idle" /\ "send" \in Calls
  /\ r # SystemRoom
  /\ r \in rooms /\ a \in members[r]
  /\ \E calls \in {{}, Humans} : Emit(g, <<[room |-> r, from |-> a, calls |-> calls]>>)
  /\ UNCHANGED <<store, waiting, chan, crashes, history>>

\* Any handler that ends in emitSystemMessage(r, ...): agents registered or
\* pruned, roles, memory and leaderboard events, "server stopping".
Announce(g, r) ==
  /\ posting[g].pc = "idle" /\ "announce" \in Calls
  /\ Emit(g, <<EventIn(r)>>)
  /\ UNCHANGED <<store, waiting, chan, crashes, history>>

CreateRoom(g, r) ==
  /\ posting[g].pc = "idle" /\ "create" \in Calls
  /\ r \notin rooms \cup {SystemRoom}
  /\ rooms' = rooms \cup {r}
  /\ Emit(g, Lifecycle(r))
  /\ UNCHANGED <<members, messages, nextID, cursors, waiting, chan, crashes, history>>

\* The requests whose scope includes r, by the step they are at.
InScope(pc, r) == {h \in Listeners : waiting[h].pc = pc /\ waiting[h].room \in {r, Everywhere}}

\* Joining a room does not make an open agent-wide wait look at it again.
Unlooked(as, r) ==
  IF \E h \in Listeners : /\ waiting[h].pc \in {"subscribe", "listen"}
                          /\ waiting[h].room = Everywhere
                          /\ waiting[h].agent \in as \ members[r]
  THEN IDs(Stored(r)) ELSE {}

\* joinRoom creates the room when it does not exist.
Joins(a, r) ==
  /\ rooms' = rooms \cup {r}
  /\ members' = [members EXCEPT ![r] = @ \cup {a}]
  /\ exposed' = exposed \cup Unlooked({a}, r)
JoinEvents(r) == (IF r \in rooms THEN <<>> ELSE Lifecycle(r)) \o <<EventIn(r)>>

JoinRoom(g, a, r) ==
  /\ posting[g].pc = "idle" /\ "join" \in Calls
  /\ r # SystemRoom
  /\ a \notin members[r]
  /\ Joins(a, r)
  /\ Emit(g, JoinEvents(r))
  /\ UNCHANGED <<messages, nextID, cursors, waiting, chan, crashes,
                 settled, handed, repeated>>

\* A needs_attention message joins the next human who is not in its room; the
\* event of the join is posted before the message.
Attend(g) ==
  LET m == Head(posting[g].outbox) IN
  /\ posting[g].pc = "attend"
  /\ \E h \in m.calls :
       LET box == <<[m EXCEPT !.calls = @ \ {h}]>> \o Tail(posting[g].outbox) IN
       \/ /\ h \in members[m.room]
          /\ Emit(g, box)
          /\ UNCHANGED <<rooms, members, exposed>>
       \/ /\ h \notin members[m.room]
          /\ Joins(h, m.room)
          /\ Emit(g, JoinEvents(m.room) \o box)
  /\ UNCHANGED <<messages, nextID, cursors, waiting, chan, crashes,
                 settled, handed, repeated>>

\* leaveRoomWithEvent, for a leave as for a kick.
LeaveRoom(g, a, r) ==
  /\ posting[g].pc = "idle" /\ "leave" \in Calls
  /\ r \in rooms /\ a \in members[r]
  /\ members' = [members EXCEPT ![r] = @ \ {a}]
  /\ Emit(g, <<EventIn(r)>>)
  /\ UNCHANGED <<rooms, messages, nextID, cursors, waiting, chan, crashes, history>>

\* findOrCreateDM: a new room starts with both participants and no message, an
\* existing one is repaired with one event per participant who was missing.
OpenDM(g, r) ==
  /\ posting[g].pc = "idle" /\ "dm" \in Calls
  /\ r \in DMRooms
  /\ rooms' = rooms \cup {r}
  /\ members' = [members EXCEPT ![r] = @ \cup Peers[r]]
  /\ LET back == IF r \in rooms THEN Peers[r] \ members[r] ELSE {}
     IN  Emit(g, [i \in 1..Cardinality(back) |-> EventIn(r)])
  /\ exposed' = exposed \cup Unlooked(Peers[r], r)
  /\ UNCHANGED <<messages, nextID, cursors, waiting, chan, crashes,
                 settled, handed, repeated>>

\* deleteRoom forgets the room, its members and its messages, but no cursor.
DeleteRoom(g, r) ==
  /\ posting[g].pc = "idle" /\ "delete" \in Calls
  /\ r \in rooms
  /\ rooms' = rooms \ {r}
  /\ members' = [members EXCEPT ![r] = {}]
  /\ messages' = [messages EXCEPT ![r] = <<>>]
  /\ Emit(g, Lifecycle(r))
  /\ UNCHANGED <<nextID, cursors, waiting, chan, crashes, history>>

\* s.nextID.Add(1), with no lock held.
AllocateID(g) ==
  /\ posting[g].pc = "allocate"
  /\ nextID < MaxID
  /\ nextID' = nextID + 1
  /\ posting' = [posting EXCEPT ![g] = [@ EXCEPT !.pc = "append", !.id = nextID + 1]]
  /\ UNCHANGED <<rooms, members, messages, cursors, waiting, chan, crashes, history>>

InHand(g) == [id |-> posting[g].id, room |-> Head(posting[g].outbox).room,
              from |-> Head(posting[g].outbox).from]

\* A system message to a room that is gone is dropped; a participant's message
\* is appended whether or not the room still exists.
DropEvent(g) ==
  /\ posting[g].pc = "append"
  /\ InHand(g).from = System /\ InHand(g).room \notin rooms
  /\ EmitNext(g)
  /\ UNCHANGED <<store, waiting, chan, crashes, history>>

AppendMessage(g) ==
  LET m == InHand(g) IN
  /\ posting[g].pc = "append"
  /\ m.from = System => m.room \in rooms
  /\ messages' = [messages EXCEPT ![m.room] = Append(@, m)]
  /\ posting' = [posting EXCEPT ![g].pc = "notify"]
  /\ exposed' = IF m.id < nextID THEN exposed \cup {m.id} ELSE exposed
  /\ UNCHANGED <<rooms, members, nextID, cursors, waiting, chan, crashes,
                 settled, handed, repeated>>

\* Non-blocking sends: a full channel misses the message.
Notify(g) ==
  LET m == InHand(g)
      hears == {h \in InScope("listen", m.room) : Len(chan[h]) < ChanCap}
      deaf == InScope("subscribe", m.room) \cup (InScope("listen", m.room) \ hears)
      overtaken == {InHand(p).id : p \in {p \in Posters \ {g} :
                       /\ posting[p].pc = "notify"
                       /\ InHand(p).room = m.room /\ InHand(p).id < m.id}}
  IN
  /\ posting[g].pc = "notify"
  /\ chan' = [h \in Listeners |-> IF h \in hears THEN Append(chan[h], m) ELSE chan[h]]
  /\ exposed' = exposed \cup overtaken \cup (IF deaf # {} THEN {m.id} ELSE {})
  /\ EmitNext(g)
  /\ UNCHANGED <<store, waiting, crashes, settled, handed, repeated>>

-----------------------------------------------------------------------------
(* Listening.                                                              *)

\* A client waits for the answer to one wait before it sends the next, unless
\* ServeTwoWaits says otherwise.
MayWait(g, a) ==
  /\ waiting[g].pc = "idle"
  /\ ServeTwoWaits \/ \A h \in Listeners : waiting[h].agent # a

UpTo(r, n) == {i \in IDs(Stored(r)) : i <= n}

\* ensureRoomCursor for the rooms rs, and the backlog a first read leaves out.
EnsureCursors(a, rs) ==
  cursors' = [cursors EXCEPT ![a] =
                [r \in RoomIDs |-> IF r \in rs THEN CursorOf(a, r) ELSE cursors[a][r]]]
LeftOut(a, rs) ==
  UNION {UpTo(r, FirstCursor(r)) : r \in {s \in rs : cursors[a][s] = Unset}}

Settle(a, ids) == settled' = [settled EXCEPT ![a] = @ \cup ids]

\* GET /rooms/{id}/wait up to the resolved since_id: an explicit one (n > 0), or
\* the agent's cursor, which a first read initialises.
RoomWait(g, a, r, n) ==
  LET rs == IF n > 0 THEN {} ELSE {r} IN
  /\ MayWait(g, a) /\ "room_wait" \in Calls
  /\ n > 0 => "replay" \in Calls
  /\ r \in rooms /\ n \in {0} \cup IDs(Stored(r))
  /\ waiting' = [waiting EXCEPT ![g] =
                   [pc |-> "scan", agent |-> a, room |-> r,
                    since |-> IF n > 0 THEN n ELSE CursorOf(a, r),
                    explicit |-> n > 0, acks |-> {}]]
  /\ EnsureCursors(a, rs)
  /\ Settle(a, IF n > 0 THEN UpTo(r, n) ELSE LeftOut(a, rs))
  /\ UNCHANGED <<rooms, members, messages, nextID, posting, chan, crashes,
                 handed, repeated, exposed>>

\* GET /agents/{id}/wait up to the first look at the rooms.
AgentWait(g, a, n) ==
  /\ MayWait(g, a) /\ "agent_wait" \in Calls
  /\ n > 0 => "replay" \in Calls
  /\ n \in {0} \cup StoredIDs
  /\ waiting' = [waiting EXCEPT ![g] =
                   [pc |-> "scan", agent |-> a, room |-> Everywhere, since |-> n,
                    explicit |-> n > 0, acks |-> {}]]
  /\ UNCHANGED <<store, posting, chan, crashes, history>>

\* POST /agents/{id}/read: the message id the client names, or the head (t = 0).
MarkRead(g, a, r, t) ==
  LET to == IF t = 0 THEN RoomHead(r) ELSE t IN
  /\ waiting[g].pc = "idle" /\ "mark_read" \in Calls
  /\ t \in {0} \cup IDs(Stored(r))
  /\ waiting' = [waiting EXCEPT ![g] =
                   [NoWait EXCEPT !.pc = "advance", !.agent = a, !.acks = {<<r, to>>}]]
  /\ Settle(a, UpTo(r, to))
  /\ UNCHANGED <<store, posting, chan, crashes, handed, repeated, exposed>>

\* An agent-wide wait without an explicit since_id follows the cursors.
FollowsCursors(g) == waiting[g].room = Everywhere /\ ~waiting[g].explicit

MemberRooms(a) == {r \in rooms : a \in members[r]}
Scanned(g) == IF waiting[g].room = Everywhere THEN MemberRooms(waiting[g].agent)
              ELSE {waiting[g].room}
Since(g, r) == IF FollowsCursors(g) THEN CursorOf(waiting[g].agent, r)
               ELSE waiting[g].since

\* The first look: messagesSince in a room, agentUnreadSinceCursor or
\* agentMessagesSince across the agent's rooms.
Found(g) == UNION {{m \in Stored(r) : m.id > Since(g, r)} : r \in Scanned(g)}
FirstLook(g) == IF FollowsCursors(g) THEN Scanned(g) ELSE {}

\* Once a response is written, a room wait moves the cursor to the message stored
\* last, an agent-wide one to the highest id per room; an agent-wide wait from
\* an explicit since_id moves none.
LastFound(g, r) ==
  LET hits == {i \in DOMAIN messages[r] : messages[r][i].id > Since(g, r)}
  IN  {messages[r][i].id : i \in {i \in hits : \A j \in hits : j <= i}}
Acks(g, batch) ==
  IF FollowsCursors(g)
    THEN {<<m.room, m.id>> : m \in {x \in batch :
              \A y \in batch : y.room = x.room => y.id <= x.id}}
  ELSE IF waiting[g].room = Everywhere THEN {}
  ELSE {waiting[g].room} \X (IF waiting[g].pc = "scan" THEN LastFound(g, waiting[g].room)
                             ELSE IDs(batch))

Finish(g) == waiting' = [waiting EXCEPT ![g] = NoWait]

\* The response is written; the cursors follow, one advanceCursor at a time.
Answer(g, batch) ==
  LET a == waiting[g].agent
      ids == IF waiting[g].explicit THEN {} ELSE IDs({m \in batch : m.from # a})
  IN
  /\ handed' = [handed EXCEPT ![a] = @ \cup ids]
  /\ repeated' = [repeated EXCEPT ![a] = @ \cup (ids \cap handed[a])]
  /\ IF Acks(g, batch) = {} THEN Finish(g)
     ELSE waiting' = [waiting EXCEPT ![g] = [@ EXCEPT !.pc = "advance", !.acks = Acks(g, batch)]]

ScanNothing(g) ==
  LET a == waiting[g].agent IN
  /\ waiting[g].pc = "scan"
  /\ Found(g) = {}
  /\ EnsureCursors(a, FirstLook(g))
  /\ Settle(a, LeftOut(a, FirstLook(g)))
  /\ waiting' = [waiting EXCEPT ![g].pc = "subscribe"]
  /\ UNCHANGED <<rooms, members, messages, nextID, posting, chan, crashes,
                 handed, repeated, exposed>>

\* Messages are there already: all of them are answered at once.
ScanAnswer(g) ==
  LET a == waiting[g].agent IN
  /\ waiting[g].pc = "scan"
  /\ Found(g) # {}
  /\ EnsureCursors(a, FirstLook(g))
  /\ Settle(a, LeftOut(a, FirstLook(g)) \cup IDs(Found(g)))
  /\ Answer(g, Found(g))
  /\ UNCHANGED <<rooms, members, messages, nextID, posting, chan, crashes, exposed>>

\* The response could not be written: no cursor moves.
ScanAnswerFailsLate(g) ==
  LET a == waiting[g].agent IN
  /\ waiting[g].pc = "scan"
  /\ Found(g) # {}
  /\ waiting' = [waiting EXCEPT ![g] = [@ EXCEPT !.pc = "advance", !.acks = Acks(g, Found(g))]]
  /\ UNCHANGED <<store, posting, chan, crashes, history>>

ScanAnswerFails(g) ==
  LET a == waiting[g].agent IN
  /\ waiting[g].pc = "scan"
  /\ Found(g) # {}
  /\ EnsureCursors(a, FirstLook(g))
  /\ Settle(a, LeftOut(a, FirstLook(g)))
  /\ Finish(g)
  /\ UNCHANGED <<rooms, members, messages, nextID, posting, chan, crashes,
                 handed, repeated, exposed>>

\* subscribeRoom or subscribeGlobal: only what is notified from now on arrives.
Subscribe(g) ==
  /\ waiting[g].pc = "subscribe"
  /\ waiting' = [waiting EXCEPT ![g].pc = "listen"]
  /\ chan' = [chan EXCEPT ![g] = <<>>]
  /\ UNCHANGED <<store, posting, crashes, history>>

-----------------------------------------------------------------------------
(* The select loop of a wait.                                              *)

Arrived(g) == Head(chan[g])
ForMember(g) == waiting[g].room = Everywhere => waiting[g].agent \in members[Arrived(g).room]
Wanted(g) == ForMember(g) /\ Arrived(g).id > Since(g, Arrived(g).room)
Own(g) == Arrived(g).from = waiting[g].agent

\* An agent-wide wait meets a room's cursor when it looks at a message of it.
Looked(g) == IF FollowsCursors(g) /\ ForMember(g) THEN {Arrived(g).room} ELSE {}

Receive(g) ==
  /\ waiting[g].pc = "listen"
  /\ chan[g] # <<>>
  /\ UNCHANGED <<rooms, members, messages, nextID, posting, crashes>>

Ignore(g) ==
  LET a == waiting[g].agent IN
  /\ Receive(g)
  /\ ~Wanted(g)
  /\ chan' = [chan EXCEPT ![g] = Tail(@)]
  /\ EnsureCursors(a, Looked(g))
  /\ Settle(a, LeftOut(a, Looked(g)))
  /\ exposed' = IF ForMember(g) THEN exposed ELSE exposed \cup {Arrived(g).id}
  /\ UNCHANGED <<waiting, handed, repeated>>

\* The agent's own message moves its cursor and is not delivered.
PassOwn(g) ==
  LET a == waiting[g].agent
      m == Arrived(g)
      cur == IF FollowsCursors(g) THEN CursorOf(a, m.room) ELSE cursors[a][m.room]
  IN
  /\ Receive(g)
  /\ Wanted(g) /\ Own(g)
  /\ chan' = [chan EXCEPT ![g] = Tail(@)]
  /\ cursors' = IF Acks(g, {m}) = {} THEN cursors
                ELSE [cursors EXCEPT ![a][m.room] = Advanced(cur, m.id)]
  /\ Settle(a, LeftOut(a, Looked(g)) \cup {m.id})
  /\ UNCHANGED <<waiting, handed, repeated, exposed>>

HandOver(g) ==
  LET a == waiting[g].agent IN
  /\ Receive(g)
  /\ Wanted(g) /\ ~Own(g)
  /\ chan' = [chan EXCEPT ![g] = <<>>]
  /\ EnsureCursors(a, Looked(g))
  /\ Settle(a, LeftOut(a, Looked(g)) \cup {Arrived(g).id})
  /\ Answer(g, {Arrived(g)})
  /\ UNCHANGED exposed

\* The client is gone, or the write fails: the cursor stays where it was.
HandOverFails(g) ==
  LET a == waiting[g].agent IN
  /\ Receive(g)
  /\ Wanted(g) /\ ~Own(g)
  /\ chan' = [chan EXCEPT ![g] = <<>>]
  /\ EnsureCursors(a, Looked(g))
  /\ Settle(a, LeftOut(a, Looked(g)))
  /\ Finish(g)
  /\ UNCHANGED <<handed, repeated, exposed>>

\* The timer fires, or the client disconnects.
GiveUp(g) ==
  /\ waiting[g].pc = "listen"
  /\ chan' = [chan EXCEPT ![g] = <<>>]
  /\ Finish(g)
  /\ UNCHANGED <<store, posting, crashes, history>>

\* One advanceCursor; the rooms of an agent-wide answer in any order.
AdvanceCursor(g) ==
  \E ack \in waiting[g].acks :
    LET a == waiting[g].agent  r == ack[1]  rest == waiting[g].acks \ {ack} IN
    /\ waiting[g].pc = "advance"
    /\ cursors' = [cursors EXCEPT ![a][r] = Advanced(@, ack[2])]
    /\ IF rest = {} THEN Finish(g)
       ELSE waiting' = [waiting EXCEPT ![g].acks = rest]
    /\ UNCHANGED <<rooms, members, messages, nextID, posting, chan, crashes, history>>

-----------------------------------------------------------------------------
(* Stop and start.                                                         *)

ServerDown == /\ \A g \in Posters : posting[g].pc = "down"
              /\ \A g \in Listeners : waiting[g].pc = "down"

\* The server stops at any point: goroutines and channels are gone.  deleteRoom
\* deletes the messages and the room in two transactions, so a stop between the
\* two leaves the room gone (if it is one) without its messages.
Stop(gone) ==
  /\ crashes < MaxCrashes /\ nextID < MaxID /\ ~ServerDown
  /\ crashes' = crashes + 1
  /\ gone \in rooms => "delete" \in Calls /\ \E g \in Posters : posting[g].pc = "idle"
  /\ messages' = [r \in RoomIDs |-> IF r = gone THEN <<>> ELSE messages[r]]
  /\ posting' = [g \in Posters |-> [NoPost EXCEPT !.pc = "down"]]
  /\ waiting' = [g \in Listeners |-> [NoWait EXCEPT !.pc = "down"]]
  /\ chan' = [g \in Listeners |-> <<>>]
  /\ UNCHANGED <<rooms, members, nextID, cursors, history>>

\* SELECT ... ORDER BY id: the messages come back sorted.
Reloads(r) ==
  {s \in [1..Len(messages[r]) -> Stored(r)] :
     \A i, j \in DOMAIN s : i < j => s[i].id < s[j].id}

\* loadCoreSQLite keeps no counter: it restarts from the highest stored id.
RestartFromCount == {Cardinality(StoredIDs)}
RestartIDs == {n \in {0} \cup StoredIDs : \A i \in StoredIDs : i <= n}

\* ensureSystemRoom and the "server started" event come before the first request
\* is served.
Start ==
  /\ ServerDown
  /\ \E n \in RestartIDs, ms \in [RoomIDs -> UNION {Reloads(r) : r \in RoomIDs}] :
       /\ \A r \in RoomIDs : ms[r] \in Reloads(r)
       /\ nextID' = n + 1
       /\ exposed' = exposed \cup (n + 1)..nextID
       /\ messages' = [ms EXCEPT ![SystemRoom] = Append(@,
                          [id |-> n + 1, room |-> SystemRoom, from |-> System])]
  /\ rooms' = rooms \cup {SystemRoom}
  /\ posting' = [g \in Posters |-> NoPost]
  /\ waiting' = [g \in Listeners |-> NoWait]
  /\ UNCHANGED <<members, cursors, chan, crashes, settled, handed, repeated>>

-----------------------------------------------------------------------------

\* A new store: the server has started and every agent has registered, which
\* made it a member of the system room and left one event there.
Init ==
  /\ rooms = {SystemRoom}
  /\ members = [r \in RoomIDs |-> IF r = SystemRoom THEN Agents ELSE {}]
  /\ nextID = 1 + Cardinality(Agents)
  /\ messages = [r \in RoomIDs |-> IF r # SystemRoom THEN <<>>
                   ELSE [i \in 1..nextID |-> [id |-> i, room |-> r, from |-> System]]]
  /\ cursors = [a \in Agents |-> [r \in RoomIDs |-> Unset]]
  /\ posting = [g \in Posters |-> NoPost]
  /\ waiting = [g \in Listeners |-> NoWait]
  /\ chan = [g \in Listeners |-> <<>>]
  /\ crashes = 0
  /\ settled = [a \in Agents |-> {}]
  /\ handed = [a \in Agents |-> {}]
  /\ repeated = [a \in Agents |-> {}]
  /\ exposed = {}

Post(g) ==
  \/ \E a \in Agents, r \in RoomIDs :
        Send(g, a, r) \/ JoinRoom(g, a, r) \/ LeaveRoom(g, a, r)
  \/ \E r \in RoomIDs :
        Announce(g, r) \/ CreateRoom(g, r) \/ OpenDM(g, r) \/ DeleteRoom(g, r)
  \/ Attend(g) \/ AllocateID(g) \/ DropEvent(g) \/ AppendMessage(g) \/ Notify(g)

Listen(g) ==
  \/ \E a \in Readers, n \in 0..nextID :
        AgentWait(g, a, n) \/ \E r \in RoomIDs : RoomWait(g, a, r, n) \/ MarkRead(g, a, r, n)
  \/ ScanNothing(g) \/ ScanAnswer(g) \/ ScanAnswerFails(g) \/ Subscribe(g)
  \/ Ignore(g) \/ PassOwn(g) \/ HandOver(g) \/ HandOverFails(g)
  \/ GiveUp(g) \/ AdvanceCursor(g)

Next == (\E g \in Posters : Post(g)) \/ (\E g \in Listeners : Listen(g))
        \/ (\E r \in RoomIDs \cup {Everywhere} : Stop(r)) \/ Start

Spec == Init /\ [][Next]_vars

\* The handlers run on: every step that waits for nobody is taken, the timer of a
\* wait fires, and the agents in Readers call bus_wait again after every answer,
\* as the hint of each "still_waiting" response tells them to.  Clients may fail,
\* but no client fails forever (strong fairness of the successful answer).
Fairness ==
  \A g \in Listeners :
    /\ WF_vars(ScanNothing(g)) /\ WF_vars(Subscribe(g))
    /\ WF_vars(GiveUp(g)) /\ WF_vars(AdvanceCursor(g))
    /\ SF_vars(ScanAnswer(g))
    /\ \A a \in Readers : WF_vars(AgentWait(g, a, 0))
FairSpec == Spec /\ Fairness

-----------------------------------------------------------------------------
(* Properties.                                                             *)

\* No two messages of the bus share an id, wherever they are stored: message
\* ids address reactions, replies, memory sources and bus_message(id).
UniqueIDs ==
  \A r, s \in RoomIDs : \A i \in DOMAIN messages[r], j \in DOMAIN messages[s] :
    messages[r][i].id = messages[s][j].id => r = s /\ i = j

\* The counter covers every id in use, and an id that was allocated but not yet
\* appended belongs to one poster and to no stored message.
Holding(g) == posting[g].pc = "append"
FreshIDs ==
  /\ \A r \in RoomIDs : \A i \in DOMAIN messages[r] : messages[r][i].id <= nextID
  /\ \A g \in Posters : Holding(g) =>
       /\ posting[g].id <= nextID
       /\ \A r \in RoomIDs : \A i \in DOMAIN messages[r] : messages[r][i].id # posting[g].id
       /\ \A h \in Posters \ {g} : Holding(h) => posting[h].id # posting[g].id

\* The ids of other participants' messages that a's cursor has passed although
\* they were never handed to a and a never asked to skip them.
Lost(a) == (UNION {{m.id : m \in {m \in Stored(r) :
                      m.from # a /\ m.id <= cursors[a][r]}} : r \in RoomIDs}) \ settled[a]

\* Agents "pick up exactly where they left off" (README.md:68-69): the cursor
\* passes an undelivered message only when that message met one of the open races: it
\* was appended after a higher id, overtaken between append and notify, published
\* between a wait's first look and its subscription or to a full channel, or looked at
\* by an agent-wide wait while its agent was out of the room.
LostOnlyByRaces == \A a \in Agents : Lost(a) \subseteq exposed

\* A client that keeps one wait open at a time is handed a message twice only
\* when its room is stored out of order, or the server stopped between writing
\* the response and moving the cursor.
RepeatedOnlyOutOfOrder ==
  crashes = 0 => \A a \in Agents, r \in RoomIDs :
    (\E i \in IDs(Stored(r)) : i \in repeated[a]) =>
      \E i, j \in DOMAIN messages[r] : i < j /\ messages[r][i].id > messages[r][j].id

\* A participant's message is unread for every other member when it is stored:
\* "if messages arrived while you were away, the next call returns them
\* immediately" (internal/mcp/mcp.go:98).
SendReachesMembers ==
  [][\A r \in RoomIDs : \A m \in Elements(messages'[r]) \ Stored(r) :
       m.from \in Agents => \A a \in members[r] \ {m.from} : cursors[a][r] < m.id]_vars

\* Again and again every member that keeps waiting has read all a room stores: no wait
\* stays blocked beside a message it missed.  (At most MaxID messages are posted; with
\* no end of messages a reader may stay behind the last one for ever.)
HasRead(a, r) == a \in members[r] => \A i \in IDs(Stored(r)) : cursors[a][r] >= i
CaughtUp == \A a \in Readers, r \in RoomIDs : []<>HasRead(a, r)

\* Reading, as the agents are promised it: see ReadLedger.
Ledger == INSTANCE ReadLedger WITH
  log <- UNION {Stored(r) : r \in RoomIDs}, cursor <- cursors, accounted <- settled
LedgerSpec == Ledger!Spec
=============================================================================
