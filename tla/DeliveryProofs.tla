--------------------------- MODULE DeliveryProofs ---------------------------
(***************************************************************************)
(* Theorems about Delivery, for every number of agents, rooms, goroutines, *)
(* messages and restarts: types, unique ids, and that the message path     *)
(* implements ReadLedger.                                                  *)
(***************************************************************************)
EXTENDS Delivery, TLAPS, SequenceTheorems, FiniteSetTheorems

USE DeliveryAssumption

\* A poster that emits has something to emit.
Loaded == \A g \in Posters : posting[g].pc \notin {"idle", "down"} => posting[g].outbox # <<>>

\* A wait past its start serves a registered agent.
Serving == \A g \in Listeners : waiting[g].pc \notin {"idle", "down"} => waiting[g].agent \in Agents

-----------------------------------------------------------------------------
(* What the operators of the specification return.                         *)

\* A poster goes on with the message in its hands.
LEMMA PosterMoves ==
  ASSUME NEW p \in PostingState
  PROVE  /\ \A id \in Nat : LET next == [p EXCEPT !.pc = "append", !.id = id]
                             IN  next \in PostingState /\ next.outbox = p.outbox
         /\ LET next == [p EXCEPT !.pc = "notify"]
            IN  next \in PostingState /\ next.outbox = p.outbox
BY DEF PostingState

\* Emitting a sequence of messages leaves the poster in a proper state.
LEMMA EmitType ==
  ASSUME posting \in [Posters -> PostingState], NEW g \in Posters,
         NEW box \in Seq(Emission), Emit(g, box)
  PROVE  posting' \in [Posters -> PostingState]
BY DEF Emit, PostingState

\* Such a poster has something to emit unless it is done.
LEMMA EmitLoaded ==
  ASSUME posting \in [Posters -> PostingState], Loaded, NEW g \in Posters,
         NEW box \in Seq(Emission), Emit(g, box)
  PROVE  Loaded'
BY DEF Emit, PostingState, Loaded

\* A loaded poster has a message in hand.
LEMMA InHandType ==
  ASSUME posting \in [Posters -> PostingState], Loaded, NEW g \in Posters,
         posting[g].pc \notin {"idle", "down"}
  PROVE  /\ InHand(g) \in Message
         /\ InHand(g).id = posting[g].id
         /\ Tail(posting[g].outbox) \in Seq(Emission)
<1>1. posting[g].outbox \in Seq(Emission) /\ posting[g].outbox # <<>> /\ posting[g].id \in Nat
  BY DEF PostingState, Loaded
<1>2. Head(posting[g].outbox) \in Emission /\ Tail(posting[g].outbox) \in Seq(Emission)
  BY <1>1, HeadTailProperties
<1> QED BY <1>1, <1>2 DEF InHand, Message, Emission

\* Events of the server, for an ordinary room and for a room at hand.
LEMMA EventTypes ==
  ASSUME NEW r \in RoomIDs
  PROVE  EventIn(r) \in Emission /\ <<EventIn(r)>> \in Seq(Emission)
         /\ Lifecycle(r) \in Seq(Emission) /\ JoinEvents(r) \in Seq(Emission)
<1>1. \A x \in RoomIDs : EventIn(x) \in Emission
  BY DEF EventIn, Emission
<1>2. \A x \in Emission : <<x>> \in Seq(Emission)
  OBVIOUS
<1>3. <<>> \in Seq(Emission)
  BY EmptySeq
<1>4. SystemRoom \in RoomIDs
  BY DeliveryAssumption
<1>5. Lifecycle(r) \in Seq(Emission)
  BY <1>1, <1>2, <1>3, <1>4 DEF Lifecycle
<1>6. JoinEvents(r) \in Seq(Emission)
  BY <1>1, <1>2, <1>3, <1>5, ConcatProperties DEF JoinEvents
<1> QED BY <1>1, <1>2, <1>5, <1>6

LEMMA RepeatType ==
  ASSUME NEW S, NEW e \in S, NEW n \in Nat
  PROVE  [i \in 1..n |-> e] \in Seq(S)
OBVIOUS

\* A function on 1..n is a sequence.
LEMMA ListType ==
  ASSUME NEW S, NEW n \in Nat, NEW s \in [1..n -> S]
  PROVE  s \in Seq(S)
OBVIOUS

\* The messages of a room are messages, and its head is a number.
LEMMA StoredType ==
  ASSUME messages \in [RoomIDs -> Seq(Message)], NEW r \in RoomIDs
  PROVE  /\ Stored(r) \subseteq Message
         /\ IDs(Stored(r)) \subseteq Nat
         /\ \A n : UpTo(r, n) \subseteq Nat
         /\ RoomHead(r) \in Nat
<1>1. messages[r] \in Seq(Message)
  OBVIOUS
<1>2. Stored(r) \subseteq Message
  BY <1>1, ElementOfSeq, LenProperties DEF Stored, Elements
<1>3. IDs(Stored(r)) \subseteq Nat
  BY <1>2 DEF IDs, Message
<1>4. RoomHead(r) \in Nat
  <2>1. CASE messages[r] = <<>>
    BY <2>1 DEF RoomHead
  <2>2. CASE messages[r] # <<>>
    <3>1. Len(messages[r]) \in 1..Len(messages[r])
      BY <1>1, <2>2, EmptySeq
    <3>2. messages[r][Len(messages[r])] \in Message
      BY <1>1, <3>1, ElementOfSeq
    <3> QED BY <2>2, <3>2 DEF RoomHead, Message
  <2> QED BY <2>1, <2>2
<1> QED BY <1>2, <1>3, <1>4 DEF UpTo

\* The ids of stored messages are numbers.
LEMMA StoredIDType ==
  ASSUME messages \in [RoomIDs -> Seq(Message)], NEW r \in RoomIDs, NEW i \in DOMAIN messages[r]
  PROVE  messages[r][i] \in Message /\ messages[r][i].id \in Nat
<1>1. messages[r] \in Seq(Message)
  OBVIOUS
<1>2. messages[r][i] \in Message
  BY <1>1, ElementOfSeq, LenProperties
<1> QED BY <1>2 DEF Message

LEMMA CursorType ==
  ASSUME messages \in [RoomIDs -> Seq(Message)],
         cursors \in [Agents -> [RoomIDs -> Nat \cup {Unset}]],
         NEW a \in Agents, NEW r \in RoomIDs
  PROVE  FirstCursor(r) \in Nat /\ CursorOf(a, r) \in Nat
<1>1. RoomHead(r) \in Nat
  BY StoredType
<1>2. FirstCursor(r) \in Nat
  BY <1>1 DEF FirstCursor
<1> QED BY <1>2 DEF CursorOf, Unset

-----------------------------------------------------------------------------
(* Type correctness.                                                       *)

TypeInv == TypeOK /\ Loaded /\ Serving

LEMMA TypeInit == Init => TypeInv
<1> SUFFICES ASSUME Init PROVE TypeInv
  OBVIOUS
<1>1. Cardinality(Agents) \in Nat
  BY FS_CardinalityType
<1>2. nextID \in Nat
  BY <1>1 DEF Init
<1>3. messages \in [RoomIDs -> Seq(Message)]
  <2>1. \A r \in RoomIDs, i \in 1..nextID : [id |-> i, room |-> r, from |-> System] \in Message
    BY <1>2 DEF Message
  <2>2. \A r \in RoomIDs :
          [i \in 1..nextID |-> [id |-> i, room |-> r, from |-> System]] \in Seq(Message)
    BY <1>2, <2>1
  <2> QED BY <2>2, EmptySeq DEF Init
<1>4. /\ rooms \subseteq RoomIDs
      /\ members \in [RoomIDs -> SUBSET Agents]
      /\ cursors \in [Agents -> [RoomIDs -> Nat \cup {Unset}]]
      /\ crashes \in Nat
      /\ settled \in [Agents -> SUBSET Nat]
      /\ handed \in [Agents -> SUBSET Nat]
      /\ repeated \in [Agents -> SUBSET Nat]
      /\ exposed \subseteq Nat
  BY DeliveryAssumption DEF Init
<1>5. posting \in [Posters -> PostingState] /\ Loaded
  BY EmptySeq DEF Init, NoPost, PostingState, Loaded
<1>6. waiting \in [Listeners -> WaitingState] /\ Serving
  BY DEF Init, NoWait, WaitingState, Serving
<1>7. chan \in [Listeners -> Seq(Message)]
  BY EmptySeq DEF Init
<1> QED BY <1>2, <1>3, <1>4, <1>5, <1>6, <1>7 DEF TypeInv, TypeOK

\* What joining changes.
LEMMA JoinsType ==
  ASSUME TypeOK, NEW a \in Agents, NEW r \in RoomIDs, Joins(a, r)
  PROVE  /\ rooms' \subseteq RoomIDs
         /\ members' \in [RoomIDs -> SUBSET Agents]
         /\ exposed' \subseteq Nat
<1>1. Unlooked({a}, r) \subseteq Nat
  BY StoredType DEF Unlooked, TypeOK
<1> QED BY <1>1 DEF Joins, TypeOK

\* Every step of a poster preserves the types.
LEMMA TypePost ==
  ASSUME TypeInv, NEW g \in Posters, Post(g)
  PROVE  TypeInv'
<1> USE DEF TypeInv, TypeOK, Serving, store, history
<1>1. ASSUME NEW a \in Agents, NEW r \in RoomIDs, Send(g, a, r) PROVE TypeInv'
  <2>1. PICK calls \in {{}, Humans} : Emit(g, <<[room |-> r, from |-> a, calls |-> calls]>>)
    BY <1>1 DEF Send
  <2>2. calls \subseteq Agents
    BY DeliveryAssumption
  <2>3. [room |-> r, from |-> a, calls |-> calls] \in Emission
    BY <2>2 DEF Emission
  <2>4. <<[room |-> r, from |-> a, calls |-> calls]>> \in Seq(Emission)
    BY <2>3
  <2>5. posting' \in [Posters -> PostingState] /\ Loaded'
    BY <2>1, <2>4, EmitType, EmitLoaded
  <2> QED BY <1>1, <2>5 DEF Send
<1>2. ASSUME NEW a \in Agents, NEW r \in RoomIDs, JoinRoom(g, a, r) PROVE TypeInv'
  <2>1. posting' \in [Posters -> PostingState] /\ Loaded'
    BY <1>2, EventTypes, EmitType, EmitLoaded DEF JoinRoom
  <2> QED BY <1>2, <2>1, JoinsType DEF JoinRoom
<1>3. ASSUME NEW a \in Agents, NEW r \in RoomIDs, LeaveRoom(g, a, r) PROVE TypeInv'
  BY <1>3, EventTypes, EmitType, EmitLoaded DEF LeaveRoom
<1>4. ASSUME NEW r \in RoomIDs, Announce(g, r) PROVE TypeInv'
  BY <1>4, EventTypes, EmitType, EmitLoaded DEF Announce
<1>5. ASSUME NEW r \in RoomIDs, CreateRoom(g, r) PROVE TypeInv'
  BY <1>5, EventTypes, EmitType, EmitLoaded DEF CreateRoom
<1>6. ASSUME NEW r \in RoomIDs, OpenDM(g, r) PROVE TypeInv'
  <2> DEFINE back == IF r \in rooms THEN Peers[r] \ members[r] ELSE {}
  <2>1. Peers[r] \subseteq Agents
    BY <1>6, DeliveryAssumption DEF OpenDM
  <2>2. Cardinality(back) \in Nat
    BY <2>1, DeliveryAssumption, FS_Subset, FS_CardinalityType
  <2>3. [i \in 1..Cardinality(back) |-> EventIn(r)] \in Seq(Emission)
    <3> HIDE DEF back
    <3> QED BY <2>2, EventTypes, RepeatType
  <2>4. posting' \in [Posters -> PostingState] /\ Loaded'
    BY <1>6, <2>3, EmitType, EmitLoaded DEF OpenDM
  <2>5. Unlooked(Peers[r], r) \subseteq Nat
    BY StoredType DEF Unlooked
  <2> QED BY <1>6, <2>1, <2>4, <2>5 DEF OpenDM
<1>7. ASSUME NEW r \in RoomIDs, DeleteRoom(g, r) PROVE TypeInv'
  <2>1. posting' \in [Posters -> PostingState] /\ Loaded'
    BY <1>7, EventTypes, EmitType, EmitLoaded DEF DeleteRoom
  <2> QED BY <1>7, <2>1, EmptySeq DEF DeleteRoom
<1>8. CASE AllocateID(g)
  <2>1. nextID + 1 \in Nat
    OBVIOUS
  <2>2. posting[g].outbox # <<>>
    BY <1>8 DEF AllocateID, Loaded
  <2> DEFINE p == [posting[g] EXCEPT !.pc = "append", !.id = nextID + 1]
  <2>p. p \in PostingState /\ p.outbox = posting[g].outbox
    BY <2>1, PosterMoves
  <2>q. posting' = [posting EXCEPT ![g] = p]
    BY <1>8 DEF AllocateID
  <2> HIDE DEF p
  <2>3. posting' \in [Posters -> PostingState]
    BY <2>p, <2>q
  <2>4. Loaded'
    BY <2>2, <2>p, <2>q DEF Loaded
  <2> QED BY <1>8, <2>1, <2>3, <2>4 DEF AllocateID
<1>9. CASE DropEvent(g)
  <2>1. Tail(posting[g].outbox) \in Seq(Emission)
    BY <1>9, InHandType DEF DropEvent
  <2> QED BY <1>9, <2>1, EmitType, EmitLoaded DEF DropEvent, EmitNext
<1>10. CASE AppendMessage(g)
  <2> DEFINE m == InHand(g)
  <2>1. m \in Message
    BY <1>10, InHandType DEF AppendMessage
  <2>2. m.room \in RoomIDs /\ m.id \in Nat
    BY <2>1 DEF Message
  <2> HIDE DEF m
  <2>3. messages' \in [RoomIDs -> Seq(Message)]
    <3>1. messages' = [messages EXCEPT ![m.room] = Append(@, m)]
      BY <1>10 DEF AppendMessage, m
    <3>2. Append(messages[m.room], m) \in Seq(Message)
      BY <2>1, <2>2, AppendProperties
    <3> QED BY <3>1, <3>2
  <2>4. exposed' \subseteq Nat
    BY <1>10, <2>2 DEF AppendMessage, m
  <2>5. posting' \in [Posters -> PostingState] /\ Loaded'
    <3> DEFINE p == [posting[g] EXCEPT !.pc = "notify"]
    <3>1. p \in PostingState /\ p.outbox = posting[g].outbox
      BY PosterMoves
    <3>2. posting' = [posting EXCEPT ![g] = p] /\ posting[g].outbox # <<>>
      BY <1>10 DEF AppendMessage, Loaded
    <3> HIDE DEF p
    <3> QED BY <3>1, <3>2 DEF Loaded
  <2> QED BY <1>10, <2>3, <2>4, <2>5 DEF AppendMessage
<1>11. CASE Notify(g)
  <2> DEFINE m == InHand(g)
             hears == {h \in InScope("listen", m.room) : Len(chan[h]) < ChanCap}
             deaf == InScope("subscribe", m.room) \cup (InScope("listen", m.room) \ hears)
             late == {p \in Posters \ {g} : /\ posting[p].pc = "notify"
                                            /\ InHand(p).room = m.room /\ InHand(p).id < m.id}
  <2>1. m \in Message /\ Tail(posting[g].outbox) \in Seq(Emission)
    BY <1>11, InHandType DEF Notify
  <2>2. {InHand(p).id : p \in late} \subseteq Nat
    <3>1. \A p \in late : InHand(p) \in Message
      BY InHandType
    <3> HIDE DEF late
    <3> QED BY <3>1 DEF Message
  <2>3. exposed' = exposed \cup {InHand(p).id : p \in late} \cup IF deaf # {} THEN {m.id} ELSE {}
    BY <1>11 DEF Notify
  <2>4. exposed' \subseteq Nat
    BY <2>1, <2>2, <2>3 DEF Message
  <2>5. chan' \in [Listeners -> Seq(Message)]
    <3>1. chan' = [h \in Listeners |-> IF h \in hears THEN Append(chan[h], m) ELSE chan[h]]
      BY <1>11 DEF Notify
    <3> HIDE DEF m, hears
    <3> QED BY <2>1, <3>1, AppendProperties
  <2>6. posting' \in [Posters -> PostingState] /\ Loaded'
    BY <1>11, <2>1, EmitType, EmitLoaded DEF Notify, EmitNext
  <2> QED BY <1>11, <2>4, <2>5, <2>6 DEF Notify
<1>12. CASE Attend(g)
  <2> DEFINE m == Head(posting[g].outbox)
  <2>1. posting[g].outbox \in Seq(Emission) /\ posting[g].outbox # <<>>
    BY <1>12 DEF Attend, PostingState, Loaded
  <2>2. m \in Emission /\ Tail(posting[g].outbox) \in Seq(Emission)
    BY <2>1, HeadTailProperties
  <2>3. m.room \in RoomIDs /\ m.calls \subseteq Agents
    BY <2>2 DEF Emission
  <2>4. PICK h \in m.calls :
          LET box == <<[m EXCEPT !.calls = @ \ {h}]>> \o Tail(posting[g].outbox) IN
          \/ /\ h \in members[m.room]
             /\ Emit(g, box)
             /\ UNCHANGED <<rooms, members, exposed>>
          \/ /\ h \notin members[m.room]
             /\ Joins(h, m.room)
             /\ Emit(g, JoinEvents(m.room) \o box)
    BY <1>12 DEF Attend
  <2> DEFINE e == [m EXCEPT !.calls = @ \ {h}]
             box == <<e>> \o Tail(posting[g].outbox)
  <2>5. box \in Seq(Emission)
    <3>1. e \in Emission
      BY <2>2 DEF Emission
    <3> HIDE DEF e
    <3>2. <<e>> \in Seq(Emission)
      BY <3>1
    <3> QED BY <2>2, <3>2, ConcatProperties
  <2>6. JoinEvents(m.room) \o box \in Seq(Emission)
    <3> HIDE DEF m, box
    <3> QED BY <2>3, <2>5, EventTypes, ConcatProperties
  <2>7. (UNCHANGED <<rooms, members, exposed>>) \/ Joins(h, m.room)
    BY <2>4
  <2>8. Emit(g, box) \/ Emit(g, JoinEvents(m.room) \o box)
    BY <2>4
  <2> HIDE DEF m, box
  <2>9. posting' \in [Posters -> PostingState] /\ Loaded'
    BY <2>5, <2>6, <2>8, EmitType, EmitLoaded
  <2>10. h \in Agents
    BY <2>3
  <2>11. /\ rooms' \subseteq RoomIDs
         /\ members' \in [RoomIDs -> SUBSET Agents]
         /\ exposed' \subseteq Nat
    BY <2>3, <2>7, <2>10, JoinsType
  <2> QED BY <1>12, <2>9, <2>11 DEF Attend
<1> QED BY <1>1, <1>2, <1>3, <1>4, <1>5, <1>6, <1>7, <1>8, <1>9, <1>10, <1>11, <1>12 DEF Post

\* What the reading steps compute from cursors and channels.
LEMMA ReadType ==
  ASSUME TypeOK, NEW a \in Agents, NEW rs \in SUBSET RoomIDs
  PROVE  /\ LeftOut(a, rs) \subseteq Nat
         /\ EnsureCursors(a, rs) => cursors' \in [Agents -> [RoomIDs -> Nat \cup {Unset}]]
<1>1. LeftOut(a, rs) \subseteq Nat
  BY StoredType DEF LeftOut, TypeOK
<1>2. ASSUME EnsureCursors(a, rs)
      PROVE  cursors' \in [Agents -> [RoomIDs -> Nat \cup {Unset}]]
  <2> DEFINE row == [r \in RoomIDs |-> IF r \in rs THEN CursorOf(a, r) ELSE cursors[a][r]]
  <2>1. row \in [RoomIDs -> Nat \cup {Unset}]
    BY CursorType DEF TypeOK
  <2>2. cursors' = [cursors EXCEPT ![a] = row]
    BY <1>2 DEF EnsureCursors
  <2> HIDE DEF row
  <2> QED BY <2>1, <2>2 DEF TypeOK
<1> QED BY <1>1, <1>2

LEMMA SettleType ==
  ASSUME TypeOK, NEW a \in Agents, NEW ids \in SUBSET Nat, Settle(a, ids)
  PROVE  settled' \in [Agents -> SUBSET Nat]
BY DEF Settle, TypeOK

\* A listener may take any proper state.
LEMMA WaitType ==
  ASSUME TypeOK, Serving, NEW g \in Listeners, NEW w \in WaitingState,
         w.pc \notin {"idle", "down"} => w.agent \in Agents,
         waiting' = [waiting EXCEPT ![g] = w]
  PROVE  waiting' \in [Listeners -> WaitingState] /\ Serving'
BY DEF TypeOK, Serving

\* Moving on within a request.
LEMMA StepType ==
  ASSUME NEW w \in WaitingState, w.agent \in Agents,
         NEW pc \in {"scan", "subscribe", "listen", "advance"},
         NEW acks \in SUBSET (RoomIDs \X Nat),
         NEW v \in {[w EXCEPT !.pc = pc], [w EXCEPT !.acks = acks],
                    [w EXCEPT !.pc = pc, !.acks = acks]}
  PROVE  v \in WaitingState /\ v.agent \in Agents
<1>1. w.agent \in Agents /\ w.room \in RoomIDs \cup {Everywhere} /\ w.since \in Nat
      /\ w.explicit \in BOOLEAN /\ w.acks \in SUBSET (RoomIDs \X Nat)
      /\ w.pc \in {"idle", "scan", "subscribe", "listen", "advance", "down"}
  BY DEF WaitingState
<1>2. \E p \in {"idle", "scan", "subscribe", "listen", "advance", "down"},
         k \in SUBSET (RoomIDs \X Nat) :
        v = [pc |-> p, agent |-> w.agent, room |-> w.room, since |-> w.since,
             explicit |-> w.explicit, acks |-> k]
  <2>1. CASE v = [w EXCEPT !.pc = pc]
    <3>1. v = [pc |-> pc, agent |-> w.agent, room |-> w.room, since |-> w.since,
               explicit |-> w.explicit, acks |-> w.acks]
      BY <2>1 DEF WaitingState
    <3> QED BY <1>1, <3>1
  <2>2. CASE v = [w EXCEPT !.acks = acks]
    <3>1. v = [pc |-> w.pc, agent |-> w.agent, room |-> w.room, since |-> w.since,
               explicit |-> w.explicit, acks |-> acks]
      BY <2>2 DEF WaitingState
    <3> QED BY <1>1, <3>1
  <2>3. CASE v = [w EXCEPT !.pc = pc, !.acks = acks]
    <3>1. v = [pc |-> pc, agent |-> w.agent, room |-> w.room, since |-> w.since,
               explicit |-> w.explicit, acks |-> acks]
      BY <2>3 DEF WaitingState
    <3> QED BY <3>1
  <2> QED BY <2>1, <2>2, <2>3
<1> QED BY <1>1, <1>2 DEF WaitingState

LEMMA FinishType ==
  ASSUME TypeOK, Serving, NEW g \in Listeners, Finish(g)
  PROVE  waiting' \in [Listeners -> WaitingState] /\ Serving'
BY DEF Finish, TypeOK, Serving, NoWait, WaitingState

LEMMA ScanType ==
  ASSUME TypeOK, NEW g \in Listeners
  PROVE  /\ Scanned(g) \subseteq RoomIDs
         /\ FirstLook(g) \subseteq RoomIDs
         /\ Found(g) \subseteq Message
         /\ \A r \in RoomIDs : LastFound(g, r) \subseteq Nat
<1>1. waiting[g].room \in RoomIDs \cup {Everywhere}
  BY DEF TypeOK, WaitingState
<1>2. Scanned(g) \subseteq RoomIDs
  BY <1>1 DEF Scanned, MemberRooms, TypeOK
<1>3. FirstLook(g) \subseteq RoomIDs
  BY <1>2 DEF FirstLook
<1>4. Found(g) \subseteq Message
  BY <1>2, StoredType DEF Found, TypeOK
<1>5. ASSUME NEW r \in RoomIDs PROVE LastFound(g, r) \subseteq Nat
  <2>1. \A i \in DOMAIN messages[r] : messages[r][i].id \in Nat
    BY StoredIDType DEF TypeOK
  <2> QED BY <2>1 DEF LastFound
<1> QED BY <1>2, <1>3, <1>4, <1>5

LEMMA AcksType ==
  ASSUME TypeOK, NEW g \in Listeners, NEW batch \in SUBSET Message
  PROVE  Acks(g, batch) \subseteq RoomIDs \X Nat
<1>1. waiting[g].room \in RoomIDs \cup {Everywhere}
  BY DEF TypeOK, WaitingState
<1>2. CASE FollowsCursors(g)
  BY <1>2 DEF Acks, Message
<1>3. CASE ~FollowsCursors(g) /\ waiting[g].room = Everywhere
  BY <1>3 DEF Acks
<1>4. CASE ~FollowsCursors(g) /\ waiting[g].room # Everywhere
  <2>1. waiting[g].room \in RoomIDs
    BY <1>1, <1>4
  <2>2. IDs(batch) \subseteq Nat /\ LastFound(g, waiting[g].room) \subseteq Nat
    BY <2>1, ScanType DEF IDs, Message
  <2> QED BY <1>4, <2>1, <2>2 DEF Acks
<1> QED BY <1>2, <1>3, <1>4

LEMMA AnswerType ==
  ASSUME TypeOK, Serving, NEW g \in Listeners, waiting[g].agent \in Agents,
         NEW batch \in SUBSET Message, Answer(g, batch)
  PROVE  /\ handed' \in [Agents -> SUBSET Nat]
         /\ repeated' \in [Agents -> SUBSET Nat]
         /\ waiting' \in [Listeners -> WaitingState] /\ Serving'
<1> DEFINE a == waiting[g].agent
           ids == IF waiting[g].explicit THEN {} ELSE IDs({m \in batch : m.from # a})
<1>1. ids \subseteq Nat
  BY DEF IDs, Message
<1>2. /\ handed' = [handed EXCEPT ![a] = @ \cup ids]
      /\ repeated' = [repeated EXCEPT ![a] = @ \cup (ids \cap handed[a])]
  BY DEF Answer
<1>3. handed' \in [Agents -> SUBSET Nat] /\ repeated' \in [Agents -> SUBSET Nat]
  <2> HIDE DEF ids
  <2> QED BY <1>1, <1>2 DEF TypeOK
<1>4. CASE Acks(g, batch) = {}
  BY <1>3, <1>4, FinishType DEF Answer
<1>5. CASE Acks(g, batch) # {}
  <2> DEFINE acks == Acks(g, batch)
  <2>1. acks \in SUBSET (RoomIDs \X Nat)
    BY AcksType
  <2>2. waiting' = [waiting EXCEPT ![g] = [@ EXCEPT !.pc = "advance", !.acks = acks]]
    BY <1>5 DEF Answer
  <2> HIDE DEF acks
  <2>3. /\ [waiting[g] EXCEPT !.pc = "advance", !.acks = acks] \in WaitingState
        /\ [waiting[g] EXCEPT !.pc = "advance", !.acks = acks].agent \in Agents
    BY <2>1, StepType DEF TypeOK
  <2>4. waiting' \in [Listeners -> WaitingState] /\ Serving'
    BY <2>2, <2>3, WaitType
  <2> QED BY <1>3, <2>4
<1> QED BY <1>4, <1>5

\* What the select loop of a wait looks at.
LEMMA ArrivedType ==
  ASSUME TypeOK, NEW g \in Listeners, chan[g] # <<>>
  PROVE  /\ Arrived(g) \in Message /\ Arrived(g).id \in Nat /\ Arrived(g).room \in RoomIDs
         /\ Looked(g) \subseteq RoomIDs
         /\ Tail(chan[g]) \in Seq(Message)
<1>1. Arrived(g) \in Message /\ Tail(chan[g]) \in Seq(Message)
  BY HeadTailProperties DEF Arrived, TypeOK
<1> QED BY <1>1 DEF Message, Looked

\* Every step of a listener preserves the types.
LEMMA TypeListen ==
  ASSUME TypeInv, NEW g \in Listeners, Listen(g)
  PROVE  TypeInv'
<1> USE DEF TypeInv, store, history
<1>a. \A x \in Listeners : waiting[x].pc \notin {"idle", "down"} => waiting[x].agent \in Agents
  BY DEF Serving
<1>1. ASSUME NEW a \in Readers, NEW n \in 0..nextID, AgentWait(g, a, n) PROVE TypeInv'
  <2>1. a \in Agents /\ n \in Nat
    BY DeliveryAssumption DEF TypeOK
  <2> QED BY <1>1, <2>1 DEF AgentWait, TypeOK, Serving, WaitingState, Loaded
<1>2. ASSUME NEW a \in Readers, NEW n \in 0..nextID, NEW r \in RoomIDs, RoomWait(g, a, r, n)
      PROVE  TypeInv'
  <2> DEFINE rs == IF n > 0 THEN {} ELSE {r}
             start == IF n > 0 THEN n ELSE CursorOf(a, r)
             ids == IF n > 0 THEN UpTo(r, n) ELSE LeftOut(a, rs)
  <2>1. a \in Agents /\ n \in Nat /\ rs \in SUBSET RoomIDs
    BY DeliveryAssumption DEF TypeOK
  <2>2. ids \in SUBSET Nat
    BY <2>1, StoredType, ReadType DEF TypeOK
  <2>3. start \in Nat
    BY <2>1, CursorType DEF TypeOK
  <2>4. cursors' \in [Agents -> [RoomIDs -> Nat \cup {Unset}]]
    BY <1>2, <2>1, ReadType DEF RoomWait
  <2>5. settled' \in [Agents -> SUBSET Nat]
    BY <1>2, <2>1, <2>2, SettleType DEF RoomWait
  <2>6. waiting' = [waiting EXCEPT ![g] = [pc |-> "scan", agent |-> a, room |-> r,
                      since |-> start, explicit |-> n > 0, acks |-> {}]]
    BY <1>2 DEF RoomWait
  <2> HIDE DEF start
  <2>7. waiting' \in [Listeners -> WaitingState] /\ Serving'
    BY <2>1, <2>3, <2>6 DEF TypeOK, Serving, WaitingState
  <2> QED BY <1>2, <2>4, <2>5, <2>7 DEF RoomWait, TypeOK, Loaded
<1>3. ASSUME NEW a \in Readers, NEW n \in 0..nextID, NEW r \in RoomIDs, MarkRead(g, a, r, n)
      PROVE  TypeInv'
  <2> DEFINE to == IF n = 0 THEN RoomHead(r) ELSE n
  <2>1. a \in Agents /\ to \in Nat /\ UpTo(r, to) \in SUBSET Nat
    BY StoredType, DeliveryAssumption DEF TypeOK
  <2>2. settled' \in [Agents -> SUBSET Nat]
    BY <1>3, <2>1, SettleType DEF MarkRead
  <2>3. waiting' = [waiting EXCEPT ![g] =
                      [NoWait EXCEPT !.pc = "advance", !.agent = a, !.acks = {<<r, to>>}]]
    BY <1>3 DEF MarkRead
  <2> HIDE DEF to
  <2>4. {<<r, to>>} \in SUBSET (RoomIDs \X Nat)
    BY <2>1
  <2>5. waiting' \in [Listeners -> WaitingState] /\ Serving'
    BY <2>1, <2>3, <2>4 DEF TypeOK, Serving, WaitingState, NoWait
  <2> QED BY <1>3, <2>2, <2>5 DEF MarkRead, TypeOK, Loaded
<1>4. CASE ScanNothing(g)
  <2>1. waiting[g].agent \in Agents /\ FirstLook(g) \in SUBSET RoomIDs
    BY <1>4, <1>a, ScanType DEF ScanNothing
  <2>2. cursors' \in [Agents -> [RoomIDs -> Nat \cup {Unset}]]
    BY <1>4, <2>1, ReadType DEF ScanNothing
  <2>3. LeftOut(waiting[g].agent, FirstLook(g)) \in SUBSET Nat
    BY <2>1, ReadType
  <2>4. settled' \in [Agents -> SUBSET Nat]
    BY <1>4, <2>1, <2>3, SettleType DEF ScanNothing
  <2>5. waiting' \in [Listeners -> WaitingState] /\ Serving'
    <3> DEFINE w == [waiting[g] EXCEPT !.pc = "subscribe"]
    <3>1. w \in WaitingState /\ w.agent \in Agents
      BY <2>1, StepType DEF TypeOK
    <3>2. waiting' = [waiting EXCEPT ![g] = w]
      BY <1>4 DEF ScanNothing
    <3> HIDE DEF w
    <3> QED BY <3>1, <3>2, WaitType
  <2> QED BY <1>4, <2>2, <2>4, <2>5 DEF ScanNothing, TypeOK, Loaded
<1>5. CASE ScanAnswer(g)
  <2>1. waiting[g].agent \in Agents /\ FirstLook(g) \in SUBSET RoomIDs /\ Found(g) \in SUBSET Message
    BY <1>5, <1>a, ScanType DEF ScanAnswer
  <2>2. cursors' \in [Agents -> [RoomIDs -> Nat \cup {Unset}]]
    BY <1>5, <2>1, ReadType DEF ScanAnswer
  <2>3. LeftOut(waiting[g].agent, FirstLook(g)) \cup IDs(Found(g)) \in SUBSET Nat
    BY <2>1, ReadType DEF IDs, Message
  <2>4. settled' \in [Agents -> SUBSET Nat]
    BY <1>5, <2>1, <2>3, SettleType DEF ScanAnswer
  <2>5. Answer(g, Found(g))
    BY <1>5 DEF ScanAnswer
  <2> QED BY <1>5, <2>1, <2>2, <2>4, <2>5, AnswerType DEF ScanAnswer, TypeOK, Loaded
<1>6. CASE ScanAnswerFails(g)
  <2>1. waiting[g].agent \in Agents /\ FirstLook(g) \in SUBSET RoomIDs
    BY <1>6, <1>a, ScanType DEF ScanAnswerFails
  <2>2. cursors' \in [Agents -> [RoomIDs -> Nat \cup {Unset}]]
    BY <1>6, <2>1, ReadType DEF ScanAnswerFails
  <2>3. LeftOut(waiting[g].agent, FirstLook(g)) \in SUBSET Nat
    BY <2>1, ReadType
  <2>4. settled' \in [Agents -> SUBSET Nat]
    BY <1>6, <2>1, <2>3, SettleType DEF ScanAnswerFails
  <2>5. waiting' \in [Listeners -> WaitingState] /\ Serving'
    BY <1>6, FinishType DEF ScanAnswerFails
  <2> QED BY <1>6, <2>2, <2>4, <2>5 DEF ScanAnswerFails, TypeOK, Loaded
<1>7. CASE Subscribe(g)
  <2> DEFINE w == [waiting[g] EXCEPT !.pc = "listen"]
  <2>1. w \in WaitingState /\ w.agent \in Agents
    BY <1>7, <1>a, StepType DEF Subscribe, TypeOK
  <2>2. waiting' = [waiting EXCEPT ![g] = w]
    BY <1>7 DEF Subscribe
  <2> HIDE DEF w
  <2>3. waiting' \in [Listeners -> WaitingState] /\ Serving'
    BY <2>1, <2>2, WaitType
  <2>4. chan' \in [Listeners -> Seq(Message)]
    BY <1>7, EmptySeq DEF Subscribe, TypeOK
  <2> QED BY <1>7, <2>3, <2>4 DEF Subscribe, TypeOK, Loaded
<1>8. CASE Ignore(g)
  <2>1. waiting[g].agent \in Agents /\ Looked(g) \in SUBSET RoomIDs
        /\ Tail(chan[g]) \in Seq(Message) /\ Arrived(g).id \in Nat
    BY <1>8, <1>a, ArrivedType DEF Ignore, Receive
  <2>2. cursors' \in [Agents -> [RoomIDs -> Nat \cup {Unset}]]
    BY <1>8, <2>1, ReadType DEF Ignore
  <2>3. LeftOut(waiting[g].agent, Looked(g)) \in SUBSET Nat
    BY <2>1, ReadType
  <2>4. settled' \in [Agents -> SUBSET Nat]
    BY <1>8, <2>1, <2>3, SettleType DEF Ignore
  <2>5. chan' \in [Listeners -> Seq(Message)] /\ exposed' \subseteq Nat
    BY <1>8, <2>1 DEF Ignore, TypeOK
  <2> QED BY <1>8, <2>2, <2>4, <2>5 DEF Ignore, Receive, TypeOK, Loaded, Serving
<1>9. CASE PassOwn(g)
  <2> DEFINE a == waiting[g].agent
             m == Arrived(g)
  <2>1. a \in Agents /\ m.id \in Nat /\ m.room \in RoomIDs /\ Looked(g) \in SUBSET RoomIDs
        /\ Tail(chan[g]) \in Seq(Message)
    BY <1>9, <1>a, ArrivedType DEF PassOwn, Receive
  <2> DEFINE cur == IF FollowsCursors(g) THEN CursorOf(a, m.room) ELSE cursors[a][m.room]
  <2>2. cur \in Nat \cup {Unset}
    BY <2>1, CursorType DEF TypeOK
  <2>3. Advanced(cur, m.id) \in Nat \cup {Unset}
    <3> HIDE DEF cur
    <3> QED BY <2>1, <2>2 DEF Advanced
  <2>4. cursors' \in [Agents -> [RoomIDs -> Nat \cup {Unset}]]
    <3>1. CASE Acks(g, {m}) = {}
      BY <1>9, <3>1 DEF PassOwn, TypeOK
    <3>2. CASE Acks(g, {m}) # {}
      <4>1. cursors' = [cursors EXCEPT ![a][m.room] = Advanced(cur, m.id)]
        BY <1>9, <3>2 DEF PassOwn
      <4> HIDE DEF a, m, cur
      <4> QED BY <2>1, <2>3, <4>1 DEF TypeOK
    <3> QED BY <3>1, <3>2
  <2>5. LeftOut(a, Looked(g)) \cup {m.id} \in SUBSET Nat
    BY <2>1, ReadType
  <2>6. settled' \in [Agents -> SUBSET Nat]
    BY <1>9, <2>1, <2>5, SettleType DEF PassOwn
  <2>7. chan' \in [Listeners -> Seq(Message)]
    BY <1>9, <2>1 DEF PassOwn, TypeOK
  <2> QED BY <1>9, <2>4, <2>6, <2>7 DEF PassOwn, Receive, TypeOK, Loaded, Serving
<1>10. CASE HandOver(g)
  <2>1. waiting[g].agent \in Agents /\ Looked(g) \in SUBSET RoomIDs
        /\ {Arrived(g)} \in SUBSET Message /\ Arrived(g).id \in Nat
    BY <1>10, <1>a, ArrivedType DEF HandOver, Receive
  <2>2. cursors' \in [Agents -> [RoomIDs -> Nat \cup {Unset}]]
    BY <1>10, <2>1, ReadType DEF HandOver
  <2>3. LeftOut(waiting[g].agent, Looked(g)) \cup {Arrived(g).id} \in SUBSET Nat
    BY <2>1, ReadType
  <2>4. settled' \in [Agents -> SUBSET Nat]
    BY <1>10, <2>1, <2>3, SettleType DEF HandOver
  <2>5. Answer(g, {Arrived(g)}) /\ chan' \in [Listeners -> Seq(Message)]
    BY <1>10, EmptySeq DEF HandOver, TypeOK
  <2> QED BY <1>10, <2>1, <2>2, <2>4, <2>5, AnswerType DEF HandOver, Receive, TypeOK, Loaded
<1>11. CASE HandOverFails(g)
  <2>1. waiting[g].agent \in Agents /\ Looked(g) \in SUBSET RoomIDs
    BY <1>11, <1>a, ArrivedType DEF HandOverFails, Receive
  <2>2. cursors' \in [Agents -> [RoomIDs -> Nat \cup {Unset}]]
    BY <1>11, <2>1, ReadType DEF HandOverFails
  <2>3. LeftOut(waiting[g].agent, Looked(g)) \in SUBSET Nat
    BY <2>1, ReadType
  <2>4. settled' \in [Agents -> SUBSET Nat]
    BY <1>11, <2>1, <2>3, SettleType DEF HandOverFails
  <2>5. waiting' \in [Listeners -> WaitingState] /\ Serving' /\ chan' \in [Listeners -> Seq(Message)]
    BY <1>11, FinishType, EmptySeq DEF HandOverFails, TypeOK
  <2> QED BY <1>11, <2>2, <2>4, <2>5 DEF HandOverFails, Receive, TypeOK, Loaded
<1>12. CASE GiveUp(g)
  <2>1. waiting' \in [Listeners -> WaitingState] /\ Serving' /\ chan' \in [Listeners -> Seq(Message)]
    BY <1>12, FinishType, EmptySeq DEF GiveUp, TypeOK
  <2> QED BY <1>12, <2>1 DEF GiveUp, TypeOK, Loaded
<1>13. CASE AdvanceCursor(g)
  <2>1. PICK ack \in waiting[g].acks :
          /\ waiting[g].pc = "advance"
          /\ cursors' = [cursors EXCEPT ![waiting[g].agent][ack[1]] = Advanced(@, ack[2])]
          /\ IF waiting[g].acks \ {ack} = {} THEN Finish(g)
             ELSE waiting' = [waiting EXCEPT ![g].acks = waiting[g].acks \ {ack}]
          /\ UNCHANGED <<rooms, members, messages, nextID, posting, chan, crashes, history>>
    BY <1>13 DEF AdvanceCursor
  <2> DEFINE a == waiting[g].agent
             r == ack[1]
             rest == waiting[g].acks \ {ack}
  <2>2. waiting[g].acks \in SUBSET (RoomIDs \X Nat)
    BY DEF TypeOK, WaitingState
  <2>3. a \in Agents /\ r \in RoomIDs /\ ack[2] \in Nat /\ rest \in SUBSET (RoomIDs \X Nat)
    BY <1>a, <2>1, <2>2
  <2>4. Advanced(cursors[a][r], ack[2]) \in Nat \cup {Unset}
    BY <2>3 DEF Advanced, TypeOK
  <2>5. cursors' \in [Agents -> [RoomIDs -> Nat \cup {Unset}]]
    <3> HIDE DEF a, r
    <3>1. cursors' = [cursors EXCEPT ![a][r] = Advanced(@, ack[2])]
      BY <2>1 DEF a, r
    <3> QED BY <2>3, <2>4, <3>1 DEF TypeOK
  <2>6. waiting' \in [Listeners -> WaitingState] /\ Serving'
    <3>1. CASE rest = {}
      BY <2>1, <3>1, FinishType
    <3>2. CASE rest # {}
      <4>1. waiting' = [waiting EXCEPT ![g].acks = rest]
        BY <2>1, <3>2
      <4> HIDE DEF rest
      <4> DEFINE w == [waiting[g] EXCEPT !.acks = rest]
      <4>2. w \in WaitingState /\ w.agent \in Agents
        BY <2>3, StepType DEF TypeOK
      <4>3. waiting' = [waiting EXCEPT ![g] = w]
        BY <4>1
      <4> HIDE DEF w
      <4> QED BY <4>2, <4>3, WaitType
    <3> QED BY <3>1, <3>2
  <2> QED BY <2>1, <2>5, <2>6 DEF TypeOK, Loaded
<1> QED BY <1>1, <1>2, <1>3, <1>4, <1>5, <1>6, <1>7, <1>8, <1>9, <1>10, <1>11, <1>12, <1>13 DEF Listen

\* Stopping and starting preserve the types.
LEMMA TypeStop ==
  ASSUME TypeInv, NEW gone \in RoomIDs \cup {Everywhere}, Stop(gone)
  PROVE  TypeInv'
<1> USE DEF TypeInv, history
<1>1. messages' \in [RoomIDs -> Seq(Message)]
  BY EmptySeq DEF Stop, TypeOK
<1>2. posting' \in [Posters -> PostingState] /\ Loaded'
  BY EmptySeq DEF Stop, NoPost, PostingState, Loaded
<1>3. waiting' \in [Listeners -> WaitingState] /\ Serving'
  BY DEF Stop, NoWait, WaitingState, Serving
<1>4. chan' \in [Listeners -> Seq(Message)] /\ crashes' \in Nat
  BY EmptySeq DEF Stop, TypeOK
<1> QED BY <1>1, <1>2, <1>3, <1>4 DEF Stop, TypeOK

LEMMA TypeStart ==
  ASSUME TypeInv, Start
  PROVE  TypeInv'
<1> USE DEF TypeInv, TypeOK
<1>1. PICK n \in RestartIDs, ms \in [RoomIDs -> UNION {Reloads(r) : r \in RoomIDs}] :
        /\ \A r \in RoomIDs : ms[r] \in Reloads(r)
        /\ nextID' = n + 1
        /\ exposed' = exposed \cup (n + 1)..nextID
        /\ messages' = [ms EXCEPT ![SystemRoom] = Append(@,
                           [id |-> n + 1, room |-> SystemRoom, from |-> System])]
  BY DEF Start
<1>2. StoredIDs \subseteq Nat
  BY StoredType DEF StoredIDs
<1>3. n \in Nat
  BY <1>2 DEF RestartIDs
<1>4. \A r \in RoomIDs : ms[r] \in Seq(Message)
  <2> TAKE r \in RoomIDs
  <2>1. Len(messages[r]) \in Nat
    BY LenProperties
  <2>2. ms[r] \in [1..Len(messages[r]) -> Message]
    BY <1>1, StoredType DEF Reloads
  <2> QED BY <2>1, <2>2, ListType
<1>5. messages' \in [RoomIDs -> Seq(Message)]
  <2>1. [id |-> n + 1, room |-> SystemRoom, from |-> System] \in Message
    BY <1>3, DeliveryAssumption DEF Message
  <2>2. Append(ms[SystemRoom], [id |-> n + 1, room |-> SystemRoom, from |-> System]) \in Seq(Message)
    BY <1>4, <2>1, AppendProperties, DeliveryAssumption
  <2> QED BY <1>1, <1>4, <2>2
<1>6. exposed' \subseteq Nat /\ nextID' \in Nat
  BY <1>1, <1>3
<1>7. posting' \in [Posters -> PostingState] /\ Loaded'
  BY EmptySeq DEF Start, NoPost, PostingState, Loaded
<1>8. waiting' \in [Listeners -> WaitingState] /\ Serving'
  BY DEF Start, NoWait, WaitingState, Serving
<1> QED BY <1>5, <1>6, <1>7, <1>8, DeliveryAssumption DEF Start

LEMMA TypeNext == TypeInv /\ [Next]_vars => TypeInv'
<1> SUFFICES ASSUME TypeInv, [Next]_vars PROVE TypeInv'
  OBVIOUS
<1>1. CASE UNCHANGED vars
  BY <1>1 DEF TypeInv, TypeOK, Loaded, Serving, vars, store, history
<1> QED BY <1>1, TypePost, TypeListen, TypeStop, TypeStart DEF Next

\* Every reachable state has the declared types: cursors never become negative,
\* every stored message is one, and so on.
THEOREM TypeCorrect == Spec => []TypeOK
<1>1. TypeInv => TypeOK
  BY DEF TypeInv
<1> QED BY <1>1, TypeInit, TypeNext, PTL DEF Spec

-----------------------------------------------------------------------------
(* Message ids.  UniqueIDs alone is not inductive: an id in the hands of a *)
(* poster must not be stored already, nor be in the hands of another.      *)

IDInv == TypeInv /\ FreshIDs /\ UniqueIDs

LEMMA IDInit == Init => IDInv
<1> SUFFICES ASSUME Init PROVE IDInv
  OBVIOUS
<1>1. TypeInv
  BY TypeInit
<1>2. \A r \in RoomIDs : \A i \in DOMAIN messages[r] :
        r = SystemRoom /\ i \in 1..nextID /\ messages[r][i].id = i
  BY DEF Init
<1>3. \A g \in Posters : ~Holding(g)
  BY DEF Init, Holding, NoPost
<1>4. nextID \in Nat
  BY <1>1 DEF TypeInv, TypeOK
<1> QED BY <1>1, <1>2, <1>3, <1>4 DEF IDInv, FreshIDs, UniqueIDs

\* A step that hands out no id, and empties rooms at most, keeps ids unique.
LEMMA IDsKept ==
  ASSUME FreshIDs, UniqueIDs, nextID' = nextID,
         \A r \in RoomIDs : messages'[r] = messages[r] \/ messages'[r] = <<>>,
         \A g \in Posters : Holding(g)' => Holding(g) /\ posting'[g].id = posting[g].id
  PROVE  FreshIDs' /\ UniqueIDs'
<1>1. \A r \in RoomIDs : \A i \in DOMAIN messages'[r] :
        i \in DOMAIN messages[r] /\ messages'[r][i] = messages[r][i]
  BY EmptySeq
<1> QED BY <1>1 DEF FreshIDs, UniqueIDs

\* Starting to emit, or moving on to the next emission, drops the id in hand.
LEMMA IDsEmit ==
  ASSUME TypeOK, NEW g \in Posters, NEW box, Emit(g, box)
  PROVE  \A h \in Posters : Holding(h)' => Holding(h) /\ posting'[h].id = posting[h].id
BY DEF Emit, Holding, TypeOK

LEMMA IDPost ==
  ASSUME IDInv, NEW g \in Posters, Post(g)
  PROVE  FreshIDs' /\ UniqueIDs'
<1> USE DEF store, history
<1>t. TypeInv /\ TypeOK /\ FreshIDs /\ UniqueIDs
  BY DEF IDInv, TypeInv
<1>1. ASSUME NEW a \in Agents, NEW r \in RoomIDs,
             Send(g, a, r) \/ JoinRoom(g, a, r) \/ LeaveRoom(g, a, r)
      PROVE  FreshIDs' /\ UniqueIDs'
  BY <1>1, <1>t, IDsEmit, IDsKept DEF Send, JoinRoom, LeaveRoom
<1>2. ASSUME NEW r \in RoomIDs,
             Announce(g, r) \/ CreateRoom(g, r) \/ OpenDM(g, r)
      PROVE  FreshIDs' /\ UniqueIDs'
  BY <1>2, <1>t, IDsEmit, IDsKept DEF Announce, CreateRoom, OpenDM
<1>3. ASSUME NEW r \in RoomIDs, DeleteRoom(g, r)
      PROVE  FreshIDs' /\ UniqueIDs'
  <2>1. \A x \in RoomIDs : messages'[x] = messages[x] \/ messages'[x] = <<>>
    BY <1>3, <1>t DEF DeleteRoom, TypeOK
  <2> QED BY <1>3, <1>t, <2>1, IDsEmit, IDsKept DEF DeleteRoom
<1>4. CASE DropEvent(g) \/ Notify(g) \/ Attend(g)
  BY <1>4, <1>t, IDsEmit, IDsKept DEF DropEvent, Notify, Attend, EmitNext
<1>5. CASE AllocateID(g)
  <2>1. /\ nextID \in Nat /\ nextID' = nextID + 1 /\ messages' = messages
        /\ posting'[g].id = nextID + 1
        /\ \A h \in Posters \ {g} : posting'[h] = posting[h]
    BY <1>5, <1>t DEF AllocateID, TypeOK, PostingState
  <2>2. \A r \in RoomIDs : \A i \in DOMAIN messages[r] :
          messages[r][i].id \in Nat /\ messages[r][i].id <= nextID
    BY <1>t, StoredIDType DEF FreshIDs, TypeOK
  <2>3. \A h \in Posters : posting[h].id \in Nat
    BY <1>t DEF TypeOK, PostingState
  <2>4. \A h \in Posters : Holding(h) => posting[h].id <= nextID
    BY <1>t DEF FreshIDs
  <2>5. FreshIDs'
    BY <1>t, <2>1, <2>2, <2>3, <2>4 DEF FreshIDs, Holding
  <2> QED BY <1>t, <2>1, <2>5 DEF UniqueIDs
<1>6. CASE AppendMessage(g)
  <2> DEFINE m == InHand(g)
  <2>1. m \in Message /\ m.id = posting[g].id /\ m.room \in RoomIDs
    BY <1>6, <1>t, InHandType DEF AppendMessage, TypeInv, TypeOK, Message
  <2>2. /\ messages' = [messages EXCEPT ![m.room] = Append(@, m)]
        /\ nextID' = nextID
        /\ Holding(g)
        /\ \A h \in Posters : Holding(h)' => h # g /\ Holding(h) /\ posting'[h].id = posting[h].id
    BY <1>6, <1>t DEF AppendMessage, Holding, TypeOK, PostingState
  <2> HIDE DEF m
  <2>3. \A r \in RoomIDs : \A i \in DOMAIN messages'[r] :
          \/ i \in DOMAIN messages[r] /\ messages'[r][i] = messages[r][i]
          \/ r = m.room /\ i = Len(messages[r]) + 1 /\ messages'[r][i] = m
    <3> TAKE r \in RoomIDs
    <3>1. messages[r] \in Seq(Message)
      BY <1>t DEF TypeOK
    <3>2. CASE r = m.room
      <4>1. messages'[r] = Append(messages[r], m)
        BY <2>1, <2>2, <3>2, <1>t DEF TypeOK
      <4> QED BY <2>1, <3>1, <3>2, <4>1, AppendProperties, LenProperties
    <3>3. CASE r # m.room
      BY <2>1, <2>2, <3>3, <1>t DEF TypeOK
    <3> QED BY <3>2, <3>3
  <2>4. \A r \in RoomIDs : \A i \in DOMAIN messages[r] : messages[r][i].id # m.id
    BY <1>t, <2>1, <2>2 DEF FreshIDs
  <2>5. FreshIDs'
    BY <1>t, <2>1, <2>2, <2>3 DEF FreshIDs
  <2>6. UniqueIDs'
    BY <1>t, <2>3, <2>4 DEF UniqueIDs
  <2> QED BY <2>5, <2>6
<1> QED BY <1>1, <1>2, <1>3, <1>4, <1>5, <1>6 DEF Post

LEMMA StoredIDsType == ASSUME TypeOK PROVE StoredIDs \subseteq Nat
<1>1. messages \in [RoomIDs -> Seq(Message)] BY DEF TypeOK
<1> QED BY <1>1, StoredType DEF StoredIDs

LEMMA IDStart ==
  ASSUME IDInv, Start
  PROVE  FreshIDs' /\ UniqueIDs'
<1>t. TypeOK /\ FreshIDs /\ UniqueIDs
  BY DEF IDInv, TypeInv
<1>1. PICK n \in RestartIDs, ms \in [RoomIDs -> UNION {Reloads(r) : r \in RoomIDs}] :
        /\ \A r \in RoomIDs : ms[r] \in Reloads(r)
        /\ nextID' = n + 1
        /\ messages' = [ms EXCEPT ![SystemRoom] = Append(@,
                           [id |-> n + 1, room |-> SystemRoom, from |-> System])]
  BY DEF Start
<1>2. n \in Nat /\ \A i \in StoredIDs : i \in Nat /\ i <= n
  BY <1>t, StoredIDsType DEF RestartIDs
<1>3. ASSUME NEW r \in RoomIDs, NEW i \in DOMAIN ms[r]
      PROVE  /\ ms[r][i].id \in Nat /\ ms[r][i].id <= n
             /\ \E k \in DOMAIN messages[r] : ms[r][i] = messages[r][k]
             /\ \A j \in DOMAIN ms[r] : i # j => ms[r][i].id # ms[r][j].id
  <2>1. ms[r] \in [1..Len(messages[r]) -> Stored(r)]
        /\ \A k, j \in DOMAIN ms[r] : k < j => ms[r][k].id < ms[r][j].id
    BY <1>1 DEF Reloads
  <2>2. \A j \in DOMAIN ms[r] : ms[r][j] \in Stored(r) /\ j \in Int
    BY <2>1
  <2>3. \A j \in DOMAIN ms[r] : ms[r][j].id \in StoredIDs
    BY <2>2 DEF StoredIDs, IDs
  <2>4. \A j \in DOMAIN ms[r] : ms[r][j].id \in Nat /\ ms[r][j].id <= n
    BY <2>3, <1>2
  <2>5. \A j \in DOMAIN ms[r] : i # j => ms[r][i].id # ms[r][j].id
    BY <2>1, <2>2, <2>4
  <2> QED BY <2>2, <2>4, <2>5 DEF Stored, Elements
<1>4. \A r, s \in RoomIDs : \A i \in DOMAIN ms[r], j \in DOMAIN ms[s] :
        ms[r][i].id = ms[s][j].id => r = s /\ i = j
  BY <1>3, <1>t DEF UniqueIDs
<1>5. \A r \in RoomIDs : \A i \in DOMAIN messages'[r] :
        \/ i \in DOMAIN ms[r] /\ messages'[r][i] = ms[r][i]
        \/ /\ r = SystemRoom /\ i = Len(ms[r]) + 1
           /\ messages'[r][i] = [id |-> n + 1, room |-> SystemRoom, from |-> System]
  <2> TAKE r \in RoomIDs
  <2>1. ms[r] \in Seq(Stored(r))
    <3>1. Len(messages[r]) \in Nat /\ ms[r] \in [1..Len(messages[r]) -> Stored(r)]
      BY <1>1, <1>t, LenProperties DEF Reloads, TypeOK
    <3> QED BY <3>1, ListType
  <2> DEFINE e == [id |-> n + 1, room |-> SystemRoom, from |-> System]
  <2>2. messages' = [ms EXCEPT ![SystemRoom] = Append(@, e)]
    BY <1>1
  <2> HIDE DEF e
  <2>3. CASE r = SystemRoom
    <3>1. messages'[r] = Append(ms[r], e)
      BY <2>2, <2>3
    <3>2. ms[r] \in Seq(Stored(r) \cup {e})
      BY <2>1, SeqMonotonic
    <3>3. \A i \in DOMAIN messages'[r] :
            \/ i \in DOMAIN ms[r] /\ messages'[r][i] = ms[r][i]
            \/ i = Len(ms[r]) + 1 /\ messages'[r][i] = e
      BY <3>1, <3>2, AppendProperties, LenProperties
    <3> QED BY <2>3, <3>3 DEF e
  <2>4. CASE r # SystemRoom
    BY <2>2, <2>4
  <2> QED BY <2>3, <2>4
<1>6. \A g \in Posters : ~Holding(g)'
  BY DEF Start, Holding, NoPost
<1>7. FreshIDs'
  BY <1>1, <1>2, <1>3, <1>5, <1>6 DEF FreshIDs
<1>8. UniqueIDs'
  BY <1>2, <1>3, <1>4, <1>5 DEF UniqueIDs
<1> QED BY <1>7, <1>8

\* Listeners post nothing.
LEMMA ListenReads ==
  ASSUME NEW g \in Listeners, Listen(g)
  PROVE  UNCHANGED <<messages, nextID, posting>>
<1> USE DEF store, history
<1>1. ASSUME NEW a \in Readers, NEW n \in 0..nextID, AgentWait(g, a, n)
      PROVE UNCHANGED <<messages, nextID, posting>>
  BY <1>1 DEF AgentWait
<1>2. ASSUME NEW a \in Readers, NEW n \in 0..nextID, NEW r \in RoomIDs,
             RoomWait(g, a, r, n) \/ MarkRead(g, a, r, n)
      PROVE UNCHANGED <<messages, nextID, posting>>
  BY <1>2 DEF RoomWait, MarkRead
<1>3. CASE ScanNothing(g) \/ ScanAnswer(g) \/ ScanAnswerFails(g) \/ Subscribe(g)
  BY <1>3 DEF ScanNothing, ScanAnswer, ScanAnswerFails, Subscribe
<1>4. CASE Ignore(g) \/ PassOwn(g)
  BY <1>4 DEF Ignore, PassOwn, Receive
<1>5. CASE HandOver(g) \/ HandOverFails(g)
  BY <1>5 DEF HandOver, HandOverFails, Receive
<1>6. CASE GiveUp(g) \/ AdvanceCursor(g)
  BY <1>6 DEF GiveUp, AdvanceCursor
<1> QED BY <1>1, <1>2, <1>3, <1>4, <1>5, <1>6 DEF Listen

LEMMA IDNext == IDInv /\ [Next]_vars => IDInv'
<1> SUFFICES ASSUME IDInv, [Next]_vars PROVE IDInv'
  OBVIOUS
<1> USE DEF store, history
<1>1. TypeInv' /\ FreshIDs /\ UniqueIDs
  BY TypeNext DEF IDInv
<1>2. ASSUME NEW g \in Listeners, Listen(g) PROVE UNCHANGED <<messages, nextID, posting>>
  BY <1>2, ListenReads
<1>3. ASSUME UNCHANGED <<messages, nextID, posting>> PROVE FreshIDs' /\ UniqueIDs'
  BY <1>1, <1>3, IDsKept DEF Holding
<1>4. ASSUME NEW gone \in RoomIDs \cup {Everywhere}, Stop(gone) PROVE FreshIDs' /\ UniqueIDs'
  <2>1. \A g \in Posters : ~Holding(g)'
    BY <1>4 DEF Stop, Holding, NoPost
  <2>2. nextID' = nextID /\ \A r \in RoomIDs : messages'[r] = messages[r] \/ messages'[r] = <<>>
    BY <1>4 DEF Stop
  <2> QED BY <1>1, <2>1, <2>2, IDsKept
<1>5. FreshIDs' /\ UniqueIDs'
  BY <1>2, <1>3, <1>4, IDPost, IDStart DEF Next, vars
<1> QED BY <1>1, <1>5 DEF IDInv

\* No two messages of the bus ever share an id: not when senders race between
\* the atomic counter and the store lock, and not when a restart recomputes the
\* counter from the messages that survived.
THEOREM IDsAreUnique == Spec => []UniqueIDs
<1>1. IDInv => UniqueIDs
  BY DEF IDInv
<1> QED BY <1>1, IDInit, IDNext, PTL DEF Spec

-----------------------------------------------------------------------------
(* The message path implements ReadLedger: what its handlers, channels and *)
(* restarts do to messages and cursors is a step of the ledger or none.    *)

HIDE DeliveryAssumption

Log == UNION {Stored(r) : r \in RoomIDs}

\* A message is stored in the room it was sent to.
Placed == \A r \in RoomIDs : \A m \in Stored(r) : m.room = r

\* A cursor is about to move to ids that were accounted for with the answer.
AcksSettled == \A g \in Listeners : \A ack \in waiting[g].acks :
  waiting[g].pc = "advance" =>
    ack[2] = 0 \/ (waiting[g].agent \in Agents /\ ack[2] \in settled[waiting[g].agent])

LedgerInv == IDInv /\ Placed /\ AcksSettled

\* A step of the ledger.
Accounts(a) == Ledger!Account(a) /\ Ledger!Move(a)
LedgerStep == Ledger!Post \/ Ledger!Drop \/ \E a \in Agents : Accounts(a)
Stutter == UNCHANGED <<messages, cursors, settled>>

-----------------------------------------------------------------------------
(* The log.                                                                *)

LEMMA LoggedStored ==
  ASSUME Placed, NEW r \in RoomIDs
  PROVE  Ledger!LoggedIn(r) = Stored(r)
BY DEF Placed, Ledger!LoggedIn

LEMMA SameLog ==
  ASSUME messages' = messages
  PROVE  /\ Log' = Log
         /\ Placed => Placed'
         /\ \A r \in RoomIDs : Stored(r)' = Stored(r)
BY DEF Log, Placed, Stored

\* A room emptied takes its messages out of the log.
LEMMA DropLog ==
  ASSUME Placed, NEW r \in RoomIDs, messages \in [RoomIDs -> Seq(Message)],
         \A s \in RoomIDs : messages'[s] = IF s = r THEN <<>> ELSE messages[s],
         UNCHANGED <<cursors, settled>>
  PROVE  Ledger!Drop /\ Placed'
<1>1. \A s \in RoomIDs : Stored(s)' = IF s = r THEN {} ELSE Stored(s)
  BY DEF Stored, Elements
<1>2. Log' = Log \ Stored(r)
  BY <1>1 DEF Log, Placed
<1>3. Log' = Log \ Ledger!LoggedIn(r)
  BY <1>2, LoggedStored
<1>4. Placed'
  BY <1>1 DEF Placed
<1> QED BY <1>3, <1>4 DEF Ledger!Drop, Log

\* One more message, with an id that no stored one has.
LEMMA PostLog ==
  ASSUME Placed, NEW m \in Message,
         \A r \in RoomIDs : Stored(r)' = IF r = m.room THEN Stored(r) \cup {m} ELSE Stored(r),
         \A r \in RoomIDs : \A other \in Stored(r) : other.id # m.id,
         UNCHANGED <<cursors, settled>>
  PROVE  Ledger!Post /\ Placed'
<1>1. m.room \in RoomIDs
  BY DEF Message
<1>2. Log' = Log \cup {m}
  BY <1>1 DEF Log
<1>3. \A other \in Log : other.id # m.id
  BY DEF Log
<1>4. m \in Log' \ Log
  BY <1>2, <1>3
<1>5. Placed'
  BY <1>1 DEF Placed
<1> QED BY <1>2, <1>3, <1>4, <1>5 DEF Ledger!Post, Log

LEMMA AppendDomain ==
  ASSUME NEW S, NEW q \in Seq(S), NEW e \in S
  PROVE  /\ DOMAIN Append(q, e) = 1..(Len(q) + 1)
         /\ \A i \in 1..Len(q) : Append(q, e)[i] = q[i]
         /\ Append(q, e)[Len(q) + 1] = e
BY AppendProperties, LenProperties

\* An append stores what the poster has in its hands.
LEMMA AppendStored ==
  ASSUME LedgerInv, NEW g \in Posters, AppendMessage(g)
  PROVE  LET m == InHand(g) IN
         /\ m \in Message /\ m.id = posting[g].id /\ m.room \in RoomIDs
         /\ \A r \in RoomIDs : Stored(r)' = IF r = m.room THEN Stored(r) \cup {m} ELSE Stored(r)
<1> DEFINE m == InHand(g)
<1>t. TypeOK /\ TypeInv /\ FreshIDs /\ Placed
  BY DEF LedgerInv, IDInv, TypeInv
<1>1. m \in Message /\ m.id = posting[g].id /\ m.room \in RoomIDs
  BY <1>t, InHandType DEF AppendMessage, TypeInv, TypeOK, Message
<1>2. /\ messages' = [messages EXCEPT ![m.room] = Append(@, m)]
      /\ UNCHANGED <<cursors, settled>> /\ Holding(g)
  BY DEF AppendMessage, Holding
<1> HIDE DEF m
<1>3. \A r \in RoomIDs : Stored(r)' = IF r = m.room THEN Stored(r) \cup {m} ELSE Stored(r)
  <2> TAKE r \in RoomIDs
  <2>1. messages[r] \in Seq(Message)
    BY <1>t DEF TypeOK
  <2>2. CASE r = m.room
    <3>1. messages'[r] = Append(messages[r], m)
      BY <1>1, <1>2, <2>2, <1>t DEF TypeOK
    <3>. Len(messages[r]) \in Nat /\ DOMAIN messages[r] = 1..Len(messages[r])
      BY <2>1, LenProperties
    <3>2. /\ DOMAIN messages'[r] = 1..(Len(messages[r]) + 1)
          /\ \A i \in 1..Len(messages[r]) : messages'[r][i] = messages[r][i]
          /\ messages'[r][Len(messages[r]) + 1] = m
      BY <1>1, <2>1, <3>1, AppendDomain
    <3>3. Stored(r)' = {messages'[r][i] : i \in 1..Len(messages[r])} \cup {m}
      BY <3>2 DEF Stored, Elements
    <3>4. Stored(r) = {messages[r][i] : i \in 1..Len(messages[r])}
      BY DEF Stored, Elements
    <3>5. Stored(r)' = Stored(r) \cup {m}
      BY <3>2, <3>3, <3>4
    <3> QED BY <2>2, <3>5
  <2>3. CASE r # m.room
    BY <1>1, <1>2, <2>3, <1>t DEF TypeOK, Stored
  <2> QED BY <2>2, <2>3
<1> QED BY <1>1, <1>3 DEF m

LEMMA AppendStep ==
  ASSUME LedgerInv, NEW g \in Posters, AppendMessage(g)
  PROVE  Ledger!Post /\ Placed'
<1>t. TypeOK /\ FreshIDs /\ Placed
  BY DEF LedgerInv, IDInv, TypeInv
<1>1. PICK m \in Message :
        /\ m.id = posting[g].id /\ m.room \in RoomIDs
        /\ \A r \in RoomIDs : Stored(r)' = IF r = m.room THEN Stored(r) \cup {m} ELSE Stored(r)
  BY AppendStored
<1>2. UNCHANGED <<cursors, settled>> /\ Holding(g)
  BY DEF AppendMessage, Holding
<1>4. \A r \in RoomIDs : \A other \in Stored(r) : other.id # m.id
  BY <1>t, <1>1, <1>2 DEF FreshIDs, Stored, Elements
<1> QED BY <1>t, <1>1, <1>2, <1>4, PostLog

\* Reading a room back in another order loses no message: ids are unique.
LEMMA ReloadsAll ==
  ASSUME TypeOK, UniqueIDs, NEW r \in RoomIDs, NEW s \in Reloads(r)
  PROVE  Elements(s) = Stored(r)
<1> DEFINE L == Len(messages[r])
           T == Stored(r)
<1>1. messages[r] \in Seq(Message) /\ L \in Nat /\ DOMAIN messages[r] = 1..L
  BY LenProperties DEF TypeOK
<1>2. messages[r] \in Bijection(1..L, T)
  <2>1. messages[r] \in [1..L -> T]
    BY <1>1 DEF Stored, Elements
  <2>2. \A i, j \in 1..L : messages[r][i] = messages[r][j] => i = j
    BY <1>1 DEF UniqueIDs
  <2>3. \A t \in T : \E i \in 1..L : messages[r][i] = t
    BY <1>1 DEF Stored, Elements
  <2> QED BY <2>1, <2>2, <2>3 DEF Bijection, Injection, Surjection, IsInjective
<1>3. IsFiniteSet(1..L) /\ Cardinality(1..L) = L
  BY <1>1, FS_Interval
<1>4. IsFiniteSet(T) /\ Cardinality(T) = L
  <2>1. ExistsBijection(1..L, T)
    BY <1>2 DEF ExistsBijection
  <2> HIDE DEF T
  <2> QED BY <1>3, <2>1, FS_Bijection
<1>5. s \in [1..L -> T] /\ \A i, j \in 1..L : i < j => s[i].id < s[j].id
  BY DEF Reloads
<1>6. \A m \in T : m.id \in Nat
  BY StoredType DEF TypeOK, Message
<1>7. s \in Injection(1..L, T)
  <2> HIDE DEF L, T
  <2>1. \A i, j \in 1..L : s[i] = s[j] => i = j
    <3> SUFFICES ASSUME NEW i \in 1..L, NEW j \in 1..L, s[i] = s[j], i # j PROVE FALSE
      OBVIOUS
    <3>1. s[i].id \in Nat /\ s[j].id \in Nat
      BY <1>5, <1>6
    <3>2. i < j \/ j < i
      BY <1>1
    <3>3. s[i].id < s[j].id \/ s[j].id < s[i].id
      BY <1>5, <3>2
    <3> QED BY <3>1, <3>3
  <2> QED BY <1>5, <2>1 DEF Injection, IsInjective
<1>8. s \in Surjection(1..L, T)
  <2> HIDE DEF L, T
  <2> QED BY <1>3, <1>4, <1>7, FS_Injection
<1> QED BY <1>5, <1>8 DEF Surjection, Elements

\* A start keeps what is stored and adds its event, with the next id.
LEMMA StartStored ==
  ASSUME LedgerInv, Start
  PROVE  \E n \in Nat, m \in Message :
           /\ m.id = n + 1 /\ nextID' = n + 1 /\ exposed' = exposed \cup (n + 1)..nextID
           /\ \A i \in StoredIDs : i \in Nat /\ i <= n
           /\ \A r \in RoomIDs : Stored(r)' = IF r = m.room THEN Stored(r) \cup {m} ELSE Stored(r)
<1> DEFINE e(n) == [id |-> n + 1, room |-> SystemRoom, from |-> System]
<1>t. TypeOK /\ UniqueIDs /\ Placed
  BY DEF LedgerInv, IDInv, TypeInv
<1>1. PICK n \in RestartIDs, ms \in [RoomIDs -> UNION {Reloads(r) : r \in RoomIDs}] :
        /\ \A r \in RoomIDs : ms[r] \in Reloads(r)
        /\ nextID' = n + 1 /\ exposed' = exposed \cup (n + 1)..nextID
        /\ messages' = [ms EXCEPT ![SystemRoom] = Append(@, e(n))]
  BY DEF Start
<1>2. n \in Nat /\ \A i \in StoredIDs : i \in Nat /\ i <= n
  BY <1>t, StoredType DEF RestartIDs, StoredIDs, TypeOK
<1>3. e(n) \in Message /\ e(n).id = n + 1 /\ e(n).room = SystemRoom
  BY <1>2, DeliveryAssumption DEF Message
<1> HIDE DEF e
<1>4. \A r \in RoomIDs : ms[r] \in Seq(Message)
  <2> TAKE r \in RoomIDs
  <2>1. Len(messages[r]) \in Nat
    BY <1>t, LenProperties DEF TypeOK
  <2>2. ms[r] \in [1..Len(messages[r]) -> Message]
    BY <1>1, <1>t, StoredType DEF Reloads, TypeOK
  <2> QED BY <2>1, <2>2, ListType
<1>5. \A r \in RoomIDs : Stored(r)' = IF r = SystemRoom THEN Stored(r) \cup {e(n)} ELSE Stored(r)
  <2> TAKE r \in RoomIDs
  <2>1. Elements(ms[r]) = Stored(r)
    BY <1>1, <1>t, ReloadsAll
  <2>2. CASE r = SystemRoom
    <3>1. messages'[r] = Append(ms[r], e(n))
      BY <1>1, <2>2
    <3>2. /\ DOMAIN messages'[r] = 1..(Len(ms[r]) + 1)
          /\ \A i \in 1..Len(ms[r]) : messages'[r][i] = ms[r][i]
          /\ messages'[r][Len(ms[r]) + 1] = e(n)
          /\ Len(ms[r]) \in Nat /\ DOMAIN ms[r] = 1..Len(ms[r])
      BY <1>3, <1>4, <3>1, AppendProperties, LenProperties
    <3>3. Stored(r)' = Elements(ms[r]) \cup {e(n)}
      BY <3>2 DEF Stored, Elements
    <3> QED BY <2>1, <2>2, <3>3
  <2>3. CASE r # SystemRoom
    <3>1. messages'[r] = ms[r]
      BY <1>1, <2>3
    <3> QED BY <2>1, <2>3, <3>1 DEF Stored
  <2> QED BY <2>2, <2>3
<1> QED BY <1>1, <1>2, <1>3, <1>5

LEMMA StartStep ==
  ASSUME LedgerInv, Start
  PROVE  Ledger!Post /\ Placed'
<1>1. PICK n \in Nat, m \in Message :
        /\ m.id = n + 1 /\ \A i \in StoredIDs : i \in Nat /\ i <= n
        /\ \A r \in RoomIDs : Stored(r)' = IF r = m.room THEN Stored(r) \cup {m} ELSE Stored(r)
  BY StartStored
<1>2. \A r \in RoomIDs : \A other \in Stored(r) : other.id # m.id
  <2>1. \A r \in RoomIDs : \A other \in Stored(r) : other.id \in StoredIDs
    BY DEF StoredIDs, IDs
  <2> QED BY <1>1, <2>1
<1>3. UNCHANGED <<cursors, settled>> /\ Placed
  BY DEF Start, LedgerInv
<1> QED BY <1>1, <1>2, <1>3, PostLog

-----------------------------------------------------------------------------
(* Cursors and what they account for.                                      *)

\* A first look sets cursors to where the backlog it leaves out ends.
LEMMA LookStep ==
  ASSUME LedgerInv, NEW a \in Agents, NEW rs \in SUBSET RoomIDs, NEW ids,
         EnsureCursors(a, rs), Settle(a, ids), LeftOut(a, rs) \subseteq ids, messages' = messages
  PROVE  Accounts(a)
<1>t. TypeOK /\ Placed
  BY DEF LedgerInv, IDInv, TypeInv
<1>1. /\ settled'[a] = settled[a] \cup ids
      /\ \A b \in Agents \ {a} : settled'[b] = settled[b]
  BY <1>t DEF Settle, TypeOK
<1>2. /\ \A b \in Agents \ {a} : cursors'[b] = cursors[b]
      /\ \A r \in RoomIDs : cursors'[a][r] = IF r \in rs THEN CursorOf(a, r) ELSE cursors[a][r]
  BY <1>t DEF EnsureCursors, TypeOK
<1>3. Ledger!Account(a)
  BY <1>1, SameLog DEF Ledger!Account, Log
<1>4. ASSUME NEW r \in RoomIDs, cursors'[a][r] # cursors[a][r]
      PROVE  /\ cursors'[a][r] > cursors[a][r] /\ cursors[a][r] = Unset
             /\ \A m \in Ledger!LoggedIn(r) : m.id <= cursors'[a][r] => m.id \in settled'[a]
  <2>1. r \in rs /\ cursors[a][r] = Unset /\ cursors'[a][r] = FirstCursor(r)
    BY <1>2, <1>4 DEF CursorOf
  <2>2. FirstCursor(r) \in Nat
    BY <1>t, CursorType DEF TypeOK
  <2>3. UpTo(r, FirstCursor(r)) \subseteq ids
    BY <2>1 DEF LeftOut
  <2>4. \A m \in Stored(r) : m.id <= FirstCursor(r) => m.id \in UpTo(r, FirstCursor(r))
    BY DEF UpTo, IDs
  <2> QED BY <1>t, <1>1, <2>1, <2>2, <2>3, <2>4, LoggedStored DEF Unset
<1>5. Ledger!Move(a)
  BY <1>2, <1>4 DEF Ledger!Move
<1> QED BY <1>3, <1>5 DEF Accounts

\* One cursor moves forward to a message accounted for, or stays.
LEMMA MoveStep ==
  ASSUME TypeOK, NEW a \in Agents, NEW r \in RoomIDs, NEW to, messages' = messages,
         settled[a] \subseteq settled'[a], \A b \in Agents \ {a} : settled'[b] = settled[b],
         cursors' = [cursors EXCEPT ![a][r] = to],
         to = cursors[a][r] \/ (to > cursors[a][r] /\ to \in settled'[a])
  PROVE  Accounts(a)
<1>1. /\ \A b \in Agents \ {a} : cursors'[b] = cursors[b]
      /\ cursors'[a][r] = to
      /\ \A s \in RoomIDs \ {r} : cursors'[a][s] = cursors[a][s]
  BY DEF TypeOK
<1>2. Ledger!Account(a)
  BY SameLog DEF Ledger!Account, Log
<1>3. Ledger!Move(a)
  BY <1>1 DEF Ledger!Move
<1> QED BY <1>2, <1>3 DEF Accounts

\* Accounting alone.
LEMMA SettleStep ==
  ASSUME TypeOK, NEW a \in Agents, NEW ids, Settle(a, ids), UNCHANGED <<messages, cursors>>
  PROVE  Accounts(a)
<1>1. /\ settled[a] \subseteq settled'[a]
      /\ \A b \in Agents \ {a} : settled'[b] = settled[b]
  BY DEF Settle, TypeOK
<1>2. Ledger!Account(a)
  BY <1>1, SameLog DEF Ledger!Account, Log
<1> QED BY <1>2 DEF Accounts, Ledger!Move

\* Acknowledged are messages of the answer.
LEMMA AcksAnswered ==
  ASSUME NEW g \in Listeners, NEW batch,
         (waiting[g].pc = "scan" /\ batch = Found(g)) \/ waiting[g].pc = "listen"
  PROVE  \A ack \in Acks(g, batch) : ack[2] \in IDs(batch)
<1>1. CASE FollowsCursors(g)
  BY <1>1 DEF Acks, IDs
<1>2. CASE ~FollowsCursors(g) /\ waiting[g].room = Everywhere
  BY <1>2 DEF Acks
<1>3. CASE ~FollowsCursors(g) /\ waiting[g].room # Everywhere /\ waiting[g].pc = "listen"
  BY <1>3 DEF Acks
<1>4. CASE ~FollowsCursors(g) /\ waiting[g].room # Everywhere /\ waiting[g].pc = "scan"
  <2> DEFINE r == waiting[g].room
  <2>1. batch = {m \in Stored(r) : m.id > Since(g, r)}
    BY <1>4 DEF Found, Scanned
  <2>2. LastFound(g, r) \subseteq IDs(batch)
    BY <2>1 DEF LastFound, IDs, Stored, Elements
  <2> QED BY <1>4, <2>2 DEF Acks
<1> QED BY <1>1, <1>2, <1>3, <1>4

\* What was accounted for stays so, and a request that is about to move cursors has
\* accounted for where they go.
LEMMA AcksKept ==
  ASSUME TypeOK, AcksSettled, NEW g \in Listeners,
         \A a \in Agents : settled[a] \subseteq settled'[a],
         \A h \in Listeners \ {g} : waiting'[h] = waiting[h],
         waiting'[g].pc = "advance" => \A ack \in waiting'[g].acks :
           ack[2] = 0 \/ (waiting'[g].agent \in Agents /\ ack[2] \in settled'[waiting'[g].agent])
  PROVE  AcksSettled'
BY DEF AcksSettled

LEMMA AnswerAcks ==
  ASSUME TypeOK, AcksSettled, NEW g \in Listeners, waiting[g].agent \in Agents, NEW batch, NEW ids,
         (waiting[g].pc = "scan" /\ batch = Found(g)) \/ waiting[g].pc = "listen",
         Answer(g, batch), Settle(waiting[g].agent, ids), IDs(batch) \subseteq ids
  PROVE  AcksSettled'
<1> DEFINE a == waiting[g].agent
<1>1. /\ \A b \in Agents : settled[b] \subseteq settled'[b]
      /\ ids \subseteq settled'[a]
  BY DEF Settle, TypeOK
<1>2. \A ack \in Acks(g, batch) : ack[2] \in ids
  BY AcksAnswered
<1>3. CASE Acks(g, batch) = {}
  <2>1. waiting' = [waiting EXCEPT ![g] = NoWait]
    BY <1>3 DEF Answer, Finish
  <2>2. waiting'[g].pc = "idle" /\ \A h \in Listeners \ {g} : waiting'[h] = waiting[h]
    BY <2>1 DEF NoWait, TypeOK
  <2> QED BY <1>1, <2>2, AcksKept
<1>4. CASE Acks(g, batch) # {}
  <2> DEFINE acks == Acks(g, batch)
  <2>1. waiting' = [waiting EXCEPT ![g] = [@ EXCEPT !.pc = "advance", !.acks = acks]]
    BY <1>4 DEF Answer
  <2> HIDE DEF acks
  <2>2. /\ waiting'[g].acks = acks /\ waiting'[g].agent = a
        /\ \A h \in Listeners \ {g} : waiting'[h] = waiting[h]
    BY <2>1 DEF TypeOK, WaitingState
  <2>3. \A ack \in acks : ack[2] \in settled'[a]
    BY <1>1, <1>2 DEF acks
  <2> QED BY <1>1, <2>2, <2>3, AcksKept
<1> QED BY <1>3, <1>4

\* A request that is not answered, or not yet, moves no cursor.
LEMMA QuietAcks ==
  ASSUME TypeOK, AcksSettled, NEW g \in Listeners,
         \A a \in Agents : settled[a] \subseteq settled'[a],
         \/ waiting' = waiting
         \/ Finish(g)
         \/ \E w \in {"scan", "subscribe", "listen"} : waiting'[g].pc = w
                /\ \A h \in Listeners \ {g} : waiting'[h] = waiting[h]
  PROVE  AcksSettled'
<1>1. CASE waiting' = waiting
  BY <1>1 DEF AcksSettled
<1>2. CASE Finish(g)
  <2>1. waiting'[g].pc = "idle" /\ \A h \in Listeners \ {g} : waiting'[h] = waiting[h]
    BY <1>2 DEF Finish, NoWait, TypeOK
  <2> QED BY <2>1, AcksKept
<1> QED BY <1>1, <1>2, AcksKept

LEMMA Settling ==
  ASSUME TypeOK, NEW a \in Agents, NEW ids, Settle(a, ids)
  PROVE  \A b \in Agents : settled[b] \subseteq settled'[b]
BY DEF Settle, TypeOK

\* Every step of a wait is a step of the ledger, or none.
LEMMA ListenStep ==
  ASSUME LedgerInv, NEW g \in Listeners, Listen(g)
  PROVE  (Stutter \/ LedgerStep) /\ Placed' /\ AcksSettled'
<1> USE DEF store, history
<1>t. TypeInv /\ TypeOK /\ AcksSettled /\ Placed
  BY DEF LedgerInv, IDInv, TypeInv
<1>a. \A x \in Listeners : waiting[x].pc \notin {"idle", "down"} => waiting[x].agent \in Agents
  BY <1>t DEF TypeInv, Serving
<1>m. messages' = messages /\ Placed'
  <2>1. messages' = messages
    BY ListenReads
  <2> QED BY <1>t, <2>1, SameLog
<1>r. Readers \subseteq Agents
  BY DeliveryAssumption
<1>1. ASSUME NEW a \in Readers, NEW n \in 0..nextID, AgentWait(g, a, n)
      PROVE  (Stutter \/ LedgerStep) /\ AcksSettled'
  <2>1. waiting'[g].pc = "scan" /\ \A h \in Listeners \ {g} : waiting'[h] = waiting[h]
    BY <1>1, <1>t DEF AgentWait, TypeOK
  <2>2. UNCHANGED <<cursors, settled>>
    BY <1>1 DEF AgentWait
  <2> QED BY <1>t, <1>m, <2>1, <2>2, QuietAcks DEF Stutter
<1>2. ASSUME NEW a \in Readers, NEW n \in 0..nextID, NEW r \in RoomIDs, RoomWait(g, a, r, n)
      PROVE  (Stutter \/ LedgerStep) /\ AcksSettled'
  <2> DEFINE rs == IF n > 0 THEN {} ELSE {r}
             ids == IF n > 0 THEN UpTo(r, n) ELSE LeftOut(a, rs)
  <2>1. /\ waiting'[g].pc = "scan" /\ \A h \in Listeners \ {g} : waiting'[h] = waiting[h]
        /\ EnsureCursors(a, rs) /\ Settle(a, ids)
    BY <1>2, <1>t DEF RoomWait, TypeOK
  <2>2. rs \in SUBSET RoomIDs /\ LeftOut(a, rs) \subseteq ids
    BY DEF LeftOut
  <2> HIDE DEF rs, ids
  <2>3. Accounts(a)
    BY <1>m, <1>r, <2>1, <2>2, LookStep
  <2> QED BY <1>t, <1>r, <2>1, <2>3, Settling, QuietAcks DEF LedgerStep
<1>3. ASSUME NEW a \in Readers, NEW n \in 0..nextID, NEW r \in RoomIDs, MarkRead(g, a, r, n)
      PROVE  (Stutter \/ LedgerStep) /\ AcksSettled'
  <2> DEFINE to == IF n = 0 THEN RoomHead(r) ELSE n
  <2>1. /\ Settle(a, UpTo(r, to)) /\ cursors' = cursors
        /\ waiting' = [waiting EXCEPT ![g] =
                         [NoWait EXCEPT !.pc = "advance", !.agent = a, !.acks = {<<r, to>>}]]
        /\ n \in {0} \cup IDs(Stored(r))
    BY <1>3 DEF MarkRead
  <2>2. Accounts(a)
    BY <1>m, <1>r, <1>t, <2>1, SettleStep
  <2>3. to = 0 \/ to \in UpTo(r, to)
    <3>1. to \in Nat /\ (to = 0 \/ to \in IDs(Stored(r)))
      <4>1. messages[r] \in Seq(Message) /\ RoomHead(r) \in Nat
        BY <1>t, StoredType DEF TypeOK
      <4>2. CASE n = 0 /\ messages[r] = <<>>
        BY <4>1, <4>2 DEF RoomHead
      <4>3. CASE n = 0 /\ messages[r] # <<>>
        <5>1. Len(messages[r]) \in DOMAIN messages[r]
          BY <4>1, <4>3, EmptySeq, LenProperties
        <5> QED BY <4>1, <4>3, <5>1 DEF RoomHead, IDs, Stored, Elements
      <4>4. CASE n # 0
        BY <2>1, <4>4
      <4> QED BY <4>2, <4>3, <4>4
    <3> QED BY <3>1 DEF UpTo
  <2> HIDE DEF to
  <2>4. /\ waiting'[g].acks = {<<r, to>>} /\ waiting'[g].agent = a
        /\ \A h \in Listeners \ {g} : waiting'[h] = waiting[h]
    BY <2>1, <1>t DEF TypeOK, NoWait
  <2>5. UpTo(r, to) \subseteq settled'[a]
    BY <2>1, <1>r, <1>t DEF Settle, TypeOK
  <2>6. AcksSettled'
    BY <1>t, <1>r, <2>1, <2>3, <2>4, <2>5, Settling, AcksKept
  <2> QED BY <1>r, <2>2, <2>6 DEF LedgerStep
<1>4. CASE ScanNothing(g)
  <2> DEFINE a == waiting[g].agent
  <2>1. /\ a \in Agents /\ FirstLook(g) \in SUBSET RoomIDs
        /\ EnsureCursors(a, FirstLook(g)) /\ Settle(a, LeftOut(a, FirstLook(g)))
        /\ waiting'[g].pc = "subscribe" /\ \A h \in Listeners \ {g} : waiting'[h] = waiting[h]
    BY <1>4, <1>a, <1>t, ScanType DEF ScanNothing, TypeOK, WaitingState
  <2>2. Accounts(a)
    BY <1>m, <2>1, LookStep
  <2> QED BY <1>m, <1>t, <2>1, <2>2, Settling, QuietAcks DEF LedgerStep
<1>5. CASE ScanAnswer(g)
  <2> DEFINE a == waiting[g].agent
             ids == LeftOut(a, FirstLook(g)) \cup IDs(Found(g))
  <2>1. /\ a \in Agents /\ FirstLook(g) \in SUBSET RoomIDs
        /\ EnsureCursors(a, FirstLook(g)) /\ Settle(a, ids)
        /\ Answer(g, Found(g)) /\ waiting[g].pc = "scan"
    BY <1>5, <1>a, <1>t, ScanType DEF ScanAnswer
  <2>2. Accounts(a)
    BY <1>m, <2>1, LookStep
  <2>3. AcksSettled'
    BY <1>t, <2>1, AnswerAcks
  <2> QED BY <1>m, <2>1, <2>2, <2>3 DEF LedgerStep
<1>6. CASE ScanAnswerFails(g)
  <2> DEFINE a == waiting[g].agent
  <2>1. /\ a \in Agents /\ FirstLook(g) \in SUBSET RoomIDs
        /\ EnsureCursors(a, FirstLook(g)) /\ Settle(a, LeftOut(a, FirstLook(g)))
        /\ Finish(g)
    BY <1>6, <1>a, <1>t, ScanType DEF ScanAnswerFails
  <2>2. Accounts(a)
    BY <1>m, <2>1, LookStep
  <2> QED BY <1>m, <1>t, <2>1, <2>2, Settling, QuietAcks DEF LedgerStep
<1>7. CASE Subscribe(g) \/ GiveUp(g)
  <2>1. UNCHANGED <<cursors, settled>>
    BY <1>7 DEF Subscribe, GiveUp
  <2>2. \/ Finish(g)
        \/ waiting'[g].pc = "listen" /\ \A h \in Listeners \ {g} : waiting'[h] = waiting[h]
    BY <1>7, <1>t DEF Subscribe, GiveUp, TypeOK, WaitingState
  <2> QED BY <1>t, <1>m, <2>1, <2>2, QuietAcks DEF Stutter
<1>8. CASE Ignore(g)
  <2> DEFINE a == waiting[g].agent
  <2>1. /\ a \in Agents /\ Looked(g) \in SUBSET RoomIDs
        /\ EnsureCursors(a, Looked(g)) /\ Settle(a, LeftOut(a, Looked(g)))
        /\ waiting' = waiting
    BY <1>8, <1>a, <1>t, ArrivedType DEF Ignore, Receive
  <2>2. Accounts(a)
    BY <1>m, <2>1, LookStep
  <2> QED BY <1>m, <1>t, <2>1, <2>2, Settling, QuietAcks DEF LedgerStep
<1>9. CASE PassOwn(g)
  <2> DEFINE a == waiting[g].agent
             m == Arrived(g)
             cur == IF FollowsCursors(g) THEN CursorOf(a, m.room) ELSE cursors[a][m.room]
             ids == LeftOut(a, Looked(g)) \cup {m.id}
  <2>1. a \in Agents /\ m.id \in Nat /\ m.room \in RoomIDs
    BY <1>9, <1>a, <1>t, ArrivedType DEF PassOwn, Receive
  <2>2. /\ Settle(a, ids) /\ waiting' = waiting
        /\ cursors' = cursors \/ cursors' = [cursors EXCEPT ![a][m.room] = Advanced(cur, m.id)]
    BY <1>9 DEF PassOwn
  <2>3. FollowsCursors(g) => m.id > cur
    BY <1>9 DEF PassOwn, Wanted, Since
  <2>4. AcksSettled'
    BY <1>t, <2>1, <2>2, Settling, QuietAcks
  <2>5. CASE cursors' = cursors
    <3> HIDE DEF ids, a
    <3>1. Accounts(a)
      BY <1>t, <1>m, <2>1, <2>2, <2>5, SettleStep
    <3> QED BY <1>m, <2>1, <2>4, <3>1 DEF LedgerStep
  <2>6. CASE cursors' = [cursors EXCEPT ![a][m.room] = Advanced(cur, m.id)]
    <3>1. /\ m.id \in settled'[a] /\ settled[a] \subseteq settled'[a]
          /\ \A b \in Agents \ {a} : settled'[b] = settled[b]
      BY <1>t, <2>1, <2>2 DEF Settle, TypeOK
    <3>2. cursors[a][m.room] \in Nat \cup {Unset} /\ CursorOf(a, m.room) \in Nat
      BY <1>t, <2>1, CursorType DEF TypeOK
    <3> DEFINE to == Advanced(cur, m.id)
    <3>3. to = cursors[a][m.room] \/ (to > cursors[a][m.room] /\ to \in settled'[a])
      <4>1. CASE FollowsCursors(g)
        <5>1. cur = CursorOf(a, m.room) /\ cur >= cursors[a][m.room]
          BY <3>2, <4>1, CursorType DEF CursorOf, Unset
        <5>2. to = m.id
          BY <2>1, <2>3, <3>2, <4>1, <5>1 DEF Advanced, Unset
        <5> QED BY <2>1, <2>3, <3>1, <3>2, <4>1, <5>1, <5>2 DEF Unset
      <4>2. CASE ~FollowsCursors(g)
        <5>1. cur = cursors[a][m.room]
          BY <4>2
        <5>2. to = cur \/ (to = m.id /\ ~(cur >= m.id))
          BY DEF Advanced
        <5> QED BY <2>1, <3>1, <3>2, <5>1, <5>2 DEF Unset
      <4> QED BY <4>1, <4>2
    <3> HIDE DEF to, cur, a, m
    <3>4. cursors' = [cursors EXCEPT ![a][m.room] = to]
      BY <2>6 DEF to
    <3>5. Accounts(a)
      BY <1>t, <1>m, <2>1, <3>1, <3>3, <3>4, MoveStep
    <3> QED BY <1>m, <2>1, <2>4, <3>5 DEF LedgerStep
  <2> QED BY <2>2, <2>5, <2>6
<1>10. CASE HandOver(g)
  <2> DEFINE a == waiting[g].agent
             ids == LeftOut(a, Looked(g)) \cup {Arrived(g).id}
  <2>1. /\ a \in Agents /\ Looked(g) \in SUBSET RoomIDs
        /\ EnsureCursors(a, Looked(g)) /\ Settle(a, ids)
        /\ Answer(g, {Arrived(g)}) /\ waiting[g].pc = "listen"
    BY <1>10, <1>a, <1>t, ArrivedType DEF HandOver, Receive
  <2>2. IDs({Arrived(g)}) \subseteq ids /\ LeftOut(a, Looked(g)) \subseteq ids
    BY DEF IDs
  <2> HIDE DEF ids
  <2>3. Accounts(a)
    BY <1>m, <2>1, <2>2, LookStep
  <2>4. AcksSettled'
    BY <1>t, <2>1, <2>2, AnswerAcks
  <2> QED BY <1>m, <2>1, <2>3, <2>4 DEF LedgerStep
<1>11. CASE HandOverFails(g)
  <2> DEFINE a == waiting[g].agent
  <2>1. /\ a \in Agents /\ Looked(g) \in SUBSET RoomIDs
        /\ EnsureCursors(a, Looked(g)) /\ Settle(a, LeftOut(a, Looked(g)))
        /\ Finish(g)
    BY <1>11, <1>a, <1>t, ArrivedType DEF HandOverFails, Receive
  <2>2. Accounts(a)
    BY <1>m, <2>1, LookStep
  <2> QED BY <1>m, <1>t, <2>1, <2>2, Settling, QuietAcks DEF LedgerStep
<1>12. CASE AdvanceCursor(g)
  <2>1. PICK ack \in waiting[g].acks :
          /\ waiting[g].pc = "advance"
          /\ cursors' = [cursors EXCEPT ![waiting[g].agent][ack[1]] = Advanced(@, ack[2])]
          /\ IF waiting[g].acks \ {ack} = {} THEN Finish(g)
             ELSE waiting' = [waiting EXCEPT ![g].acks = waiting[g].acks \ {ack}]
          /\ settled' = settled
    BY <1>12 DEF AdvanceCursor
  <2> DEFINE a == waiting[g].agent
             r == ack[1]
             to == Advanced(cursors[a][r], ack[2])
  <2>2. waiting[g].acks \in SUBSET (RoomIDs \X Nat)
    BY <1>t DEF TypeOK, WaitingState
  <2>3. a \in Agents /\ r \in RoomIDs /\ ack[2] \in Nat
    BY <1>a, <2>1, <2>2
  <2>4. ack[2] = 0 \/ ack[2] \in settled[a]
    BY <1>t, <2>1 DEF AcksSettled
  <2>5. cursors[a][r] \in Nat \cup {Unset}
    BY <1>t, <2>3 DEF TypeOK
  <2>6. to = cursors[a][r] \/ (to > cursors[a][r] /\ to \in settled'[a])
    <3>1. to = cursors[a][r] \/ (to = ack[2] /\ ~(cursors[a][r] >= ack[2]) /\ ~(cursors[a][r] = Unset /\ ack[2] = 0))
      BY DEF Advanced
    <3>2. cursors[a][r] \in Int /\ (cursors[a][r] >= 0 \/ cursors[a][r] = Unset)
      BY <2>5 DEF Unset
    <3> HIDE DEF to, a, r
    <3> QED BY <2>1, <2>3, <2>4, <3>1, <3>2
  <2>7. Accounts(a)
    <3> HIDE DEF to, a, r
    <3>1. cursors' = [cursors EXCEPT ![a][r] = to]
      BY <2>1 DEF a, r, to
    <3> QED BY <1>t, <1>m, <2>1, <2>3, <2>6, <3>1, MoveStep
  <2>8. AcksSettled'
    <3>1. CASE Finish(g)
      BY <1>t, <2>1, <3>1, QuietAcks
    <3>2. CASE waiting' = [waiting EXCEPT ![g].acks = waiting[g].acks \ {ack}]
      <4>1. /\ waiting'[g].acks \subseteq waiting[g].acks /\ waiting'[g].agent = a
            /\ \A h \in Listeners \ {g} : waiting'[h] = waiting[h]
        BY <3>2, <1>t DEF TypeOK, WaitingState
      <4>2. \A k \in waiting'[g].acks : k[2] = 0 \/ k[2] \in settled'[a]
        BY <1>t, <2>1, <4>1 DEF AcksSettled
      <4> HIDE DEF a
      <4> QED BY <1>t, <2>1, <2>3, <4>1, <4>2, AcksKept
    <3> QED BY <2>1, <3>1, <3>2
  <2> QED BY <1>m, <2>3, <2>7, <2>8 DEF LedgerStep
<1> QED BY <1>m, <1>1, <1>2, <1>3, <1>4, <1>5, <1>6, <1>7, <1>8, <1>9, <1>10, <1>11, <1>12 DEF Listen

-----------------------------------------------------------------------------
\* Posting touches the log through one append or one deletion only.
LEMMA PostStep ==
  ASSUME LedgerInv, NEW g \in Posters, Post(g)
  PROVE  (Stutter \/ LedgerStep) /\ Placed' /\ AcksSettled'
<1> USE DEF store, history
<1>t. TypeOK /\ AcksSettled /\ Placed
  BY DEF LedgerInv, IDInv, TypeInv
<1>1. UNCHANGED <<waiting, settled>>
  BY DEF Post, Send, JoinRoom, LeaveRoom, Announce, CreateRoom, OpenDM, DeleteRoom, Attend,
         AllocateID, DropEvent, AppendMessage, Notify
<1>2. AcksSettled'
  BY <1>t, <1>1 DEF AcksSettled
<1>3. CASE AppendMessage(g)
  BY <1>2, <1>3, AppendStep DEF LedgerStep
<1>4. ASSUME NEW r \in RoomIDs, DeleteRoom(g, r)
      PROVE  (Stutter \/ LedgerStep) /\ Placed'
  <2>1. /\ UNCHANGED <<cursors, settled>>
        /\ \A s \in RoomIDs : messages'[s] = IF s = r THEN <<>> ELSE messages[s]
        /\ messages \in [RoomIDs -> Seq(Message)]
    BY <1>4, <1>t DEF DeleteRoom, TypeOK
  <2> QED BY <1>t, <2>1, DropLog DEF LedgerStep
<1>5. ASSUME UNCHANGED <<messages, cursors>>
      PROVE  (Stutter \/ LedgerStep) /\ Placed'
  BY <1>t, <1>1, <1>5, SameLog DEF Stutter
<1>6. \/ AppendMessage(g) \/ \E r \in RoomIDs : DeleteRoom(g, r)
      \/ UNCHANGED <<messages, cursors>>
  BY DEF Post, Send, JoinRoom, LeaveRoom, Announce, CreateRoom, OpenDM, Attend,
         AllocateID, DropEvent, Notify
<1> QED BY <1>2, <1>3, <1>4, <1>5, <1>6

LEMMA StopStep ==
  ASSUME LedgerInv, NEW gone \in RoomIDs \cup {Everywhere}, Stop(gone)
  PROVE  (Stutter \/ LedgerStep) /\ Placed' /\ AcksSettled'
<1> USE DEF store, history
<1>t. TypeOK /\ Placed
  BY DEF LedgerInv, IDInv, TypeInv
<1>1. AcksSettled'
  <2>1. \A g \in Listeners : waiting'[g].pc = "down"
    BY DEF Stop, NoWait
  <2> QED BY <2>1 DEF AcksSettled
<1>2. /\ UNCHANGED <<cursors, settled>>
      /\ messages' = [r \in RoomIDs |-> IF r = gone THEN <<>> ELSE messages[r]]
      /\ messages \in [RoomIDs -> Seq(Message)]
  BY <1>t DEF Stop, TypeOK
<1>3. CASE gone \in RoomIDs
  BY <1>1, <1>2, <1>3, <1>t, DropLog DEF LedgerStep
<1>4. CASE gone \notin RoomIDs
  <2>1. messages' = messages
    BY <1>2, <1>4
  <2> QED BY <1>1, <1>2, <1>t, <2>1, SameLog DEF Stutter
<1> QED BY <1>3, <1>4

LEMMA LedgerNext == LedgerInv /\ [Next]_vars => LedgerInv' /\ (Stutter \/ LedgerStep)
<1> SUFFICES ASSUME LedgerInv, [Next]_vars PROVE LedgerInv' /\ (Stutter \/ LedgerStep)
  OBVIOUS
<1>1. IDInv'
  BY IDNext DEF LedgerInv
<1>2. CASE UNCHANGED vars
  <2>1. UNCHANGED <<messages, cursors, settled, waiting>>
    BY <1>2 DEF vars, store, history
  <2>2. AcksSettled'
    BY <2>1 DEF LedgerInv, AcksSettled
  <2> QED BY <1>1, <2>1, <2>2, SameLog DEF LedgerInv, Stutter
<1>3. CASE Start
  <2>1. AcksSettled'
    <3>1. \A g \in Listeners : waiting'[g].pc = "idle"
      BY <1>3 DEF Start, NoWait
    <3> QED BY <3>1 DEF AcksSettled
  <2> QED BY <1>1, <1>3, <2>1, StartStep DEF LedgerInv, LedgerStep
<1> QED BY <1>1, <1>2, <1>3, PostStep, ListenStep, StopStep DEF Next, LedgerInv

\* For any number of agents, rooms, handlers and restarts, reading is what ReadLedger
\* says: ids of the log are distinct, a cursor never moves back, and it moves only to
\* messages handed to its agent, posted by it, or skipped at its request
\* (store_messages.go:819).
THEOREM ReadingIsALedger == Spec => LedgerSpec
<1>1. Init => LedgerInv /\ Ledger!LedgerInit
  <2> SUFFICES ASSUME Init PROVE LedgerInv /\ Ledger!LedgerInit
    OBVIOUS
  <2>1. IDInv
    BY IDInit
  <2>2. Placed
    BY DEF Init, Placed, Stored, Elements
  <2>3. AcksSettled
    BY DEF Init, AcksSettled, NoWait
  <2>4. \A m, n \in Log : m.id = n.id => m = n
    BY <2>1 DEF IDInv, UniqueIDs, Log, Stored, Elements
  <2>5. /\ cursors = [a \in Agents |-> [r \in RoomIDs |-> Unset]]
        /\ settled = [a \in Agents |-> {}]
    BY DEF Init
  <2> QED BY <2>1, <2>2, <2>3, <2>4, <2>5 DEF LedgerInv, Ledger!LedgerInit, Log
<1>2. LedgerInv /\ [Next]_vars => [Ledger!Next]_(Ledger!ledger)
  <2> SUFFICES ASSUME LedgerInv, [Next]_vars, Ledger!ledger' # Ledger!ledger PROVE Ledger!Next
    OBVIOUS
  <2>1. ~Stutter
    BY SameLog DEF Stutter, Ledger!ledger, Log
  <2>2. LedgerStep
    BY <2>1, LedgerNext
  <2> QED BY <2>2 DEF LedgerStep, Accounts, Ledger!Next
<1> QED BY <1>1, <1>2, LedgerNext, PTL DEF Spec, LedgerSpec, Ledger!Spec
=============================================================================
