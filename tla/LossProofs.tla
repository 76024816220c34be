----------------------------- MODULE LossProofs -----------------------------
(***************************************************************************)
(* No message is lost but through the races: what keeps a cursor of        *)
(* Delivery from passing a message that was not handed to its agent, in    *)
(* every request, on every channel and across restarts.                    *)
(* And none is handed over twice: what keeps a wait from starting behind   *)
(* a message that was.                                                     *)
(***************************************************************************)
EXTENDS DeliveryProofs

\* Where a cursor may stand whatever is stored from now on: an id up to there that is
\* still to be stored is one that meets a race.  It was given out by a process that
\* stopped, or is stored after a higher one.
Clear ==
  {n \in Int :
     /\ (nextID + 1)..n \subseteq exposed
     /\ \A p \in Posters : Holding(p) /\ posting[p].id = nextID /\ nextID <= n => nextID \in exposed}

\* Where a's cursor in r may stand.
Known(a) == settled[a] \cup exposed
Passable(a, r) ==
  {n \in Clear : \A m \in Stored(r) : m.from # a /\ m.id <= n => m.id \in Known(a)}
CursorsPass == \A a \in Agents, r \in RoomIDs : cursors[a][r] \in Passable(a, r)

\* What a request knows: where an answer moves the cursors, where a room wait reads
\* from, that it misses nothing stored where it looks, and in which order its channel
\* brings what it will hear.
AcksPass(g) ==
  \A a \in Agents, r \in RoomIDs :
    waiting[g].pc = "advance" /\ waiting[g].agent = a =>
      \A ack \in waiting[g].acks : ack[1] = r => ack[2] \in Passable(a, r)
SincePasses(g) ==
  \A a \in Agents, r \in RoomIDs :
    waiting[g].pc \in {"scan", "subscribe", "listen"} /\ waiting[g].agent = a /\ waiting[g].room = r =>
      waiting[g].since \in Passable(a, r)

Watches(g) == IF waiting[g].room = Everywhere /\ waiting[g].explicit THEN {} ELSE Scanned(g)
Heard(g) == IF waiting[g].pc = "listen" THEN Elements(chan[g]) ELSE {}
Notifying(p) == posting[p].pc = "notify"
Coming == {InHand(p) : p \in {p \in Posters : Notifying(p)}}
HearsAll(g) ==
  \A a \in Agents, r \in RoomIDs :
    waiting[g].pc \in {"subscribe", "listen"} /\ waiting[g].agent = a /\ r \in Watches(g) =>
      \A m \in Stored(r) : m.from = a \/ m.id \in Known(a) \/ m \in Heard(g) \cup Coming

InOrder(m, n) == m.room = n.room /\ n.id < m.id => n.id \in exposed
Arrivals(g) ==
  waiting[g].pc = "listen" =>
    \A i \in DOMAIN chan[g] :
      /\ chan[g][i].id \in Clear /\ chan[g][i].id <= nextID
      /\ waiting[g].room \in {chan[g][i].room, Everywhere}
      /\ \A j \in DOMAIN chan[g] : i < j => InOrder(chan[g][i], chan[g][j])
      /\ \A m \in Coming : InOrder(chan[g][i], m)

Waits(g) == AcksPass(g) /\ SincePasses(g) /\ HearsAll(g) /\ Arrivals(g)

\* What posters know: an id stored and not notified yet is in use.
Departures ==
  /\ nextID > 0
  /\ \A p \in Posters : Notifying(p) => posting[p].id \in Clear /\ posting[p].id <= nextID

\* A room that does not exist has no members.
Housed == \A r \in RoomIDs \ rooms : members[r] = {}

LossInv == CursorsPass /\ Departures /\ Housed /\ \A g \in Listeners : Waits(g)

-----------------------------------------------------------------------------
(* Where cursors may stand.                                                *)

\* What the proofs so far say of a stored message.
LEMMA StoredFacts ==
  ASSUME LedgerInv, NEW r \in RoomIDs, NEW m \in Stored(r)
  PROVE  /\ m \in Message /\ m.id \in Nat /\ m.id <= nextID /\ m.room = r
         /\ \A p \in Posters : Holding(p) => posting[p].id # m.id
<1>1. TypeOK /\ Placed /\ FreshIDs BY DEF LedgerInv, IDInv, TypeInv
<1>2. m \in Message BY <1>1, StoredType DEF TypeOK
<1> QED BY <1>1, <1>2 DEF Placed, FreshIDs, Stored, Elements, Message

LEMMA HeadStored ==
  ASSUME TypeOK, NEW r \in RoomIDs
  PROVE  RoomHead(r) = 0 \/ RoomHead(r) \in IDs(Stored(r))
<1>1. messages[r] \in Seq(Message) BY DEF TypeOK
<1>2. CASE messages[r] = <<>> BY <1>2 DEF RoomHead
<1>3. CASE messages[r] # <<>>
  <2>1. Len(messages[r]) \in DOMAIN messages[r] BY <1>1, <1>3, EmptySeq, LenProperties
  <2> QED BY <1>3, <2>1 DEF RoomHead, IDs, Stored, Elements
<1> QED BY <1>2, <1>3

LEMMA ClearBelow ==
  ASSUME TypeOK, NEW n \in Clear, NEW k \in Int, k <= n
  PROVE  k \in Clear
<1>1. nextID \in Nat /\ n \in Int BY DEF TypeOK, Clear
<1>2. (nextID + 1)..k \subseteq (nextID + 1)..n BY <1>1
<1>3. nextID <= k => nextID <= n BY <1>1
<1> QED BY <1>2, <1>3 DEF Clear

\* An id in use that nobody is about to store.
LEMMA UsedClear ==
  ASSUME TypeOK, NEW n \in Int, n <= nextID, \A p \in Posters : Holding(p) => posting[p].id # n
  PROVE  n \in Clear
<1>1. nextID \in Nat BY DEF TypeOK
<1>2. (nextID + 1)..n = {} BY <1>1
<1>3. nextID <= n => nextID = n BY <1>1
<1> QED BY <1>2, <1>3 DEF Clear

LEMMA StoredClear ==
  ASSUME LedgerInv, LossInv, NEW r \in RoomIDs
  PROVE  /\ 0 \in Clear /\ \A i \in IDs(Stored(r)) : i \in Clear
         /\ RoomHead(r) \in Clear /\ FirstCursor(r) \in Clear
<1>t. TypeOK /\ nextID \in Nat BY DEF LedgerInv, IDInv, TypeInv, TypeOK
<1>1. 0 \in Clear
  <2>1. nextID > 0 BY DEF LossInv, Departures
  <2>2. (nextID + 1)..0 = {} /\ ~(nextID <= 0) BY <1>t, <2>1
  <2> QED BY <2>2 DEF Clear
<1>2. \A i \in IDs(Stored(r)) : i \in Clear
  BY <1>t, StoredFacts, UsedClear DEF IDs
<1>3. RoomHead(r) \in Clear BY <1>t, <1>1, <1>2, HeadStored
<1>4. FirstCursor(r) \in Clear
  <2>1. RoomHead(r) \in Nat /\ RecentWindow \in Nat BY <1>t, StoredType, DeliveryAssumption DEF TypeOK
  <2>2. FirstCursor(r) = 0 \/ (FirstCursor(r) \in Int /\ FirstCursor(r) <= RoomHead(r))
    BY <2>1 DEF FirstCursor
  <2> QED BY <1>t, <1>1, <1>3, <2>2, ClearBelow
<1> QED BY <1>1, <1>2, <1>3, <1>4

-----------------------------------------------------------------------------
(* What every step does: cursors may stand where they might before.        *)

Grows ==
  /\ Clear \subseteq Clear' /\ \A a \in Agents : Known(a) \subseteq Known(a)'
  /\ \A r \in RoomIDs : \A m \in Stored(r)' \ Stored(r) : \A n \in Clear :
       m.id <= n => m.id \in exposed'

LEMMA PassableGrows ==
  ASSUME Grows, NEW a \in Agents, NEW r \in RoomIDs
  PROVE  Passable(a, r) \subseteq Passable(a, r)'
BY DEF Grows, Passable, Known

\* A step that gives out no id.
LEMMA ClearGrows ==
  ASSUME nextID' = nextID, exposed \subseteq exposed',
         \A p \in Posters : Holding(p)' => Holding(p) /\ posting'[p].id = posting[p].id
  PROVE  Clear \subseteq Clear'
BY DEF Clear

LEMMA QuietGrows ==
  ASSUME nextID' = nextID, exposed \subseteq exposed', \A a \in Agents : settled[a] \subseteq settled'[a],
         \A p \in Posters : Holding(p)' => Holding(p) /\ posting'[p].id = posting[p].id,
         \A r \in RoomIDs : Stored(r)' \subseteq Stored(r)
  PROVE  Grows
BY ClearGrows DEF Grows, Known

\* Cursors and requests that a step leaves alone.
LEMMA CursorsStay ==
  ASSUME Grows, CursorsPass, cursors' = cursors
  PROVE  CursorsPass'
BY PassableGrows DEF CursorsPass

LEMMA PositionsStay ==
  ASSUME Grows, NEW g \in Listeners, waiting'[g] = waiting[g], AcksPass(g), SincePasses(g)
  PROVE  AcksPass(g)' /\ SincePasses(g)'
BY PassableGrows DEF AcksPass, SincePasses

\* A request that listens to nothing.
LEMMA Inattentive ==
  ASSUME NEW g \in Listeners, waiting'[g].pc \notin {"subscribe", "listen"}
  PROVE  HearsAll(g)' /\ Arrivals(g)'
BY DEF HearsAll, Arrivals

LEMMA Resting ==
  ASSUME NEW g \in Listeners, waiting'[g].pc \in {"idle", "down"}
  PROVE  Waits(g)'
BY Inattentive DEF Waits, AcksPass, SincePasses

\* Stop and start.
LEMMA LossStop ==
  ASSUME LedgerInv, LossInv, NEW gone \in RoomIDs \cup {Everywhere}, Stop(gone)
  PROVE  LossInv'
<1> USE DEF store, history
<1>1. /\ UNCHANGED <<rooms, members, nextID, cursors, settled, exposed>>
      /\ \A p \in Posters : posting'[p].pc = "down"
      /\ \A g \in Listeners : waiting'[g].pc = "down"
      /\ \A r \in RoomIDs : messages'[r] = IF r = gone THEN <<>> ELSE messages[r]
  BY DEF Stop, NoPost, NoWait
<1>2. \A p \in Posters : ~Holding(p)' /\ ~Notifying(p)' BY <1>1 DEF Holding, Notifying
<1>3. \A r \in RoomIDs : Stored(r)' \subseteq Stored(r) BY <1>1, EmptySeq DEF Stored, Elements
<1>4. Grows BY <1>1, <1>2, <1>3, QuietGrows
<1>5. CursorsPass' BY <1>1, <1>4, CursorsStay DEF LossInv
<1>6. Departures' /\ Housed' BY <1>1, <1>2 DEF LossInv, Departures, Housed
<1>7. ASSUME NEW g \in Listeners PROVE Waits(g)'
  <2>1. waiting'[g].pc \in {"idle", "down"} BY <1>1
  <2> QED BY <2>1, Resting
<1> QED BY <1>5, <1>6, <1>7 DEF LossInv

LEMMA LossStart ==
  ASSUME LedgerInv, LossInv, Start
  PROVE  LossInv'
<1>t. TypeOK /\ nextID \in Nat BY DEF LedgerInv, IDInv, TypeInv, TypeOK
<1>s. PICK n \in Nat, new \in Message :
        /\ new.id = n + 1 /\ nextID' = n + 1 /\ exposed' = exposed \cup (n + 1)..nextID
        /\ \A r \in RoomIDs :
             Stored(r)' = IF r = new.room THEN Stored(r) \cup {new} ELSE Stored(r)
  BY StartStored
<1>1. /\ nextID' = n + 1 /\ exposed' = exposed \cup (n + 1)..nextID
      /\ \A r \in RoomIDs : \A m \in Stored(r)' \ Stored(r) : m.id = n + 1
  BY <1>s
<1>2. /\ UNCHANGED <<members, cursors, settled>> /\ rooms \subseteq rooms'
      /\ \A p \in Posters : posting'[p].pc = "idle"
      /\ \A g \in Listeners : waiting'[g].pc = "idle"
  BY DEF Start, NoPost, NoWait
<1>3. \A p \in Posters : ~Holding(p)' /\ ~Notifying(p)' BY <1>2 DEF Holding, Notifying
<1>4. Grows
  <2>1. ASSUME NEW k \in Clear, NEW i \in (n + 1)..k PROVE i \in exposed'
    <3>1. k \in Int /\ (nextID + 1)..k \subseteq exposed BY DEF Clear
    <3>2. i \in (n + 1)..nextID \/ i \in (nextID + 1)..k BY <1>t, <3>1
    <3> QED BY <1>1, <3>1, <3>2
  <2>2. Clear \subseteq Clear'
    <3> SUFFICES ASSUME NEW k \in Clear PROVE k \in Clear' OBVIOUS
    <3>1. k \in Int BY DEF Clear
    <3>2. (n + 2)..k \subseteq (n + 1)..k BY <3>1
    <3>3. (nextID' + 1)..k \subseteq exposed' BY <1>1, <2>1, <3>2
    <3> QED BY <1>3, <3>1, <3>3 DEF Clear
  <2>3. \A r \in RoomIDs : \A m \in Stored(r)' \ Stored(r) : \A k \in Clear : m.id <= k => m.id \in exposed'
    BY <1>1, <2>1 DEF Clear
  <2> QED BY <1>1, <1>2, <2>2, <2>3 DEF Grows, Known
<1>5. CursorsPass' BY <1>2, <1>4, CursorsStay DEF LossInv
<1>6. Departures' /\ Housed' BY <1>1, <1>2, <1>3 DEF LossInv, Departures, Housed
<1>7. ASSUME NEW g \in Listeners PROVE Waits(g)'
  <2>1. waiting'[g].pc \in {"idle", "down"} BY <1>2
  <2> QED BY <2>1, Resting
<1> QED BY <1>5, <1>6, <1>7 DEF LossInv

-----------------------------------------------------------------------------
(* Listening.                                                              *)

\* What no listener changes, and what it only adds to.
Listens == /\ UNCHANGED <<rooms, members, messages, nextID, posting>> /\ exposed \subseteq exposed'
           /\ \A a \in Agents : settled[a] \subseteq settled'[a]

LEMMA ListenGrows ==
  ASSUME Listens
  PROVE  /\ Grows /\ Coming' = Coming /\ Clear \subseteq Clear'
         /\ \A r \in RoomIDs : Stored(r)' = Stored(r) /\ RoomHead(r)' = RoomHead(r)
         /\ \A a \in Agents : Known(a) \subseteq Known(a)'
<1>1. \A r \in RoomIDs : Stored(r)' = Stored(r) /\ RoomHead(r)' = RoomHead(r)
  BY DEF Listens, Stored, RoomHead
<1>2. \A p \in Posters : Holding(p)' = Holding(p) /\ posting'[p].id = posting[p].id
  BY DEF Listens, Holding
<1>3. Grows BY <1>1, <1>2, QuietGrows DEF Listens
<1>4. Coming' = Coming BY DEF Listens, Coming, InHand, Notifying
<1> QED BY <1>1, <1>3, <1>4 DEF Grows

LEMMA PlaceKept ==
  ASSUME Listens, NEW h \in Listeners, waiting'[h].room = waiting[h].room,
         waiting'[h].agent = waiting[h].agent, waiting'[h].explicit = waiting[h].explicit
  PROVE  Watches(h)' = Watches(h)
BY DEF Listens, Watches, Scanned, MemberRooms

\* The other requests do not notice.
LEMMA OthersWait ==
  ASSUME Listens, NEW h \in Listeners, waiting'[h] = waiting[h], chan'[h] = chan[h], Waits(h)
  PROVE  Waits(h)'
<1>1. AcksPass(h)' /\ SincePasses(h)' BY ListenGrows, PositionsStay DEF Waits
<1>2. HearsAll(h)'
  <2>1. Watches(h)' = Watches(h) /\ Heard(h)' = Heard(h) BY PlaceKept DEF Heard
  <2> QED BY <2>1, ListenGrows DEF Waits, HearsAll
<1>3. Arrivals(h)'
  BY ListenGrows DEF Waits, Arrivals, InOrder, Listens
<1> QED BY <1>1, <1>2, <1>3 DEF Waits

LEMMA ListenKeeps ==
  ASSUME LossInv, Listens, NEW g \in Listeners,
         \A h \in Listeners \ {g} : waiting'[h] = waiting[h] /\ chan'[h] = chan[h],
         CursorsPass', Waits(g)'
  PROVE  LossInv'
<1>1. Departures' /\ Housed'
  BY ListenGrows DEF LossInv, Departures, Housed, Listens, Notifying
<1>2. ASSUME NEW h \in Listeners PROVE Waits(h)'
  BY OthersWait DEF LossInv
<1> QED BY <1>1, <1>2 DEF LossInv

\* Where a look finds the cursors is where they may stand.
LEMMA LookedPasses ==
  ASSUME LedgerInv, LossInv, Listens, NEW a \in Agents, NEW rs \in SUBSET RoomIDs,
         LeftOut(a, rs) \subseteq settled'[a]
  PROVE  \A r \in rs : CursorOf(a, r) \in Passable(a, r)'
<1> SUFFICES ASSUME NEW r \in rs PROVE CursorOf(a, r) \in Passable(a, r)'
  OBVIOUS
<1>1. CASE cursors[a][r] # Unset
  BY <1>1, ListenGrows, PassableGrows DEF CursorOf, LossInv, CursorsPass
<1>2. CASE cursors[a][r] = Unset
  <2>1. CursorOf(a, r) = FirstCursor(r) BY <1>2 DEF CursorOf
  <2>2. FirstCursor(r) \in Clear' BY StoredClear, ListenGrows
  <2>3. \A m \in Stored(r) : m.id <= FirstCursor(r) => m.id \in settled'[a]
    BY <1>2 DEF LeftOut, UpTo, IDs
  <2> QED BY <2>1, <2>2, <2>3, ListenGrows DEF Passable, Known
<1> QED BY <1>1, <1>2

LEMMA LookPasses ==
  ASSUME LedgerInv, LossInv, Listens, NEW a \in Agents, NEW rs \in SUBSET RoomIDs,
         EnsureCursors(a, rs), LeftOut(a, rs) \subseteq settled'[a]
  PROVE  CursorsPass'
<1>t. TypeOK BY DEF LedgerInv, IDInv, TypeInv
<1>1. \A b \in Agents, r \in RoomIDs :
        cursors'[b][r] = IF b = a /\ r \in rs THEN CursorOf(a, r) ELSE cursors[b][r]
  BY <1>t DEF EnsureCursors, TypeOK
<1>2. ASSUME NEW b \in Agents, NEW r \in RoomIDs PROVE cursors'[b][r] \in Passable(b, r)'
  <2>1. CASE b = a /\ r \in rs
    BY <1>1, <2>1, LookedPasses
  <2>2. CASE ~(b = a /\ r \in rs)
    BY <1>1, <2>2, ListenGrows, PassableGrows DEF LossInv, CursorsPass
  <2> QED BY <2>1, <2>2
<1> QED BY <1>2 DEF CursorsPass

\* One cursor moves.
LEMMA MovePasses ==
  ASSUME TypeOK, LossInv, Listens, NEW a \in Agents, NEW r \in RoomIDs, NEW to,
         cursors' = [cursors EXCEPT ![a][r] = to], to \in Passable(a, r)'
  PROVE  CursorsPass'
<1>1. \A b \in Agents, s \in RoomIDs :
        cursors'[b][s] = IF b = a /\ s = r THEN to ELSE cursors[b][s]
  BY DEF TypeOK
<1> QED BY <1>1, ListenGrows, PassableGrows DEF LossInv, CursorsPass

\* The rooms a request looks at, and from where.
LEMMA SinceKept ==
  ASSUME LedgerInv, LossInv, Listens, NEW g \in Listeners, NEW a \in Agents,
         waiting[g].agent = a, waiting[g].pc \in {"scan", "subscribe", "listen"},
         NEW r \in Watches(g), r \in RoomIDs,
         FollowsCursors(g) => CursorOf(a, r) \in Passable(a, r)'
  PROVE  Since(g, r) \in Passable(a, r)'
<1>1. CASE FollowsCursors(g) BY <1>1 DEF Since
<1>2. CASE ~FollowsCursors(g)
  <2>1. waiting[g].room = r BY <1>2 DEF Watches, Scanned, FollowsCursors
  <2>2. waiting[g].since \in Passable(a, r) BY <2>1 DEF LossInv, Waits, SincePasses
  <2> QED BY <1>2, <2>2, ListenGrows, PassableGrows DEF Since
<1> QED BY <1>1, <1>2

\* Acknowledged are messages of the answer, in their rooms.
LEMMA AcksOf ==
  ASSUME NEW g \in Listeners, NEW batch,
         (waiting[g].pc = "scan" /\ batch = Found(g)) \/ waiting[g].pc = "listen",
         NEW ack \in Acks(g, batch)
  PROVE  \E m \in batch :
           /\ ack[2] = m.id
           /\ \/ FollowsCursors(g) /\ ack[1] = m.room
              \/ waiting[g].room # Everywhere /\ ack[1] = waiting[g].room
<1>1. CASE FollowsCursors(g)
  BY <1>1 DEF Acks
<1>2. CASE ~FollowsCursors(g) /\ waiting[g].room = Everywhere
  BY <1>2 DEF Acks
<1>3. CASE ~FollowsCursors(g) /\ waiting[g].room # Everywhere
  <2>1. ack[1] = waiting[g].room /\ ack[2] \in IF waiting[g].pc = "scan" THEN LastFound(g, waiting[g].room) ELSE IDs(batch)
    BY <1>3 DEF Acks
  <2>2. CASE waiting[g].pc = "scan"
    <3> DEFINE r == waiting[g].room
    <3>1. batch = {m \in Stored(r) : m.id > Since(g, r)}
      BY <1>3, <2>2 DEF Found, Scanned
    <3>2. LastFound(g, r) \subseteq IDs(batch)
      BY <3>1 DEF LastFound, IDs, Stored, Elements
    <3> QED BY <1>3, <2>1, <2>2, <3>2 DEF IDs
  <2>3. CASE waiting[g].pc # "scan"
    BY <1>3, <2>1, <2>3 DEF IDs
  <2> QED BY <2>2, <2>3
<1> QED BY <1>1, <1>2, <1>3

LEMMA AnswerPasses ==
  ASSUME TypeOK, NEW g \in Listeners, NEW a \in Agents, waiting[g].agent = a, NEW batch, Answer(g, batch),
         \A ack \in Acks(g, batch) : \A r \in RoomIDs : ack[1] = r => ack[2] \in Passable(a, r)'
  PROVE  Waits(g)' /\ \A h \in Listeners \ {g} : waiting'[h] = waiting[h]
<1>1. CASE Acks(g, batch) = {}
  <2>1. waiting'[g].pc = "idle" /\ \A h \in Listeners \ {g} : waiting'[h] = waiting[h]
    BY <1>1 DEF Answer, Finish, NoWait, TypeOK
  <2> QED BY <2>1, Resting
<1>2. CASE Acks(g, batch) # {}
  <2> DEFINE acks == Acks(g, batch)
  <2>1. waiting' = [waiting EXCEPT ![g] = [@ EXCEPT !.pc = "advance", !.acks = acks]]
    BY <1>2 DEF Answer
  <2>2. \A ack \in acks : \A r \in RoomIDs : ack[1] = r => ack[2] \in Passable(a, r)'
    OBVIOUS
  <2> HIDE DEF acks
  <2>3. /\ waiting'[g].acks = acks /\ waiting'[g].agent = a /\ waiting'[g].pc = "advance"
        /\ \A h \in Listeners \ {g} : waiting'[h] = waiting[h]
    BY <2>1 DEF TypeOK, WaitingState
  <2>4. AcksPass(g)' BY <2>2, <2>3 DEF AcksPass
  <2>5. SincePasses(g)' BY <2>3 DEF SincePasses
  <2>6. HearsAll(g)' /\ Arrivals(g)' BY <2>3, Inattentive
  <2> QED BY <2>3, <2>4, <2>5, <2>6 DEF Waits
<1> QED BY <1>1, <1>2

\* A first look hands over everything above where it starts.
LEMMA FoundPasses ==
  ASSUME LedgerInv, LossInv, Listens, NEW g \in Listeners, NEW a \in Agents, waiting[g].agent = a,
         NEW r \in RoomIDs, r \in Scanned(g), Since(g, r) \in Passable(a, r)',
         IDs(Found(g)) \subseteq settled'[a], NEW m \in Stored(r)
  PROVE  m.id \in Passable(a, r)'
<1>1. m.id \in Clear' BY StoredClear, ListenGrows DEF IDs
<1>2. ASSUME NEW n \in Stored(r), n.from # a PROVE n.id \in Known(a)'
  <2>1. CASE n.id > Since(g, r)
    BY <2>1 DEF Found, IDs, Known
  <2>2. CASE ~(n.id > Since(g, r))
    <3>1. n.id \in Nat /\ Since(g, r) \in Int BY StoredFacts DEF Passable, Clear
    <3>2. n.id <= Since(g, r) BY <2>2, <3>1
    <3> QED BY <1>2, <3>2, ListenGrows DEF Passable
  <2> QED BY <2>1, <2>2
<1> QED BY <1>1, <1>2, ListenGrows DEF Passable

\* What a channel brings first may move the cursor: what is stored before it was known
\* already, or comes later and out of order.
LEMMA HeardPasses ==
  ASSUME LedgerInv, LossInv, Listens, NEW g \in Listeners, NEW a \in Agents, waiting[g].agent = a,
         waiting[g].pc = "listen", chan[g] # <<>>, NEW m \in Message, m = Arrived(g),
         m.id \in settled'[a], NEW r \in RoomIDs,
         \/ waiting[g].room # Everywhere /\ r = waiting[g].room
         \/ FollowsCursors(g) /\ r = m.room /\ a \in members[r]
  PROVE  m.id \in Passable(a, r)'
<1>t. TypeOK BY DEF LedgerInv, IDInv, TypeInv
<1>1. /\ chan[g] \in Seq(Message) /\ 1 \in DOMAIN chan[g] /\ m = chan[g][1]
      /\ DOMAIN chan[g] = 1..Len(chan[g])
  <2>1. chan[g] \in Seq(Message) /\ DOMAIN chan[g] = 1..Len(chan[g]) /\ Len(chan[g]) \in Nat
    BY <1>t, LenProperties DEF TypeOK
  <2>2. Len(chan[g]) # 0 BY <2>1, EmptySeq
  <2> QED BY <2>1, <2>2 DEF Arrived
<1>2. /\ m.id \in Clear /\ waiting[g].room \in {m.room, Everywhere}
      /\ \A j \in DOMAIN chan[g] : 1 < j => InOrder(m, chan[g][j])
      /\ \A n \in Coming : InOrder(m, n)
  BY <1>1 DEF LossInv, Waits, Arrivals
<1>3. r = m.room BY <1>2
<1>4. r \in Watches(g)
  BY <1>3 DEF Watches, Scanned, MemberRooms, FollowsCursors, LossInv, Housed
<1>5. ASSUME NEW n \in Stored(r), n.from # a, n.id <= m.id PROVE n.id \in Known(a)'
  <2>0. n.id \in Nat /\ m.id \in Nat /\ n.room = r
    BY StoredFacts DEF Message
  <2>1. n.id \in Known(a) \/ n \in Heard(g) \cup Coming
    BY <1>4, <1>5 DEF LossInv, Waits, HearsAll
  <2>2. n.id = m.id => n.id \in Known(a)' BY DEF Known
  <2>3. ASSUME n.id # m.id, n \in Heard(g) \cup Coming PROVE n.id \in exposed
    <3>1. n.id < m.id BY <1>5, <2>0, <2>3
    <3>2. CASE n \in Heard(g)
      <4>1. PICK j \in DOMAIN chan[g] : n = chan[g][j] BY <3>2 DEF Heard, Elements
      <4>2. 1 < j BY <1>1, <2>3, <4>1
      <4> QED BY <1>2, <1>3, <2>0, <3>1, <4>1, <4>2 DEF InOrder
    <3>3. CASE n \in Coming
      BY <1>2, <1>3, <2>0, <3>1, <3>3 DEF InOrder
    <3> QED BY <2>3, <3>2, <3>3
  <2> QED BY <2>1, <2>2, <2>3, ListenGrows DEF Known, Listens
<1> QED BY <1>2, <1>5, ListenGrows DEF Passable

\* A message taken off a channel and known is missed by nobody.
LEMMA TailKept ==
  ASSUME LedgerInv, LossInv, Listens, NEW g \in Listeners, waiting[g].pc = "listen", chan[g] # <<>>,
         waiting'[g] = waiting[g], chan'[g] = Tail(chan[g]),
         \A a \in Agents, r \in RoomIDs : waiting[g].agent = a /\ r \in Watches(g) /\ Arrived(g) \in Stored(r) =>
           Arrived(g).from = a \/ Arrived(g).id \in Known(a)'
  PROVE  Waits(g)'
<1>t. TypeOK BY DEF LedgerInv, IDInv, TypeInv
<1> DEFINE c == chan[g]
<1>1. c \in Seq(Message) /\ c # <<>> /\ DOMAIN c = 1..Len(c) /\ Len(c) \in Nat
  BY <1>t, LenProperties DEF TypeOK
<1>2. /\ DOMAIN Tail(c) = 1..(Len(c) - 1) /\ \A i \in 1..(Len(c) - 1) : Tail(c)[i] = c[i + 1]
      /\ Arrived(g) = c[1]
  BY <1>1, HeadTailProperties, LenProperties DEF Arrived
<1>3. AcksPass(g)' /\ SincePasses(g)' BY ListenGrows, PositionsStay DEF LossInv, Waits
<1>4. HearsAll(g)'
  <2>1. Watches(g)' = Watches(g) BY PlaceKept
  <2>2. \A m \in Heard(g) : m = Arrived(g) \/ m \in Heard(g)'
    <3> SUFFICES ASSUME NEW m \in Heard(g) PROVE m = Arrived(g) \/ m \in Heard(g)' OBVIOUS
    <3>1. PICK i \in DOMAIN c : m = c[i] BY DEF Heard, Elements
    <3>2. CASE i = 1 BY <1>2, <3>1, <3>2
    <3>3. CASE i # 1
      <4>1. i - 1 \in 1..(Len(c) - 1) /\ (i - 1) + 1 = i BY <1>1, <3>1, <3>3
      <4>2. m = Tail(c)[i - 1] /\ i - 1 \in DOMAIN Tail(c) BY <1>2, <3>1, <4>1
      <4> QED BY <4>2 DEF Heard, Elements
    <3> QED BY <3>2, <3>3
  <2> QED BY <2>1, <2>2, ListenGrows DEF LossInv, Waits, HearsAll
<1>5. Arrivals(g)'
  <2>1. \A i \in DOMAIN c :
          /\ c[i].id \in Clear /\ c[i].id <= nextID
          /\ waiting[g].room \in {c[i].room, Everywhere}
          /\ \A j \in DOMAIN c : i < j => InOrder(c[i], c[j])
          /\ \A m \in Coming : InOrder(c[i], m)
    BY DEF LossInv, Waits, Arrivals
  <2>2. \A m, n : InOrder(m, n) => InOrder(m, n)' BY DEF InOrder, Listens
  <2>3. ASSUME NEW i \in DOMAIN Tail(c)
        PROVE  /\ Tail(c)[i].id \in Clear' /\ Tail(c)[i].id <= nextID'
               /\ waiting'[g].room \in {Tail(c)[i].room, Everywhere}
               /\ \A j \in DOMAIN Tail(c) : i < j => InOrder(Tail(c)[i], Tail(c)[j])
               /\ \A m \in Coming : InOrder(Tail(c)[i], m)
    <3>1. i + 1 \in DOMAIN c /\ Tail(c)[i] = c[i + 1] BY <1>1, <1>2
    <3>2. \A j \in DOMAIN Tail(c) : Tail(c)[j] = c[j + 1] /\ j + 1 \in DOMAIN c /\ (i < j => i + 1 < j + 1)
      BY <1>1, <1>2
    <3> QED BY <2>1, <3>1, <3>2, ListenGrows DEF Listens
  <2> HIDE DEF c
  <2>4. chan'[g] = Tail(c) BY DEF c
  <2> QED BY <2>2, <2>3, <2>4, ListenGrows DEF Arrivals, InOrder, Listens
<1> QED BY <1>3, <1>4, <1>5 DEF Waits

LEMMA ListensAlways ==
  ASSUME TypeOK, NEW g \in Listeners, Listen(g)
  PROVE  Listens
<1> USE DEF store, history
<1>1. ASSUME UNCHANGED <<rooms, members, messages, nextID, posting>>, exposed \subseteq exposed',
             settled' = settled \/ \E b, ids : Settle(b, ids)
      PROVE  Listens
  BY <1>1 DEF Listens, Settle, TypeOK
<1>2. ASSUME NEW a \in Readers, NEW n \in 0..nextID, AgentWait(g, a, n) PROVE Listens
  BY <1>1, <1>2 DEF AgentWait
<1>3. ASSUME NEW a \in Readers, NEW n \in 0..nextID, NEW r \in RoomIDs,
             RoomWait(g, a, r, n) \/ MarkRead(g, a, r, n)
      PROVE  Listens
  BY <1>1, <1>3 DEF RoomWait, MarkRead
<1>4. CASE ScanNothing(g) \/ ScanAnswer(g) \/ ScanAnswerFails(g)
  BY <1>1, <1>4 DEF ScanNothing, ScanAnswer, ScanAnswerFails
<1>5. CASE Subscribe(g) \/ GiveUp(g) \/ AdvanceCursor(g)
  BY <1>1, <1>5 DEF Subscribe, GiveUp, AdvanceCursor
<1>6. CASE Ignore(g) \/ PassOwn(g) \/ HandOver(g) \/ HandOverFails(g)
  BY <1>1, <1>6 DEF Receive, Ignore, PassOwn, HandOver, HandOverFails
<1> QED BY <1>2, <1>3, <1>4, <1>5, <1>6 DEF Listen

\* A request that begins.
LEMMA LossBegins ==
  ASSUME LedgerInv, LossInv, NEW g \in Listeners, Listens, NEW a \in Agents, NEW n \in Nat, NEW r \in RoomIDs,
         AgentWait(g, a, n) \/ RoomWait(g, a, r, n) \/ MarkRead(g, a, r, n)
  PROVE  LossInv'
<1> USE DEF store, history
<1>t. TypeOK BY DEF LedgerInv, IDInv, TypeInv
<1>1. CASE AgentWait(g, a, n)
  <2>1. /\ waiting'[g].pc = "scan" /\ waiting'[g].room = Everywhere
        /\ \A h \in Listeners \ {g} : waiting'[h] = waiting[h] /\ chan'[h] = chan[h]
        /\ cursors' = cursors
    BY <1>1, <1>t DEF AgentWait, TypeOK
  <2>2. Waits(g)'
    BY <2>1, Inattentive, DeliveryAssumption DEF Waits, AcksPass, SincePasses
  <2>3. CursorsPass' BY <2>1, ListenGrows, CursorsStay DEF LossInv
  <2> QED BY <2>1, <2>2, <2>3, ListenKeeps
<1>2. CASE RoomWait(g, a, r, n)
  <2> DEFINE rs == IF n > 0 THEN {} ELSE {r}
             ids == IF n > 0 THEN UpTo(r, n) ELSE LeftOut(a, rs)
             since == IF n > 0 THEN n ELSE CursorOf(a, r)
  <2>1. /\ waiting'[g].pc = "scan" /\ waiting'[g].room = r /\ waiting'[g].agent = a
        /\ waiting'[g].since = since
        /\ \A h \in Listeners \ {g} : waiting'[h] = waiting[h] /\ chan'[h] = chan[h]
        /\ EnsureCursors(a, rs) /\ Settle(a, ids)
        /\ n \in {0} \cup IDs(Stored(r))
    BY <1>2, <1>t DEF RoomWait, TypeOK
  <2>2. ids \subseteq settled'[a] BY <2>1, <1>t DEF Settle, TypeOK
  <2>3. rs \in SUBSET RoomIDs /\ LeftOut(a, rs) \subseteq ids BY DEF LeftOut
  <2>4. since \in Passable(a, r)'
    <3>1. CASE n > 0
      <4>1. n \in Clear' BY <2>1, <3>1, StoredClear, ListenGrows
      <4>2. \A m \in Stored(r) : m.id <= n => m.id \in settled'[a]
        BY <2>2, <3>1 DEF UpTo, IDs
      <4> QED BY <3>1, <4>1, <4>2, ListenGrows DEF Passable, Known
    <3>2. CASE ~(n > 0)
      BY <2>2, <2>3, <3>2, LookedPasses
    <3> QED BY <3>1, <3>2
  <2> HIDE DEF rs, ids, since
  <2>5. CursorsPass' BY <2>1, <2>2, <2>3, LookPasses
  <2>6. AcksPass(g)' /\ SincePasses(g)' BY <2>1, <2>4 DEF AcksPass, SincePasses
  <2>7. Waits(g)' BY <2>1, <2>6, Inattentive DEF Waits
  <2> QED BY <2>1, <2>5, <2>7, ListenKeeps
<1>3. CASE MarkRead(g, a, r, n)
  <2> DEFINE to == IF n = 0 THEN RoomHead(r) ELSE n
  <2>1. /\ Settle(a, UpTo(r, to)) /\ cursors' = cursors
        /\ waiting' = [waiting EXCEPT ![g] =
                         [NoWait EXCEPT !.pc = "advance", !.agent = a, !.acks = {<<r, to>>}]]
        /\ chan' = chan
        /\ n \in {0} \cup IDs(Stored(r))
    BY <1>3 DEF MarkRead
  <2>2. to \in Clear' BY <2>1, StoredClear, ListenGrows
  <2>3. UpTo(r, to) \subseteq settled'[a] BY <2>1, <1>t DEF Settle, TypeOK
  <2>4. to \in Passable(a, r)'
    BY <2>2, <2>3, ListenGrows DEF Passable, Known, UpTo, IDs
  <2> HIDE DEF to
  <2>5. /\ waiting'[g].acks = {<<r, to>>} /\ waiting'[g].agent = a /\ waiting'[g].pc = "advance"
        /\ \A h \in Listeners \ {g} : waiting'[h] = waiting[h] /\ chan'[h] = chan[h]
    BY <2>1, <1>t DEF TypeOK, NoWait
  <2>6. AcksPass(g)' BY <2>4, <2>5 DEF AcksPass
  <2>7. SincePasses(g)' BY <2>5 DEF SincePasses
  <2>8. Waits(g)' BY <2>5, <2>6, <2>7, Inattentive DEF Waits
  <2>9. CursorsPass' BY <2>1, ListenGrows, CursorsStay DEF LossInv
  <2> QED BY <2>5, <2>8, <2>9, ListenKeeps
<1> QED BY <1>1, <1>2, <1>3

\* A request that ends, with or without a look at the cursors.
LEMMA LossEnds ==
  ASSUME LedgerInv, LossInv, NEW g \in Listeners, Listens, Finish(g),
         \A h \in Listeners \ {g} : chan'[h] = chan[h], CursorsPass'
  PROVE  LossInv'
<1>t. TypeOK BY DEF LedgerInv, IDInv, TypeInv
<1>1. waiting'[g].pc = "idle" /\ \A h \in Listeners \ {g} : waiting'[h] = waiting[h]
  BY <1>t DEF Finish, NoWait, TypeOK
<1> QED BY <1>1, Resting, ListenKeeps

\* The first look and the subscription.
LEMMA LossScans ==
  ASSUME LedgerInv, LossInv, NEW g \in Listeners, Listens, NEW a \in Agents, waiting[g].agent = a,
         ScanNothing(g) \/ ScanAnswer(g) \/ ScanAnswerFails(g)
  PROVE  LossInv'
<1> USE DEF store, history
<1>t. TypeOK BY DEF LedgerInv, IDInv, TypeInv
<1>1. /\ waiting[g].pc = "scan" /\ chan' = chan /\ EnsureCursors(a, FirstLook(g))
      /\ \E ids : Settle(a, LeftOut(a, FirstLook(g)) \cup ids)
      /\ ScanAnswer(g) => Settle(a, LeftOut(a, FirstLook(g)) \cup IDs(Found(g)))
  <2>1. ScanNothing(g) => Settle(a, LeftOut(a, FirstLook(g)) \cup {})
    BY DEF ScanNothing, Settle
  <2>2. ScanAnswerFails(g) => Settle(a, LeftOut(a, FirstLook(g)) \cup {})
    BY DEF ScanAnswerFails, Settle
  <2>3. ScanAnswer(g) => Settle(a, LeftOut(a, FirstLook(g)) \cup IDs(Found(g)))
    BY DEF ScanAnswer
  <2> QED BY <2>1, <2>2, <2>3 DEF ScanNothing, ScanAnswer, ScanAnswerFails
<1>2. FirstLook(g) \in SUBSET RoomIDs /\ Scanned(g) \in SUBSET RoomIDs BY <1>t, ScanType
<1>3. LeftOut(a, FirstLook(g)) \subseteq settled'[a] BY <1>1, <1>t DEF Settle, TypeOK
<1>4. CursorsPass' BY <1>1, <1>2, <1>3, LookPasses
<1>5. \A r \in Watches(g) : r \in Scanned(g) /\ r \in RoomIDs /\ Since(g, r) \in Passable(a, r)'
  <2>1. \A r \in Scanned(g) : FollowsCursors(g) => CursorOf(a, r) \in Passable(a, r)'
    BY <1>2, <1>3, LookedPasses DEF FirstLook
  <2>2. Watches(g) \subseteq Scanned(g) BY DEF Watches
  <2> QED BY <1>1, <1>2, <2>1, <2>2, SinceKept
<1>6. CASE ScanAnswerFails(g)
  BY <1>1, <1>4, <1>6, LossEnds DEF ScanAnswerFails
<1>7. CASE ScanAnswer(g)
  <2>1. IDs(Found(g)) \subseteq settled'[a] BY <1>1, <1>7, <1>t DEF Settle, TypeOK
  <2>2. ASSUME NEW ack \in Acks(g, Found(g)), NEW r \in RoomIDs, ack[1] = r
        PROVE  ack[2] \in Passable(a, r)'
    <3>1. PICK m \in Found(g) :
            /\ ack[2] = m.id
            /\ \/ FollowsCursors(g) /\ ack[1] = m.room
               \/ waiting[g].room # Everywhere /\ ack[1] = waiting[g].room
      BY <1>1, AcksOf
    <3>2. PICK s \in Scanned(g) : m \in Stored(s) BY DEF Found
    <3>3. m.room = s BY <1>2, <3>2, StoredFacts
    <3>4. r = s /\ r \in Watches(g) BY <2>2, <3>1, <3>2, <3>3 DEF Watches, Scanned, FollowsCursors
    <3> QED BY <1>5, <2>1, <3>1, <3>2, <3>4, FoundPasses
  <2>3. Answer(g, Found(g)) BY <1>7 DEF ScanAnswer
  <2>4. Waits(g)' /\ \A h \in Listeners \ {g} : waiting'[h] = waiting[h]
    BY <1>t, <2>2, <2>3, AnswerPasses
  <2> QED BY <1>1, <1>4, <2>4, ListenKeeps
<1>8. CASE ScanNothing(g)
  <2>1. /\ waiting'[g] = [waiting[g] EXCEPT !.pc = "subscribe"] /\ Found(g) = {}
        /\ \A h \in Listeners \ {g} : waiting'[h] = waiting[h]
    BY <1>8, <1>t DEF ScanNothing, TypeOK
  <2>2. /\ waiting'[g].pc = "subscribe" /\ waiting'[g].room = waiting[g].room
        /\ waiting'[g].agent = waiting[g].agent /\ waiting'[g].since = waiting[g].since
        /\ waiting'[g].explicit = waiting[g].explicit
    BY <2>1, <1>t DEF TypeOK, WaitingState
  <2>3. AcksPass(g)' BY <2>2 DEF AcksPass
  <2>4. SincePasses(g)'
    BY <1>1, <2>2, ListenGrows, PassableGrows DEF SincePasses, LossInv, Waits
  <2>5. HearsAll(g)'
    <3>1. Watches(g)' = Watches(g) BY <2>2, PlaceKept
    <3>2. ASSUME NEW r \in Watches(g), NEW m \in Stored(r), m.from # a PROVE m.id \in Known(a)'
      <4>1. r \in Scanned(g) /\ r \in RoomIDs /\ Since(g, r) \in Passable(a, r)' BY <1>5
      <4>2. ~(m.id > Since(g, r)) BY <2>1, <4>1 DEF Found
      <4>3. m.id \in Nat /\ Since(g, r) \in Int BY <4>1, StoredFacts DEF Passable, Clear
      <4>4. m.id <= Since(g, r) BY <4>2, <4>3
      <4> QED BY <3>2, <4>1, <4>4, ListenGrows DEF Passable
    <3> QED BY <2>2, <3>1, <3>2, ListenGrows DEF HearsAll
  <2>6. Arrivals(g)' BY <2>2 DEF Arrivals
  <2>7. Waits(g)' BY <2>3, <2>4, <2>5, <2>6 DEF Waits
  <2> QED BY <1>1, <1>4, <2>1, <2>7, ListenKeeps
<1> QED BY <1>6, <1>7, <1>8

LEMMA LossSubscribes ==
  ASSUME LedgerInv, LossInv, NEW g \in Listeners, Listens, Subscribe(g)
  PROVE  LossInv'
<1> USE DEF store, history
<1>t. TypeOK BY DEF LedgerInv, IDInv, TypeInv
<1>1. /\ waiting'[g] = [waiting[g] EXCEPT !.pc = "listen"] /\ waiting[g].pc = "subscribe"
      /\ \A h \in Listeners \ {g} : waiting'[h] = waiting[h] /\ chan'[h] = chan[h]
      /\ chan'[g] = <<>> /\ cursors' = cursors
  BY <1>t DEF Subscribe, TypeOK
<1>2. /\ waiting'[g].pc = "listen" /\ waiting'[g].room = waiting[g].room
      /\ waiting'[g].agent = waiting[g].agent /\ waiting'[g].since = waiting[g].since
      /\ waiting'[g].explicit = waiting[g].explicit
  BY <1>1, <1>t DEF TypeOK, WaitingState
<1>3. AcksPass(g)' BY <1>2 DEF AcksPass
<1>4. SincePasses(g)'
  BY <1>1, <1>2, ListenGrows, PassableGrows DEF SincePasses, LossInv, Waits
<1>5. HearsAll(g)'
  <2>1. Watches(g)' = Watches(g) BY <1>2, PlaceKept
  <2>2. Heard(g) = {} BY <1>1 DEF Heard
  <2> QED BY <1>1, <1>2, <2>1, <2>2, ListenGrows DEF HearsAll, LossInv, Waits
<1>6. Arrivals(g)' BY <1>1, EmptySeq DEF Arrivals
<1>7. CursorsPass' BY <1>1, ListenGrows, CursorsStay DEF LossInv
<1> QED BY <1>1, <1>3, <1>4, <1>5, <1>6, <1>7, ListenKeeps DEF Waits

\* The select loop.
LEMMA LossHears ==
  ASSUME LedgerInv, LossInv, NEW g \in Listeners, Listens, NEW a \in Agents, waiting[g].agent = a,
         Ignore(g) \/ PassOwn(g) \/ HandOver(g) \/ HandOverFails(g)
  PROVE  LossInv'
<1> USE DEF store, history
<1>t. TypeOK /\ TypeInv BY DEF LedgerInv, IDInv, TypeInv
<1>1. /\ waiting[g].pc = "listen" /\ chan[g] # <<>>
      /\ \E ids : Settle(a, LeftOut(a, Looked(g)) \cup ids)
      /\ PassOwn(g) \/ HandOver(g) => Settle(a, LeftOut(a, Looked(g)) \cup {Arrived(g).id})
  <2>1. Ignore(g) => Settle(a, LeftOut(a, Looked(g)) \cup {})
    BY DEF Ignore, Settle
  <2>2. HandOverFails(g) => Settle(a, LeftOut(a, Looked(g)) \cup {})
    BY DEF HandOverFails, Settle
  <2>3. PassOwn(g) \/ HandOver(g) => Settle(a, LeftOut(a, Looked(g)) \cup {Arrived(g).id})
    BY DEF PassOwn, HandOver
  <2>4. waiting[g].pc = "listen" /\ chan[g] # <<>>
    BY DEF Ignore, PassOwn, HandOver, HandOverFails, Receive
  <2> QED BY <2>1, <2>2, <2>3, <2>4
<1> DEFINE m == Arrived(g)
<1>2. /\ m \in Message /\ m.id \in Nat /\ m.room \in RoomIDs /\ Looked(g) \in SUBSET RoomIDs
      /\ chan[g] \in Seq(Message)
  BY <1>1, <1>t, ArrivedType DEF TypeOK
<1>3. LeftOut(a, Looked(g)) \subseteq settled'[a] BY <1>1, <1>t DEF Settle, TypeOK
<1>4. \A r \in Looked(g) : CursorOf(a, r) \in Passable(a, r)' BY <1>2, <1>3, LookedPasses
<1>5. EnsureCursors(a, Looked(g)) => CursorsPass' BY <1>2, <1>3, LookPasses
<1>6. PassOwn(g) \/ HandOver(g) => m.id \in settled'[a] BY <1>1, <1>t DEF Settle, TypeOK
<1>7. ASSUME PassOwn(g) \/ HandOver(g), NEW ack \in Acks(g, {m}), NEW r \in RoomIDs, ack[1] = r
      PROVE  ack[2] = m.id /\ ack[2] \in Passable(a, r)'
  <2>1. /\ ack[2] = m.id
        /\ \/ FollowsCursors(g) /\ ack[1] = m.room
           \/ waiting[g].room # Everywhere /\ ack[1] = waiting[g].room
    BY <1>1, AcksOf
  <2>2. ForMember(g) BY <1>7 DEF PassOwn, HandOver, Wanted
  <2>3. \/ waiting[g].room # Everywhere /\ r = waiting[g].room
        \/ FollowsCursors(g) /\ r = m.room /\ a \in members[r]
    BY <1>7, <2>1, <2>2 DEF ForMember, FollowsCursors
  <2>4. m.id \in settled'[a] BY <1>6, <1>7
  <2> HIDE DEF m
  <2>5. m.id \in Passable(a, r)' BY <1>1, <1>2, <2>3, <2>4, HeardPasses DEF m
  <2> QED BY <2>1, <2>5
<1>8. CASE Ignore(g)
  <2>1. /\ waiting' = waiting /\ chan'[g] = Tail(chan[g]) /\ EnsureCursors(a, Looked(g))
        /\ \A h \in Listeners \ {g} : chan'[h] = chan[h]
        /\ ~Wanted(g) /\ (~ForMember(g) => m.id \in exposed')
    BY <1>8, <1>t DEF Ignore, TypeOK
  <2>2. ASSUME NEW r \in Watches(g), r \in RoomIDs, m \in Stored(r), m.from # a PROVE m.id \in Known(a)'
    <3>1. m.room = r BY <2>2, StoredFacts
    <3>2. CASE ForMember(g)
      <4>1. FollowsCursors(g) => CursorOf(a, r) \in Passable(a, r)' BY <1>4, <3>1, <3>2 DEF Looked
      <4>2. Since(g, r) \in Passable(a, r)' BY <1>1, <2>2, <4>1, SinceKept
      <4>3. ~(m.id > Since(g, r)) BY <2>1, <3>1, <3>2 DEF Wanted
      <4>4. Since(g, r) \in Int BY <4>2 DEF Passable, Clear
      <4>5. m.id <= Since(g, r) BY <1>2, <4>3, <4>4
      <4> QED BY <2>2, <4>2, <4>5, ListenGrows DEF Passable
    <3>3. CASE ~ForMember(g)
      BY <2>1, <3>3 DEF Known
    <3> QED BY <3>2, <3>3
  <2>3. Waits(g)' BY <1>1, <2>1, <2>2, TailKept
  <2> QED BY <1>5, <2>1, <2>3, ListenKeeps
<1>9. CASE PassOwn(g)
  <2> DEFINE cur == IF FollowsCursors(g) THEN CursorOf(a, m.room) ELSE cursors[a][m.room]
             to == Advanced(cur, m.id)
  <2>1. /\ waiting' = waiting /\ chan'[g] = Tail(chan[g])
        /\ \A h \in Listeners \ {g} : chan'[h] = chan[h]
        /\ m.from = a /\ ForMember(g)
        /\ cursors' = IF Acks(g, {m}) = {} THEN cursors ELSE [cursors EXCEPT ![a][m.room] = to]
    BY <1>9, <1>t DEF PassOwn, TypeOK, Own, Wanted
  <2>2. CursorsPass'
    <3>1. CASE Acks(g, {m}) = {}
      BY <2>1, <3>1, ListenGrows, CursorsStay DEF LossInv
    <3>2. CASE Acks(g, {m}) # {}
      <4>1. PICK ack \in Acks(g, {m}) : TRUE BY <3>2
      <4>2. waiting[g].room \in {m.room, Everywhere}
        <5>1. 1 \in DOMAIN chan[g] /\ m = chan[g][1]
          <6>1. DOMAIN chan[g] = 1..Len(chan[g]) /\ Len(chan[g]) \in Nat BY <1>2, LenProperties
          <6>2. Len(chan[g]) # 0 BY <1>1, <1>2, EmptySeq
          <6> QED BY <6>1, <6>2 DEF Arrived
        <5> QED BY <1>1, <5>1 DEF LossInv, Waits, Arrivals
      <4>3. ack[1] = m.room
        <5>1. \/ FollowsCursors(g) /\ ack[1] = m.room
              \/ waiting[g].room # Everywhere /\ ack[1] = waiting[g].room
          BY <1>1, <4>1, AcksOf
        <5> QED BY <4>2, <5>1
      <4>4. PICK r \in RoomIDs : r = m.room BY <1>2
      <4>5. m.id \in Passable(a, r)' BY <1>7, <1>9, <4>1, <4>3, <4>4
      <4>6. cur \in Passable(a, r)'
        <5>1. CASE FollowsCursors(g)
          <6>1. r \in Looked(g) /\ cur = CursorOf(a, r) BY <2>1, <4>4, <5>1 DEF Looked
          <6> QED BY <1>4, <6>1
        <5>2. CASE ~FollowsCursors(g)
          <6>1. cur = cursors[a][r] BY <4>4, <5>2
          <6> QED BY <6>1, ListenGrows, PassableGrows DEF LossInv, CursorsPass
        <5> QED BY <5>1, <5>2
      <4>7. to = cur \/ to = m.id BY DEF Advanced
      <4>8. cursors' = [cursors EXCEPT ![a][r] = to] BY <2>1, <3>2, <4>4
      <4>9. to \in Passable(a, r)' BY <4>5, <4>6, <4>7
      <4> HIDE DEF to, cur
      <4> QED BY <1>t, <4>8, <4>9, MovePasses
    <3> QED BY <3>1, <3>2
  <2>3. Waits(g)' BY <1>1, <2>1, TailKept
  <2> QED BY <2>1, <2>2, <2>3, ListenKeeps
<1>10. CASE HandOver(g)
  <2>1. /\ EnsureCursors(a, Looked(g)) /\ Answer(g, {m})
        /\ \A h \in Listeners \ {g} : chan'[h] = chan[h]
    BY <1>10, <1>t DEF HandOver, TypeOK
  <2>2. Waits(g)' /\ \A h \in Listeners \ {g} : waiting'[h] = waiting[h]
    BY <1>t, <1>7, <1>10, <2>1, AnswerPasses
  <2> QED BY <1>5, <2>1, <2>2, ListenKeeps
<1>11. CASE HandOverFails(g)
  <2>1. /\ EnsureCursors(a, Looked(g)) /\ Finish(g)
        /\ \A h \in Listeners \ {g} : chan'[h] = chan[h]
    BY <1>11, <1>t DEF HandOverFails, TypeOK
  <2> QED BY <1>5, <2>1, LossEnds
<1> QED BY <1>8, <1>9, <1>10, <1>11

LEMMA LossAdvances ==
  ASSUME LedgerInv, LossInv, NEW g \in Listeners, Listens, NEW a \in Agents, waiting[g].agent = a,
         AdvanceCursor(g)
  PROVE  LossInv'
<1> USE DEF store, history
<1>t. TypeOK BY DEF LedgerInv, IDInv, TypeInv
<1>1. PICK ack \in waiting[g].acks :
        /\ waiting[g].pc = "advance"
        /\ cursors' = [cursors EXCEPT ![a][ack[1]] = Advanced(@, ack[2])]
        /\ IF waiting[g].acks \ {ack} = {} THEN Finish(g)
           ELSE waiting' = [waiting EXCEPT ![g].acks = waiting[g].acks \ {ack}]
        /\ chan' = chan
  BY DEF AdvanceCursor
<1>2. waiting[g].acks \in SUBSET (RoomIDs \X Nat) BY <1>t DEF TypeOK, WaitingState
<1>3. PICK r \in RoomIDs : r = ack[1] BY <1>1, <1>2
<1> DEFINE to == Advanced(cursors[a][r], ack[2])
<1>4. to = cursors[a][r] \/ to = ack[2] BY DEF Advanced
<1>5. ack[2] \in Passable(a, r) BY <1>1, <1>3 DEF LossInv, Waits, AcksPass
<1>6. to \in Passable(a, r)'
  BY <1>4, <1>5, ListenGrows, PassableGrows DEF LossInv, CursorsPass
<1>7. cursors' = [cursors EXCEPT ![a][r] = to] BY <1>1, <1>3
<1> HIDE DEF to
<1>8. CursorsPass' BY <1>t, <1>6, <1>7, MovePasses
<1>9. CASE Finish(g) BY <1>1, <1>8, <1>9, LossEnds
<1>10. CASE waiting' = [waiting EXCEPT ![g].acks = waiting[g].acks \ {ack}]
  <2>1. /\ waiting'[g].pc = "advance" /\ waiting'[g].agent = a
        /\ waiting'[g].acks \subseteq waiting[g].acks
        /\ \A h \in Listeners \ {g} : waiting'[h] = waiting[h]
    BY <1>1, <1>10, <1>t DEF TypeOK, WaitingState
  <2>2. AcksPass(g)'
    BY <1>1, <2>1, ListenGrows, PassableGrows DEF LossInv, Waits, AcksPass
  <2>3. SincePasses(g)' BY <2>1 DEF SincePasses
  <2>4. Waits(g)' BY <2>1, <2>2, <2>3, Inattentive DEF Waits
  <2> QED BY <1>1, <1>8, <2>1, <2>4, ListenKeeps
<1> QED BY <1>1, <1>9, <1>10

LEMMA LossListen ==
  ASSUME LedgerInv, LossInv, NEW g \in Listeners, Listen(g)
  PROVE  LossInv'
<1> USE DEF store, history
<1>t. TypeOK /\ Serving /\ nextID \in Nat BY DEF LedgerInv, IDInv, TypeInv, TypeOK
<1>l. Listens BY <1>t, ListensAlways
<1>1. ASSUME NEW a \in Readers, NEW n \in 0..nextID, AgentWait(g, a, n) PROVE LossInv'
  <2>1. a \in Agents /\ n \in Nat /\ SystemRoom \in RoomIDs BY <1>t, DeliveryAssumption
  <2> QED BY <1>1, <1>l, <2>1, LossBegins
<1>2. ASSUME NEW a \in Readers, NEW n \in 0..nextID, NEW r \in RoomIDs,
             RoomWait(g, a, r, n) \/ MarkRead(g, a, r, n)
      PROVE  LossInv'
  <2>1. a \in Agents /\ n \in Nat BY <1>t, DeliveryAssumption
  <2> QED BY <1>2, <1>l, <2>1, LossBegins
<1>3. CASE GiveUp(g)
  <2>1. Finish(g) /\ cursors' = cursors /\ \A h \in Listeners \ {g} : chan'[h] = chan[h]
    BY <1>3, <1>t DEF GiveUp, TypeOK
  <2>2. CursorsPass' BY <1>l, <2>1, ListenGrows, CursorsStay DEF LossInv
  <2> QED BY <1>l, <2>1, <2>2, LossEnds
<1>4. ASSUME ScanNothing(g) \/ ScanAnswer(g) \/ ScanAnswerFails(g) \/ Ignore(g) \/ PassOwn(g)
             \/ HandOver(g) \/ HandOverFails(g) \/ AdvanceCursor(g)
      PROVE  LossInv'
  <2>1. waiting[g].pc \in {"scan", "listen", "advance"}
    BY <1>4 DEF ScanNothing, ScanAnswer, ScanAnswerFails, Ignore, PassOwn, HandOver, HandOverFails,
                Receive, AdvanceCursor
  <2>2. PICK a \in Agents : waiting[g].agent = a BY <1>t, <2>1 DEF Serving
  <2> QED BY <1>4, <1>l, <2>2, LossScans, LossHears, LossAdvances
<1> QED BY <1>l, <1>1, <1>2, <1>3, <1>4, LossSubscribes DEF Listen

-----------------------------------------------------------------------------
(* Posting.                                                                *)

LEMMA PostKeeps ==
  ASSUME LossInv, Grows, UNCHANGED <<waiting, cursors>>, Departures', Housed',
         \A h \in Listeners : HearsAll(h)' /\ Arrivals(h)'
  PROVE  LossInv'
<1>1. CursorsPass' BY CursorsStay DEF LossInv
<1>2. ASSUME NEW h \in Listeners PROVE Waits(h)'
  BY PositionsStay DEF LossInv, Waits
<1> QED BY <1>1, <1>2 DEF LossInv

\* A step that stores and notifies nothing.  An agent-wide wait that gets to see a room
\* in this step missed what the room stores.
LEMMA QuietPost ==
  ASSUME TypeOK, LossInv, Grows, nextID <= nextID', nextID' \in Nat, UNCHANGED <<waiting, cursors, chan>>,
         exposed \subseteq exposed', Coming' = Coming,
         \A p \in Posters : Notifying(p)' => Notifying(p) /\ posting'[p].id = posting[p].id,
         \A r \in RoomIDs : Stored(r)' \subseteq Stored(r),
         Housed',
         \A h \in Listeners, r \in RoomIDs :
           waiting[h].pc \in {"subscribe", "listen"} /\ r \in Watches(h)' =>
             r \in Watches(h) \/ \A m \in Stored(r)' : m.id \in exposed'
  PROVE  LossInv'
<1>t. /\ nextID \in Nat
      /\ \A h \in Listeners : chan[h] \in Seq(Message)
      /\ \A p \in Posters : posting[p].id \in Nat
  BY DEF TypeOK, PostingState
<1>1. Departures'
  <2>1. nextID' > 0 BY <1>t DEF LossInv, Departures
  <2>2. ASSUME NEW p \in Posters, Notifying(p)'
        PROVE  posting'[p].id \in Clear' /\ posting'[p].id <= nextID'
    <3>1. posting'[p].id \in Clear /\ posting'[p].id <= nextID /\ posting'[p].id \in Nat
      BY <1>t, <2>2 DEF LossInv, Departures
    <3> QED BY <1>t, <3>1 DEF Grows
  <2> QED BY <2>1, <2>2 DEF Departures
<1>2. ASSUME NEW h \in Listeners PROVE HearsAll(h)'
  <2>1. Heard(h)' = Heard(h) BY DEF Heard
  <2> QED BY <2>1 DEF LossInv, Waits, HearsAll, Grows, Known
<1>3. ASSUME NEW h \in Listeners PROVE Arrivals(h)'
  <2>1. \A i \in DOMAIN chan[h] : chan[h][i].id \in Nat
    <3>1. \A i \in DOMAIN chan[h] : chan[h][i] \in Message
      BY <1>t, ElementOfSeq, LenProperties
    <3> QED BY <3>1 DEF Message
  <2> QED BY <1>t, <2>1 DEF LossInv, Waits, Arrivals, InOrder, Grows
<1> QED BY <1>1, <1>2, <1>3, PostKeeps

\* Emitting leaves the other posters alone.
LEMMA EmitPasses ==
  ASSUME TypeOK, NEW g \in Posters, posting[g].pc # "notify", NEW box, Emit(g, box)
  PROVE  /\ Coming' = Coming
         /\ \A p \in Posters : Notifying(p)' => Notifying(p) /\ posting'[p].id = posting[p].id
         /\ \A p \in Posters : Holding(p)' => Holding(p) /\ posting'[p].id = posting[p].id
<1>1. posting'[g].pc \notin {"append", "notify"} /\ \A p \in Posters \ {g} : posting'[p] = posting[p]
  BY DEF Emit, TypeOK
<1>2. \A p \in Posters : Notifying(p)' = Notifying(p) BY <1>1 DEF Notifying
<1>3. \A p \in Posters : Notifying(p) => posting'[p] = posting[p] BY <1>1 DEF Notifying
<1>4. \A p \in Posters : Notifying(p) => InHand(p)' = InHand(p) BY <1>3 DEF InHand
<1>5. Coming' = Coming BY <1>2, <1>4 DEF Coming
<1> QED BY <1>1, <1>2, <1>3, <1>5 DEF Holding

\* More members in a room.
LEMMA MoreMembers ==
  ASSUME TypeOK, LossInv, NEW r \in RoomIDs, NEW as \in SUBSET Agents, rooms' = rooms \cup {r},
         members' = [members EXCEPT ![r] = @ \cup as], exposed' = exposed \cup Unlooked(as, r),
         UNCHANGED <<waiting, messages>>
  PROVE  /\ Housed'
         /\ \A h \in Listeners, s \in RoomIDs :
              waiting[h].pc \in {"subscribe", "listen"} /\ s \in Watches(h)' =>
                s \in Watches(h) \/ \A m \in Stored(s)' : m.id \in exposed'
<1>1. /\ members'[r] = members[r] \cup as
      /\ \A s \in RoomIDs \ {r} : members'[s] = members[s]
  BY DEF TypeOK
<1>2. Housed' BY <1>1 DEF LossInv, Housed
<1>3. ASSUME NEW h \in Listeners, NEW s \in RoomIDs,
             waiting[h].pc \in {"subscribe", "listen"}, s \in Watches(h)', s \notin Watches(h)
      PROVE  \A m \in Stored(s)' : m.id \in exposed'
  <2>1. /\ waiting[h].room = Everywhere /\ s \in rooms' /\ waiting[h].agent \in members'[s]
        /\ ~(s \in rooms /\ waiting[h].agent \in members[s])
    BY <1>3 DEF Watches, Scanned, MemberRooms
  <2>2. s = r /\ waiting[h].agent \in as \ members[s]
    BY <1>1, <2>1 DEF LossInv, Housed
  <2>3. Unlooked(as, r) = IDs(Stored(r)) BY <1>3, <2>1, <2>2 DEF Unlooked
  <2> QED BY <2>2, <2>3 DEF IDs, Stored
<1> QED BY <1>2, <1>3

\* Fewer members, fewer messages, or the same.
LEMMA FewerMembers ==
  ASSUME TypeOK, LossInv, NEW r \in RoomIDs, NEW as \in SUBSET Agents,
         rooms' = rooms \/ (as = {} /\ rooms' = rooms \ {r}),
         members' = [members EXCEPT ![r] = as], as \subseteq members[r], UNCHANGED waiting
  PROVE  /\ Housed'
         /\ \A h \in Listeners, s \in RoomIDs : s \in Watches(h)' => s \in Watches(h)
<1>1. /\ members'[r] = as
      /\ \A s \in RoomIDs \ {r} : members'[s] = members[s]
  BY DEF TypeOK
<1>2. Housed' BY <1>1 DEF LossInv, Housed
<1>3. \A h \in Listeners, s \in RoomIDs : s \in Watches(h)' => s \in Watches(h)
  BY <1>1 DEF Watches, Scanned, MemberRooms, TypeOK
<1> QED BY <1>2, <1>3

LEMMA LossAllocates ==
  ASSUME LedgerInv, LossInv, NEW g \in Posters, AllocateID(g)
  PROVE  LossInv'
<1> USE DEF store, history
<1>t. TypeOK /\ nextID \in Nat BY DEF LedgerInv, IDInv, TypeInv, TypeOK
<1>1. /\ posting' = [posting EXCEPT ![g] = [@ EXCEPT !.pc = "append", !.id = nextID + 1]]
      /\ posting[g].pc = "allocate" /\ nextID' = nextID + 1
      /\ UNCHANGED <<rooms, members, messages, cursors, waiting, chan, settled, exposed>>
  BY DEF AllocateID
<1>2. /\ posting'[g].pc = "append" /\ posting'[g].id = nextID + 1
      /\ \A p \in Posters \ {g} : posting'[p] = posting[p]
  BY <1>1, <1>t DEF TypeOK, PostingState
<1>3. \A p \in Posters : Notifying(p)' = Notifying(p) /\ (Notifying(p) => posting'[p] = posting[p])
  BY <1>1, <1>2 DEF Notifying
<1>4. Coming' = Coming
  <2>1. \A p \in Posters : Notifying(p) => InHand(p)' = InHand(p) BY <1>3 DEF InHand
  <2> QED BY <1>3, <2>1 DEF Coming
<1>5. Clear \subseteq Clear'
  <2> SUFFICES ASSUME NEW n \in Clear PROVE n \in Clear' OBVIOUS
  <2>1. n \in Int /\ (nextID + 1)..n \subseteq exposed BY DEF Clear
  <2>2. (nextID' + 1)..n \subseteq exposed' BY <1>t, <1>1, <2>1
  <2>3. nextID' <= n => nextID' \in exposed' BY <1>t, <1>1, <2>1
  <2> QED BY <2>1, <2>2, <2>3 DEF Clear
<1>6. \A r \in RoomIDs : Stored(r)' = Stored(r) BY <1>1 DEF Stored
<1>7. Grows BY <1>1, <1>5, <1>6 DEF Grows, Known
<1>8. Housed' /\ \A h \in Listeners : Watches(h)' = Watches(h)
  BY <1>1 DEF LossInv, Housed, Watches, Scanned, MemberRooms
<1>9. nextID <= nextID' /\ nextID' \in Nat /\ exposed \subseteq exposed'
      /\ UNCHANGED <<waiting, cursors, chan>>
  BY <1>t, <1>1
<1>10. \A p \in Posters : Notifying(p)' => Notifying(p) /\ posting'[p].id = posting[p].id
  BY <1>3
<1>11. \A r \in RoomIDs : Stored(r)' \subseteq Stored(r) BY <1>6
<1>12. \A h \in Listeners, r \in RoomIDs : r \in Watches(h)' => r \in Watches(h)
  BY <1>8
<1> QED BY <1>t, <1>4, <1>7, <1>8, <1>9, <1>10, <1>11, <1>12, QuietPost

\* A poster that emits: its part of the history grows, and nothing is stored.
LEMMA LossEmits ==
  ASSUME LedgerInv, LossInv, NEW g \in Posters, posting[g].pc # "notify", NEW box, Emit(g, box),
         UNCHANGED <<nextID, cursors, waiting, chan, settled>>, exposed \subseteq exposed',
         \A r \in RoomIDs : Stored(r)' \subseteq Stored(r), Housed',
         \A h \in Listeners, r \in RoomIDs :
           waiting[h].pc \in {"subscribe", "listen"} /\ r \in Watches(h)' =>
             r \in Watches(h) \/ \A m \in Stored(r)' : m.id \in exposed'
  PROVE  LossInv'
<1>t. TypeOK /\ nextID \in Nat BY DEF LedgerInv, IDInv, TypeInv, TypeOK
<1>1. /\ Coming' = Coming
      /\ \A p \in Posters : Notifying(p)' => Notifying(p) /\ posting'[p].id = posting[p].id
      /\ \A p \in Posters : Holding(p)' => Holding(p) /\ posting'[p].id = posting[p].id
  BY <1>t, EmitPasses
<1>2. Grows BY <1>1, QuietGrows
<1>3. nextID <= nextID' /\ nextID' \in Nat BY <1>t
<1> QED BY <1>t, <1>1, <1>2, <1>3, QuietPost

LEMMA LossRooms ==
  ASSUME LedgerInv, LossInv, NEW g \in Posters, NEW r \in RoomIDs,
         CreateRoom(g, r) \/ OpenDM(g, r) \/ DeleteRoom(g, r) \/ Announce(g, r)
         \/ \E a \in Agents : Send(g, a, r) \/ JoinRoom(g, a, r) \/ LeaveRoom(g, a, r)
  PROVE  LossInv'
<1> USE DEF store, history
<1>t. TypeOK BY DEF LedgerInv, IDInv, TypeInv
<1>1. CASE CreateRoom(g, r) \/ OpenDM(g, r) \/ \E a \in Agents : JoinRoom(g, a, r)
  <2>1. PICK as \in SUBSET Agents :
          /\ rooms' = rooms \cup {r} /\ exposed' = exposed \cup Unlooked(as, r)
          /\ members' = [members EXCEPT ![r] = @ \cup as]
    <3>1. CASE CreateRoom(g, r)
      <4>1. Unlooked({}, r) = {} BY DEF Unlooked
      <4>2. members' = [members EXCEPT ![r] = @ \cup {}] BY <1>t, <3>1 DEF CreateRoom, TypeOK
      <4>3. rooms' = rooms \cup {r} /\ exposed' = exposed BY <3>1 DEF CreateRoom
      <4> QED BY <4>1, <4>2, <4>3
    <3>2. CASE OpenDM(g, r)
      <4>1. Peers[r] \in SUBSET Agents BY <3>2, DeliveryAssumption DEF OpenDM
      <4> QED BY <3>2, <4>1 DEF OpenDM
    <3>3. ASSUME NEW a \in Agents, JoinRoom(g, a, r)
          PROVE  \E as \in SUBSET Agents :
                   /\ rooms' = rooms \cup {r} /\ exposed' = exposed \cup Unlooked(as, r)
                   /\ members' = [members EXCEPT ![r] = @ \cup as]
      <4>1. {a} \in SUBSET Agents OBVIOUS
      <4> QED BY <3>3, <4>1 DEF JoinRoom, Joins
    <3> QED BY <1>1, <3>1, <3>2, <3>3
  <2>2. /\ UNCHANGED <<messages, nextID, cursors, waiting, chan, settled>>
        /\ posting[g].pc = "idle" /\ \E box : Emit(g, box)
    BY <1>1 DEF CreateRoom, OpenDM, JoinRoom
  <2>3. \A s \in RoomIDs : Stored(s)' = Stored(s) BY <2>2 DEF Stored
  <2> QED BY <1>t, <2>1, <2>2, <2>3, MoreMembers, LossEmits
<1>2. CASE DeleteRoom(g, r) \/ Announce(g, r) \/ \E a \in Agents : Send(g, a, r) \/ LeaveRoom(g, a, r)
  <2>1. PICK as \in SUBSET Agents :
          /\ rooms' = rooms \/ (as = {} /\ rooms' = rooms \ {r})
          /\ members' = [members EXCEPT ![r] = as] /\ as \subseteq members[r]
    <3>1. CASE DeleteRoom(g, r)
      <4>1. {} \in SUBSET Agents /\ {} \subseteq members[r] OBVIOUS
      <4>2. rooms' = rooms \ {r} /\ members' = [members EXCEPT ![r] = {}]
        BY <3>1 DEF DeleteRoom
      <4> QED BY <4>1, <4>2
    <3>2. ASSUME NEW a \in Agents, LeaveRoom(g, a, r)
          PROVE  \E as \in SUBSET Agents :
                   /\ rooms' = rooms /\ members' = [members EXCEPT ![r] = as] /\ as \subseteq members[r]
      <4>1. members[r] \ {a} \in SUBSET Agents BY <1>t DEF TypeOK
      <4> QED BY <3>2, <4>1 DEF LeaveRoom
    <3>3. CASE Announce(g, r) \/ \E a \in Agents : Send(g, a, r)
      <4>1. UNCHANGED <<rooms, members>> BY <3>3 DEF Announce, Send
      <4>2. members[r] \in SUBSET Agents /\ members' = [members EXCEPT ![r] = members[r]]
        BY <1>t, <4>1 DEF TypeOK
      <4> QED BY <4>1, <4>2
    <3> QED BY <1>2, <3>1, <3>2, <3>3
  <2>2. /\ UNCHANGED <<nextID, cursors, waiting, chan, settled, exposed>>
        /\ posting[g].pc = "idle" /\ \E box : Emit(g, box)
        /\ messages' = messages \/ messages' = [messages EXCEPT ![r] = <<>>]
    BY <1>2 DEF DeleteRoom, Announce, Send, LeaveRoom
  <2>3. \A s \in RoomIDs : Stored(s)' \subseteq Stored(s)
    <3> TAKE s \in RoomIDs
    <3>1. messages'[s] = messages[s] \/ messages'[s] = <<>> BY <1>t, <2>2 DEF TypeOK
    <3> QED BY <3>1, EmptySeq DEF Stored, Elements
  <2> QED BY <1>t, <2>1, <2>2, <2>3, FewerMembers, LossEmits
<1> QED BY <1>1, <1>2

\* A needs_attention message joins a human; an event for a room that is gone is dropped.
LEMMA LossAttends ==
  ASSUME LedgerInv, LossInv, NEW g \in Posters, Attend(g) \/ DropEvent(g)
  PROVE  LossInv'
<1> USE DEF store, history
<1>t. TypeOK /\ TypeInv BY DEF LedgerInv, IDInv, TypeInv
<1>1. UNCHANGED <<messages, nextID, cursors, waiting, chan, settled>> /\ posting[g].pc # "notify"
      /\ \E box : Emit(g, box)
  BY DEF Attend, DropEvent, EmitNext
<1>2. \A s \in RoomIDs : Stored(s)' = Stored(s) BY <1>1 DEF Stored
<1>3. CASE UNCHANGED <<rooms, members, exposed>>
  <2>1. Housed' /\ \A h \in Listeners : Watches(h)' = Watches(h)
    BY <1>1, <1>3 DEF LossInv, Housed, Watches, Scanned, MemberRooms
  <2> QED BY <1>1, <1>2, <1>3, <2>1, LossEmits
<1>4. ASSUME NEW r \in RoomIDs, NEW a \in Agents, Joins(a, r) PROVE LossInv'
  <2>1. /\ rooms' = rooms \cup {r} /\ exposed' = exposed \cup Unlooked({a}, r)
        /\ members' = [members EXCEPT ![r] = @ \cup {a}] /\ {a} \in SUBSET Agents
    BY <1>4 DEF Joins
  <2> QED BY <1>t, <1>1, <1>2, <2>1, MoreMembers, LossEmits
<1>5. CASE Attend(g)
  <2> DEFINE m == Head(posting[g].outbox)
  <2>1. m.room \in RoomIDs /\ m.calls \subseteq Agents
    <3>1. posting[g].outbox \in Seq(Emission) /\ posting[g].outbox # <<>>
      BY <1>5, <1>t DEF Attend, TypeInv, TypeOK, PostingState, Loaded
    <3>2. m \in Emission BY <3>1, HeadTailProperties
    <3> QED BY <3>2 DEF Emission
  <2>2. (UNCHANGED <<rooms, members, exposed>>) \/ \E h \in m.calls : Joins(h, m.room)
    BY <1>5 DEF Attend
  <2> QED BY <1>3, <1>4, <2>1, <2>2
<1>6. CASE DropEvent(g)
  BY <1>3, <1>6 DEF DropEvent
<1> QED BY <1>5, <1>6

LEMMA LossAppends ==
  ASSUME LedgerInv, LossInv, NEW g \in Posters, AppendMessage(g)
  PROVE  LossInv'
<1> USE DEF store, history
<1>t. /\ TypeOK /\ FreshIDs /\ nextID \in Nat
      /\ \A h \in Listeners : chan[h] \in Seq(Message)
  BY DEF LedgerInv, IDInv, TypeInv, TypeOK
<1>1. PICK m \in Message : m = InHand(g) BY AppendStored
<1>2. /\ m.id = posting[g].id /\ m.id \in Nat /\ m.room \in RoomIDs
      /\ \A r \in RoomIDs : Stored(r)' = IF r = m.room THEN Stored(r) \cup {m} ELSE Stored(r)
  BY <1>1, AppendStored DEF Message
<1>3. /\ posting[g].pc = "append" /\ posting' = [posting EXCEPT ![g].pc = "notify"]
      /\ exposed' = IF m.id < nextID THEN exposed \cup {m.id} ELSE exposed
      /\ UNCHANGED <<rooms, members, nextID, cursors, waiting, chan, settled>>
  BY <1>1 DEF AppendMessage
<1>4. /\ posting'[g].pc = "notify" /\ posting'[g].id = posting[g].id
      /\ posting'[g].outbox = posting[g].outbox
      /\ \A p \in Posters \ {g} : posting'[p] = posting[p]
  BY <1>3, <1>t DEF TypeOK, PostingState
<1>5. /\ Holding(g) /\ ~Holding(g)' /\ Notifying(g)' /\ ~Notifying(g)
      /\ \A p \in Posters \ {g} : Holding(p)' = Holding(p) /\ Notifying(p)' = Notifying(p)
  BY <1>3, <1>4 DEF Holding, Notifying
<1>6. m.id <= nextID /\ \A p \in Posters \ {g} : Holding(p) => posting[p].id # m.id
  BY <1>t, <1>2, <1>5 DEF FreshIDs
<1>7. Coming' = Coming \cup {m}
  <2>1. InHand(g)' = m BY <1>1, <1>4 DEF InHand
  <2>2. \A p \in Posters \ {g} : InHand(p)' = InHand(p) BY <1>4 DEF InHand
  <2> QED BY <1>5, <2>1, <2>2 DEF Coming
<1>8. Grows
  <2>1. Clear \subseteq Clear'
    <3>1. \A p \in Posters : Holding(p)' => Holding(p) /\ posting'[p].id = posting[p].id
      BY <1>4, <1>5
    <3> QED BY <1>3, <3>1, ClearGrows
  <2>2. ASSUME NEW n \in Clear, m.id <= n PROVE m.id \in exposed'
    <3>1. CASE m.id < nextID BY <1>3, <3>1
    <3>2. CASE ~(m.id < nextID)
      <4>1. m.id = nextID BY <1>t, <1>2, <1>6, <3>2
      <4>2. nextID \in exposed BY <1>2, <1>5, <2>2, <4>1 DEF Clear
      <4> QED BY <1>3, <4>1, <4>2
    <3> QED BY <3>1, <3>2
  <2>3. \A r \in RoomIDs : \A x \in Stored(r)' \ Stored(r) : x = m BY <1>2
  <2> QED BY <1>3, <2>1, <2>2, <2>3 DEF Grows, Known
<1>9. Departures'
  <2>1. m.id \in Clear'
    <3>1. (nextID' + 1)..m.id = {} BY <1>t, <1>2, <1>3, <1>6
    <3>2. \A p \in Posters : Holding(p)' => posting'[p].id # m.id BY <1>4, <1>5, <1>6
    <3>3. nextID' <= m.id => nextID' = m.id BY <1>t, <1>2, <1>3, <1>6
    <3> QED BY <1>2, <3>1, <3>2, <3>3 DEF Clear
  <2>2. ASSUME NEW p \in Posters, Notifying(p)'
        PROVE  posting'[p].id \in Clear' /\ posting'[p].id <= nextID'
    <3>1. CASE p = g BY <1>2, <1>3, <1>4, <1>6, <2>1, <3>1
    <3>2. CASE p # g BY <1>3, <1>4, <1>5, <1>8, <2>2, <3>2 DEF LossInv, Departures, Grows
    <3> QED BY <3>1, <3>2
  <2> QED BY <1>3, <2>2 DEF LossInv, Departures
<1>10. Housed' BY <1>3 DEF LossInv, Housed
<1>11. ASSUME NEW h \in Listeners PROVE HearsAll(h)'
  <2>1. Watches(h)' = Watches(h) /\ Heard(h)' = Heard(h)
    BY <1>3 DEF Watches, Scanned, MemberRooms, Heard
  <2> QED BY <1>2, <1>3, <1>7, <1>8, <2>1 DEF LossInv, Waits, HearsAll, Grows
<1>12. ASSUME NEW h \in Listeners PROVE Arrivals(h)'
  <2>1. ASSUME waiting[h].pc = "listen", NEW i \in DOMAIN chan[h] PROVE InOrder(chan[h][i], m)'
    <3>1. chan[h][i] \in Message BY <1>t, ElementOfSeq, LenProperties
    <3>2. chan[h][i].id \in Nat /\ chan[h][i].id <= nextID
      BY <2>1, <3>1 DEF LossInv, Waits, Arrivals, Message
    <3>3. m.id < chan[h][i].id => m.id < nextID BY <1>t, <1>2, <3>2
    <3> QED BY <1>3, <3>3 DEF InOrder
  <2>2. \A x, y : InOrder(x, y) => InOrder(x, y)' BY <1>3 DEF InOrder
  <2>3. chan'[h] = chan[h] /\ waiting'[h] = waiting[h] /\ nextID' = nextID BY <1>3
  <2> QED BY <1>7, <1>8, <2>1, <2>2, <2>3 DEF LossInv, Waits, Arrivals, InOrder, Grows
<1> QED BY <1>3, <1>8, <1>9, <1>10, <1>11, <1>12, PostKeeps

LEMMA LossNotifies ==
  ASSUME LedgerInv, LossInv, NEW g \in Posters, Notify(g)
  PROVE  LossInv'
<1> USE DEF store, history
<1>t. /\ TypeOK /\ TypeInv /\ nextID \in Nat
      /\ \A h \in Listeners : chan[h] \in Seq(Message) /\ DOMAIN chan[h] = 1..Len(chan[h])
                              /\ Len(chan[h]) \in Nat
  BY LenProperties DEF LedgerInv, IDInv, TypeInv, TypeOK
<1>1. PICK m \in Message : m = InHand(g) /\ m.id = posting[g].id
  BY <1>t, InHandType DEF Notify, TypeInv, TypeOK
<1> DEFINE hears == {h \in InScope("listen", m.room) : Len(chan[h]) < ChanCap}
           deaf == InScope("subscribe", m.room) \cup (InScope("listen", m.room) \ hears)
           overtaken == {InHand(p).id : p \in {p \in Posters \ {g} :
                            /\ posting[p].pc = "notify"
                            /\ InHand(p).room = m.room /\ InHand(p).id < m.id}}
<1>2. /\ posting[g].pc = "notify" /\ \E box : Emit(g, box)
      /\ chan' = [h \in Listeners |-> IF h \in hears THEN Append(chan[h], m) ELSE chan[h]]
      /\ exposed' = exposed \cup overtaken \cup (IF deaf # {} THEN {m.id} ELSE {})
      /\ UNCHANGED <<rooms, members, messages, nextID, cursors, waiting, settled>>
  BY <1>1 DEF Notify, EmitNext
<1>3. /\ posting'[g].pc \notin {"append", "notify"}
      /\ \A p \in Posters \ {g} : posting'[p] = posting[p]
  BY <1>2, <1>t DEF Emit, TypeOK
<1>4. \A p \in Posters \ {g} : Holding(p)' = Holding(p) /\ Notifying(p)' = Notifying(p)
                               /\ InHand(p)' = InHand(p)
  BY <1>3 DEF Holding, Notifying, InHand
<1>5. Notifying(g) /\ ~Notifying(g)' /\ ~Holding(g)' BY <1>2, <1>3 DEF Notifying, Holding
<1>6. Coming \subseteq Coming' \cup {m} /\ Coming' \subseteq Coming /\ m \in Coming
  BY <1>1, <1>4, <1>5 DEF Coming
<1>7. \A x \in Coming' : x.room = m.room /\ x.id < m.id => x.id \in exposed'
  <2>1. \A x \in Coming' : \E p \in Posters \ {g} : posting[p].pc = "notify" /\ x = InHand(p)
    BY <1>4, <1>5 DEF Coming, Notifying
  <2> HIDE DEF deaf
  <2> QED BY <1>2, <2>1
<1>8. /\ exposed \subseteq exposed' /\ \A h \in deaf : m.id \in exposed'
      /\ \A h \in Listeners : chan'[h] = IF h \in hears THEN Append(chan[h], m) ELSE chan[h]
  BY <1>2
<1> HIDE DEF overtaken
<1>9. \A h \in Listeners : /\ h \in hears <=> waiting[h].pc = "listen" /\ waiting[h].room \in {m.room, Everywhere}
                                              /\ Len(chan[h]) < ChanCap
                           /\ waiting[h].pc \in {"subscribe", "listen"} /\ waiting[h].room \in {m.room, Everywhere}
                                => h \in hears \/ h \in deaf
  BY DEF InScope
<1> HIDE DEF hears, deaf
<1>10. \A r \in RoomIDs : Stored(r)' = Stored(r) BY <1>2 DEF Stored
<1>11. Grows
  <2>1. \A p \in Posters : Holding(p)' => Holding(p) /\ posting'[p].id = posting[p].id
    BY <1>3, <1>4, <1>5
  <2> QED BY <1>2, <1>8, <1>10, <2>1, QuietGrows
<1>12. Departures'
  <2>1. ASSUME NEW p \in Posters, Notifying(p)'
        PROVE  posting'[p].id \in Clear' /\ posting'[p].id <= nextID'
    <3>1. p # g BY <1>5, <2>1
    <3> QED BY <1>2, <1>3, <1>4, <1>11, <2>1, <3>1 DEF LossInv, Departures, Grows
  <2> QED BY <1>2, <2>1 DEF LossInv, Departures
<1>13. Housed' BY <1>2 DEF LossInv, Housed
<1>14. ASSUME NEW h \in Listeners, h \in hears
       PROVE  /\ DOMAIN chan'[h] = 1..(Len(chan[h]) + 1) /\ chan'[h][Len(chan[h]) + 1] = m
              /\ \A i \in 1..Len(chan[h]) : chan'[h][i] = chan[h][i]
  <2>1. chan'[h] = Append(chan[h], m) BY <1>8, <1>14
  <2> QED BY <1>t, <2>1, AppendDomain
<1>15. ASSUME NEW h \in Listeners PROVE HearsAll(h)'
  <2>1. Watches(h)' = Watches(h) BY <1>2 DEF Watches, Scanned, MemberRooms
  <2>2. Heard(h) \subseteq Heard(h)' /\ (h \in hears => m \in Heard(h)')
    <3>1. CASE h \in hears
      <4>1. waiting'[h].pc = "listen" BY <1>2, <1>9, <3>1
      <4>2. Heard(h)' = Elements(chan[h])' BY <4>1 DEF Heard
      <4>3. Heard(h) \subseteq Elements(chan[h]) BY DEF Heard, Elements
      <4>4. \A i \in 1..Len(chan[h]) : i \in 1..(Len(chan[h]) + 1) BY <1>t
      <4>5. Len(chan[h]) + 1 \in 1..(Len(chan[h]) + 1) BY <1>t
      <4>6. Elements(chan[h])' = {chan'[h][i] : i \in DOMAIN chan'[h]} BY DEF Elements
      <4> QED BY <1>t, <1>14, <3>1, <4>2, <4>3, <4>4, <4>5, <4>6 DEF Elements
    <3>2. CASE h \notin hears
      BY <1>2, <1>8, <3>2 DEF Heard, Elements
    <3> QED BY <3>1, <3>2
  <2>3. ASSUME waiting[h].pc \in {"subscribe", "listen"}, NEW r \in RoomIDs, r \in Watches(h),
               m \in Stored(r), h \notin hears
        PROVE  m.id \in exposed'
    <3>1. m.room = r BY <2>3, StoredFacts
    <3>2. waiting[h].room \in {r, Everywhere} BY <2>3 DEF Watches, Scanned
    <3> QED BY <1>8, <1>9, <2>3, <3>1, <3>2
  <2> QED BY <1>2, <1>6, <1>8, <1>10, <1>11, <2>1, <2>2, <2>3 DEF LossInv, Waits, HearsAll, Grows, Known
<1>16. ASSUME NEW h \in Listeners PROVE Arrivals(h)'
  <2>1. \A x, y : InOrder(x, y) => InOrder(x, y)' BY <1>8 DEF InOrder
  <2>2. CASE h \notin hears
    <3>1. chan'[h] = chan[h] /\ waiting'[h] = waiting[h] /\ nextID' = nextID BY <1>2, <1>8, <2>2
    <3> QED BY <1>6, <1>8, <1>11, <3>1 DEF LossInv, Waits, Arrivals, InOrder, Grows
  <2>3. CASE h \in hears
    <3> DEFINE c == chan'[h]
               n == Len(chan[h])
    <3>1. waiting[h].pc = "listen" /\ waiting[h].room \in {m.room, Everywhere} BY <1>9, <2>3
    <3>2. m.id \in Clear' /\ m.id <= nextID'
      BY <1>1, <1>2, <1>5, <1>11 DEF LossInv, Departures, Grows
    <3>3. DOMAIN c = 1..(n + 1) /\ c[n + 1] = m /\ n \in Nat
          /\ \A i \in 1..n : i \in DOMAIN chan[h] /\ c[i] = chan[h][i]
      BY <1>t, <1>14, <2>3
    <3> HIDE DEF c, n
    <3>4. ASSUME NEW i \in 1..n
          PROVE  /\ c[i].id \in Clear' /\ c[i].id <= nextID' /\ waiting'[h].room \in {c[i].room, Everywhere}
                 /\ \A j \in 1..n : i < j => InOrder(c[i], c[j])
                 /\ \A x \in Coming : InOrder(c[i], x)
      BY <1>2, <1>11, <3>1, <3>3, <3>4 DEF LossInv, Waits, Arrivals, Grows
    <3>5. ASSUME NEW i \in DOMAIN c
          PROVE  /\ c[i].id \in Clear' /\ c[i].id <= nextID' /\ waiting'[h].room \in {c[i].room, Everywhere}
                 /\ \A j \in DOMAIN c : i < j /\ c[i].room = c[j].room /\ c[j].id < c[i].id => c[j].id \in exposed'
                 /\ \A x \in Coming' : c[i].room = x.room /\ x.id < c[i].id => x.id \in exposed'
      <4>1. CASE i \in 1..n
        <5>1. \A j \in DOMAIN c : j \in 1..n \/ c[j] = m BY <3>3
        <5> QED BY <1>6, <1>8, <3>4, <4>1, <5>1 DEF InOrder
      <4>2. CASE i = n + 1
        <5>1. \A j \in DOMAIN c : ~(i < j) BY <3>3, <4>2
        <5> QED BY <1>2, <1>7, <3>1, <3>2, <3>3, <4>2, <5>1
      <4> QED BY <3>3, <4>1, <4>2
    <3> QED BY <3>5 DEF Arrivals, InOrder, c
  <2> QED BY <2>2, <2>3
<1> QED BY <1>2, <1>11, <1>12, <1>13, <1>15, <1>16, PostKeeps

-----------------------------------------------------------------------------
(* All steps.                                                              *)

LEMMA LossInit == Init => LedgerInv /\ LossInv
<1> SUFFICES ASSUME Init PROVE LedgerInv /\ LossInv
  OBVIOUS
<1>1. LedgerInv
  <2>1. IDInv BY IDInit
  <2>2. Placed
    <3> SUFFICES ASSUME NEW r \in RoomIDs, NEW m \in Stored(r) PROVE m.room = r BY DEF Placed
    <3>1. PICK i \in DOMAIN messages[r] : m = messages[r][i] BY DEF Stored, Elements
    <3>2. CASE r # SystemRoom
      <4>1. messages[r] = <<>> BY <3>2 DEF Init
      <4> QED BY <3>1, <4>1, EmptySeq
    <3>3. CASE r = SystemRoom
      <4>1. messages[r] = [j \in 1..nextID |-> [id |-> j, room |-> r, from |-> System]]
        BY <3>3 DEF Init
      <4> QED BY <3>1, <4>1
    <3> QED BY <3>2, <3>3
  <2>3. AcksSettled BY DEF Init, AcksSettled, NoWait
  <2> QED BY <2>1, <2>2, <2>3 DEF LedgerInv
<1>2. Cardinality(Agents) \in Nat BY FS_CardinalityType, DeliveryAssumption
<1>3. nextID \in Nat /\ nextID > 0 BY <1>2 DEF Init
<1>4. CursorsPass
  <2>1. Unset \in Clear
    <3>1. (nextID + 1)..Unset = {} /\ ~(nextID <= Unset) /\ Unset \in Int BY <1>3 DEF Unset
    <3> QED BY <3>1 DEF Clear
  <2>2. ASSUME NEW a \in Agents, NEW r \in RoomIDs PROVE cursors[a][r] \in Passable(a, r)
    <3>1. cursors[a][r] = Unset BY DEF Init
    <3>2. \A m \in Stored(r) : ~(m.id <= Unset) BY <1>1, StoredFacts DEF Unset
    <3> QED BY <2>1, <3>1, <3>2 DEF Passable
  <2> QED BY <2>2 DEF CursorsPass
<1>5. Departures BY <1>3 DEF Departures, Notifying, Init, NoPost
<1>6. Housed BY DEF Housed, Init
<1>7. ASSUME NEW g \in Listeners PROVE Waits(g)
  BY DEF Init, NoWait, Waits, AcksPass, SincePasses, HearsAll, Arrivals
<1> QED BY <1>1, <1>4, <1>5, <1>6, <1>7 DEF LossInv

LEMMA LossNext == LedgerInv /\ LossInv /\ [Next]_vars => LossInv'
<1> SUFFICES ASSUME LedgerInv, LossInv, [Next]_vars PROVE LossInv'
  OBVIOUS
<1>1. CASE UNCHANGED vars
  <2>1. /\ Listens /\ cursors' = cursors
        /\ \A h \in Listeners : waiting'[h] = waiting[h] /\ chan'[h] = chan[h]
    BY <1>1 DEF vars, store, history, Listens
  <2>2. CursorsPass' BY <2>1, ListenGrows, CursorsStay DEF LossInv
  <2>3. Departures' /\ Housed'
    BY <2>1, ListenGrows DEF LossInv, Departures, Housed, Listens, Notifying
  <2>4. ASSUME NEW h \in Listeners PROVE Waits(h)'
    BY <2>1, OthersWait DEF LossInv
  <2> QED BY <2>2, <2>3, <2>4 DEF LossInv
<1>2. ASSUME NEW g \in Posters, Post(g) PROVE LossInv'
  BY <1>2, LossRooms, LossAttends, LossAllocates, LossAppends, LossNotifies DEF Post
<1> QED BY <1>1, <1>2, LossListen, LossStop, LossStart DEF Next

\* For any number of agents, rooms, handlers, messages and restarts, agents "pick up exactly
\* where they left off" (README.md:68-69) but for the open races: a cursor passes a message
\* its agent was not handed only when that message was appended after a higher id, overtaken
\* between append and notify, published between a first look and its subscription or to a
\* full channel, or looked at while its agent was out of the room (store_messages.go:90).
THEOREM LostOnlyThroughRaces == Spec => []LostOnlyByRaces
<1>1. LedgerInv /\ LossInv => LostOnlyByRaces
  <2> SUFFICES ASSUME LossInv, NEW a \in Agents PROVE Lost(a) \subseteq exposed
    BY DEF LostOnlyByRaces
  <2>1. \A r \in RoomIDs : \A m \in Stored(r) :
          m.from # a /\ m.id <= cursors[a][r] => m.id \in settled[a] \cup exposed
    BY DEF LossInv, CursorsPass, Passable, Known
  <2>2. ASSUME NEW i \in Lost(a) PROVE i \in exposed
    <3>1. PICK r \in RoomIDs : \E m \in Stored(r) : m.from # a /\ m.id <= cursors[a][r] /\ i = m.id
      BY <2>2 DEF Lost
    <3>2. i \notin settled[a] BY <2>2 DEF Lost
    <3> QED BY <2>1, <3>1, <3>2
  <2> QED BY <2>2
<1>2. LedgerInv /\ LossInv /\ [Next]_vars => (LedgerInv /\ LossInv)'
  BY LedgerNext, LossNext
<1> QED BY <1>1, <1>2, LossInit, PTL DEF Spec

-----------------------------------------------------------------------------
(* Handed over twice.                                                      *)

Sorted(r) ==
  \A i, j \in DOMAIN messages[r] : i < j => messages[r][i].id <= messages[r][j].id
InWait(g) == waiting[g].pc \in {"scan", "subscribe", "listen"}

\* An id in use: nobody is about to store it.
InUse(i) == i \in Nat /\ i <= nextID /\ \A p \in Posters : Holding(p) => posting[p].id # i

\* What was handed over, and what is on its way, is in use; what is on its way is
\* stored nowhere but in its room.
HandedUsed ==
  \A a \in Agents : repeated[a] \subseteq handed[a] /\ \A i \in handed[a] : i > 0 /\ InUse(i)
Sent == Coming \cup UNION {Elements(chan[g]) : g \in Listeners}
SentUsed == \A m \in Sent : InUse(m.id) /\ \A r \in RoomIDs : m.id \in IDs(Stored(r)) => m.room = r

\* An agent waits once at a time.
OneWait ==
  \A g, h \in Listeners :
    InWait(g) /\ InWait(h) /\ waiting[g].agent = waiting[h].agent => g = h

\* What an agent was handed is behind its cursor, or the cursor is about to pass it
\* before the agent waits again.
About(g, a, r, i) ==
  /\ waiting[g].pc = "advance" /\ waiting[g].agent = a
  /\ \E ack \in waiting[g].acks : ack[1] = r /\ ack[2] >= i
Behind(a, r) ==
  \A i \in IDs(Stored(r)) : i \in handed[a] =>
    \/ i <= cursors[a][r]
    \/ /\ \A g \in Listeners : InWait(g) => waiting[g].agent # a
       /\ \E g \in Listeners : About(g, a, r, i)
SinceBehind(a, r) ==
  \A g \in Listeners :
    InWait(g) /\ waiting[g].agent = a /\ waiting[g].room = r /\ ~waiting[g].explicit =>
      \A i \in IDs(Stored(r)) : i \in handed[a] => i <= waiting[g].since
Once(a, r) == Sorted(r) =>
  Behind(a, r) /\ SinceBehind(a, r) /\ IDs(Stored(r)) \cap repeated[a] = {}

Up == \A p \in Posters : posting[p].pc # "down"
OnceInv == crashes = 0 =>
  Up /\ HandedUsed /\ SentUsed /\ OneWait /\ \A a \in Agents, r \in RoomIDs : Once(a, r)

\* An agent waits for the answer to one wait before it sends the next.
OneAtATime == ~ServeTwoWaits

LEMMA CursorsRise ==
  ASSUME LedgerInv, [Next]_vars, NEW a \in Agents, NEW r \in RoomIDs
  PROVE  /\ cursors[a][r] \in Int /\ cursors'[a][r] \in Int /\ cursors[a][r] <= cursors'[a][r]
         /\ cursors[a][r] = Unset \/ cursors[a][r] \in Nat
<1>1. TypeOK /\ LedgerInv' BY LedgerNext DEF LedgerInv, IDInv, TypeInv
<1>2. TypeOK' BY <1>1 DEF LedgerInv, IDInv, TypeInv
<1>3. cursors[a][r] \in Nat \cup {Unset} /\ cursors'[a][r] \in Nat \cup {Unset}
  BY <1>1, <1>2 DEF TypeOK
<1>4. cursors'[a][r] = cursors[a][r] \/ cursors'[a][r] > cursors[a][r]
  <2>1. Stutter \/ LedgerStep BY LedgerNext
  <2>2. CASE Stutter BY <2>2 DEF Stutter
  <2>3. CASE Ledger!Post \/ Ledger!Drop BY <2>3 DEF Ledger!Post, Ledger!Drop
  <2>4. ASSUME NEW b \in Agents, Ledger!Move(b) PROVE cursors'[a][r] = cursors[a][r] \/ cursors'[a][r] > cursors[a][r]
    <3>1. CASE a = b BY <2>4, <3>1 DEF Ledger!Move
    <3>2. CASE a # b BY <2>4, <3>2 DEF Ledger!Move
    <3> QED BY <3>1, <3>2
  <2> QED BY <2>1, <2>2, <2>3, <2>4 DEF LedgerStep, Accounts
<1> QED BY <1>3, <1>4 DEF Unset

\* Steps that hand over nothing and store nothing new.
LEMMA OnceKept ==
  ASSUME TypeOK, OnceInv, UNCHANGED <<cursors, waiting, handed, repeated, crashes>>,
         nextID <= nextID', nextID' \in Nat, Up => Up', Sent' \subseteq Sent,
         \A p \in Posters : Holding(p)' =>
           (Holding(p) /\ posting'[p].id = posting[p].id) \/ posting'[p].id = nextID + 1,
         \A r \in RoomIDs : messages'[r] = messages[r] \/ messages'[r] = <<>>
  PROVE  OnceInv'
<1> SUFFICES ASSUME crashes = 0
             PROVE  (Up /\ HandedUsed /\ SentUsed /\ OneWait /\ \A a \in Agents, r \in RoomIDs : Once(a, r))'
  BY DEF OnceInv
<1>t. nextID \in Nat /\ Up /\ HandedUsed /\ SentUsed /\ OneWait /\ \A a \in Agents, r \in RoomIDs : Once(a, r)
  BY DEF OnceInv, TypeOK
<1>1. ASSUME NEW i, InUse(i) PROVE InUse(i)'
  <2>1. i <= nextID' /\ i # nextID + 1 BY <1>t, <1>1 DEF InUse
  <2> QED BY <1>1, <2>1 DEF InUse
<1>2. HandedUsed' BY <1>t, <1>1 DEF HandedUsed
<1>3. \A r \in RoomIDs : Stored(r)' \subseteq Stored(r)
  BY EmptySeq DEF Stored, Elements
<1>4. SentUsed' BY <1>t, <1>1, <1>3 DEF SentUsed, IDs
<1>5. OneWait' BY <1>t DEF OneWait, InWait
<1>6. ASSUME NEW a \in Agents, NEW r \in RoomIDs PROVE Once(a, r)'
  <2>1. CASE messages'[r] = messages[r]
    <3>1. Stored(r)' = Stored(r) /\ Sorted(r)' = Sorted(r) BY <2>1 DEF Stored, Sorted
    <3>2. Behind(a, r) => Behind(a, r)' BY <3>1 DEF Behind, InWait, About
    <3>3. SinceBehind(a, r) => SinceBehind(a, r)' BY <3>1 DEF SinceBehind, InWait
    <3> QED BY <1>t, <3>1, <3>2, <3>3 DEF Once
  <2>2. CASE messages'[r] = <<>>
    <3>1. IDs(Stored(r))' = {} BY <2>2, EmptySeq DEF Stored, Elements, IDs
    <3> QED BY <3>1 DEF Once, Behind, SinceBehind
  <2> QED BY <2>1, <2>2
<1> QED BY <1>t, <1>2, <1>4, <1>5, <1>6

-----------------------------------------------------------------------------
(* Posting hands nothing over.                                             *)

LEMMA OnceEmits ==
  ASSUME TypeOK, OnceInv, NEW g \in Posters, posting[g].pc # "notify", NEW box, Emit(g, box),
         UNCHANGED <<nextID, cursors, waiting, chan, handed, repeated, crashes>>,
         \A r \in RoomIDs : messages'[r] = messages[r] \/ messages'[r] = <<>>
  PROVE  OnceInv'
<1>1. /\ Coming' = Coming
      /\ \A p \in Posters : Holding(p)' => Holding(p) /\ posting'[p].id = posting[p].id
  BY EmitPasses
<1>2. Sent' \subseteq Sent BY <1>1 DEF Sent
<1>3. posting'[g].pc # "down" /\ \A p \in Posters \ {g} : posting'[p] = posting[p]
  BY DEF Emit, TypeOK
<1>4. Up => Up' BY <1>3 DEF Up
<1>5. nextID \in Nat BY DEF TypeOK
<1> QED BY <1>1, <1>2, <1>4, <1>5, OnceKept

LEMMA OnceAllocates ==
  ASSUME TypeOK, OnceInv, NEW g \in Posters, AllocateID(g)
  PROVE  OnceInv'
<1> USE DEF store, history
<1>1. /\ posting' = [posting EXCEPT ![g] = [@ EXCEPT !.pc = "append", !.id = nextID + 1]]
      /\ posting[g].pc = "allocate" /\ nextID' = nextID + 1 /\ nextID \in Nat
      /\ UNCHANGED <<messages, cursors, waiting, chan, handed, repeated, crashes>>
  BY DEF AllocateID, TypeOK
<1>2. /\ posting'[g].pc = "append" /\ posting'[g].id = nextID + 1
      /\ \A p \in Posters \ {g} : posting'[p] = posting[p]
  BY <1>1 DEF TypeOK, PostingState
<1>3. \A p \in Posters : Notifying(p)' = Notifying(p) /\ (Notifying(p) => InHand(p)' = InHand(p))
  BY <1>1, <1>2 DEF Notifying, InHand
<1>4. Coming' = Coming BY <1>3 DEF Coming
<1>5. Sent' \subseteq Sent BY <1>1, <1>4 DEF Sent
<1>6. Up => Up' BY <1>2 DEF Up
<1>7. \A p \in Posters : Holding(p)' =>
        (Holding(p) /\ posting'[p].id = posting[p].id) \/ posting'[p].id = nextID + 1
  BY <1>2 DEF Holding
<1> QED BY <1>1, <1>5, <1>6, <1>7, OnceKept

LEMMA OnceNotifies ==
  ASSUME TypeInv, OnceInv, NEW g \in Posters, Notify(g)
  PROVE  OnceInv'
<1> USE DEF store, history
<1>t. TypeOK /\ nextID \in Nat BY DEF TypeInv, TypeOK
<1>1. PICK m \in Message : m = InHand(g)
  BY <1>t, InHandType DEF Notify, TypeInv, TypeOK
<1>2. PICK hears \in SUBSET Listeners :
        chan' = [h \in Listeners |-> IF h \in hears THEN Append(chan[h], m) ELSE chan[h]]
  BY <1>1 DEF Notify, InScope
<1>3. /\ posting[g].pc = "notify" /\ \E box : Emit(g, box)
      /\ UNCHANGED <<messages, nextID, cursors, waiting, handed, repeated, crashes>>
  BY DEF Notify, EmitNext
<1>4. /\ posting'[g].pc \notin {"append", "notify", "down"}
      /\ \A p \in Posters \ {g} : posting'[p] = posting[p]
  BY <1>3, <1>t DEF Emit, TypeOK
<1>5. Coming' \subseteq Coming /\ m \in Coming
  <2>1. \A p \in Posters \ {g} : Notifying(p)' = Notifying(p) /\ InHand(p)' = InHand(p)
    BY <1>4 DEF Notifying, InHand
  <2>2. Notifying(g) /\ ~Notifying(g)' BY <1>3, <1>4 DEF Notifying
  <2> QED BY <1>1, <2>1, <2>2 DEF Coming
<1>6. ASSUME NEW h \in Listeners PROVE Elements(chan[h])' \subseteq Elements(chan[h]) \cup {m}
  <2>1. chan[h] \in Seq(Message) BY <1>t DEF TypeOK
  <2>2. CASE h \in hears
    <3>1. chan'[h] = Append(chan[h], m) BY <1>2, <2>2
    <3>2. /\ DOMAIN chan'[h] = 1..(Len(chan[h]) + 1) /\ chan'[h][Len(chan[h]) + 1] = m
          /\ \A i \in 1..Len(chan[h]) : chan'[h][i] = chan[h][i]
      BY <2>1, <3>1, AppendDomain
    <3>3. DOMAIN chan[h] = 1..Len(chan[h]) /\ Len(chan[h]) \in Nat BY <2>1, LenProperties
    <3>4. \A i \in DOMAIN chan'[h] : chan'[h][i] \in Elements(chan[h]) \cup {m}
      <4>1. \A i \in 1..(Len(chan[h]) + 1) : i \in 1..Len(chan[h]) \/ i = Len(chan[h]) + 1 BY <3>3
      <4> QED BY <3>2, <3>3, <4>1 DEF Elements
    <3> QED BY <3>4 DEF Elements
  <2>3. CASE h \notin hears BY <1>2, <2>3 DEF Elements
  <2> QED BY <2>2, <2>3
<1>7. Sent' \subseteq Sent BY <1>5, <1>6 DEF Sent
<1>8. Up => Up' BY <1>4 DEF Up
<1>9. \A p \in Posters : Holding(p)' => Holding(p) /\ posting'[p].id = posting[p].id
  BY <1>4 DEF Holding
<1>10. /\ UNCHANGED <<cursors, waiting, handed, repeated, crashes>> /\ nextID' \in Nat /\ nextID <= nextID'
       /\ \A r \in RoomIDs : messages'[r] = messages[r] \/ messages'[r] = <<>>
  BY <1>t, <1>3
<1> QED BY <1>t, <1>7, <1>8, <1>9, <1>10, OnceKept

\* A message that is stored is new to everybody.
LEMMA OnceAppends ==
  ASSUME LedgerInv, OnceInv, NEW g \in Posters, AppendMessage(g)
  PROVE  OnceInv'
<1> USE DEF store, history
<1>t. TypeOK /\ FreshIDs /\ nextID \in Nat BY DEF LedgerInv, IDInv, TypeInv, TypeOK
<1>1. PICK m \in Message : m = InHand(g) BY AppendStored
<1>2. /\ m.id = posting[g].id /\ m.id \in Nat /\ m.room \in RoomIDs
      /\ \A r \in RoomIDs : Stored(r)' = IF r = m.room THEN Stored(r) \cup {m} ELSE Stored(r)
  BY <1>1, AppendStored DEF Message
<1>3. /\ posting[g].pc = "append" /\ posting' = [posting EXCEPT ![g].pc = "notify"]
      /\ messages' = [messages EXCEPT ![m.room] = Append(@, m)]
      /\ UNCHANGED <<nextID, cursors, waiting, chan, handed, repeated, crashes>>
  BY <1>1 DEF AppendMessage
<1>4. /\ posting'[g].pc = "notify" /\ posting'[g].id = posting[g].id
      /\ posting'[g].outbox = posting[g].outbox
      /\ \A p \in Posters \ {g} : posting'[p] = posting[p]
  BY <1>3, <1>t DEF TypeOK, PostingState
<1>5. /\ Holding(g) /\ ~Holding(g)' /\ Notifying(g)'
      /\ \A p \in Posters \ {g} : Holding(p)' = Holding(p) /\ Notifying(p)' = Notifying(p)
  BY <1>3, <1>4 DEF Holding, Notifying
<1>6. /\ m.id <= nextID /\ \A p \in Posters \ {g} : Holding(p) => posting[p].id # m.id
      /\ \A r \in RoomIDs : m.id \notin IDs(Stored(r))
  BY <1>t, <1>2, <1>5 DEF FreshIDs, IDs, Stored, Elements
<1>7. Coming' \subseteq Coming \cup {m}
  <2>1. InHand(g)' = m BY <1>1, <1>4 DEF InHand
  <2>2. \A p \in Posters \ {g} : InHand(p)' = InHand(p) BY <1>4 DEF InHand
  <2> QED BY <1>5, <2>1, <2>2 DEF Coming
<1> SUFFICES ASSUME crashes = 0
             PROVE  (Up /\ HandedUsed /\ SentUsed /\ OneWait /\ \A a \in Agents, r \in RoomIDs : Once(a, r))'
  BY <1>3 DEF OnceInv
<1>8. Up /\ HandedUsed /\ SentUsed /\ OneWait /\ \A a \in Agents, r \in RoomIDs : Once(a, r)
  BY <1>3 DEF OnceInv
<1>9. /\ \A i : InUse(i) => InUse(i)' /\ i # m.id
      /\ InUse(m.id)'
  BY <1>2, <1>3, <1>4, <1>5, <1>6 DEF InUse
<1>10. Up' BY <1>4, <1>8 DEF Up
<1>11. HandedUsed' BY <1>3, <1>8, <1>9 DEF HandedUsed
<1>12. SentUsed'
  <2>1. Sent' \subseteq Sent \cup {m} BY <1>3, <1>7 DEF Sent
  <2>2. \A x \in Sent : InUse(x.id)' /\ x.id # m.id BY <1>8, <1>9 DEF SentUsed
  <2>3. \A r \in RoomIDs : IDs(Stored(r))' \subseteq IF r = m.room THEN IDs(Stored(r)) \cup {m.id} ELSE IDs(Stored(r))
    BY <1>2 DEF IDs
  <2>4. ASSUME NEW x \in Sent', NEW r \in RoomIDs, x.id \in IDs(Stored(r))' PROVE x.room = r
    <3>1. CASE x \in Sent
      <4>1. x.id \in IDs(Stored(r)) BY <2>2, <2>3, <2>4, <3>1
      <4> QED BY <1>8, <3>1, <4>1 DEF SentUsed
    <3>2. CASE x = m BY <1>6, <2>3, <2>4, <3>2
    <3> QED BY <2>1, <3>1, <3>2
  <2>5. \A x \in Sent' : InUse(x.id)' BY <1>9, <2>1, <2>2
  <2> QED BY <2>4, <2>5 DEF SentUsed
<1>13. OneWait' BY <1>3, <1>8 DEF OneWait, InWait
<1>14. ASSUME NEW a \in Agents, NEW r \in RoomIDs, Sorted(r)' PROVE Once(a, r)'
  <2>1. Sorted(r)
    <3>1. CASE r # m.room BY <1>3, <1>14, <3>1 DEF Sorted
    <3>2. CASE r = m.room
      <4>1. messages[r] \in Seq(Message) /\ messages'[r] = Append(messages[r], m)
        BY <1>t, <1>3, <3>2 DEF TypeOK
      <4>2. /\ DOMAIN messages'[r] = 1..(Len(messages[r]) + 1)
            /\ \A i \in 1..Len(messages[r]) : messages'[r][i] = messages[r][i]
        BY <4>1, AppendDomain
      <4>3. DOMAIN messages[r] = 1..Len(messages[r]) /\ Len(messages[r]) \in Nat BY <4>1, LenProperties
      <4>4. \A i \in DOMAIN messages[r] : i \in DOMAIN messages'[r] /\ messages'[r][i] = messages[r][i]
        BY <4>2, <4>3
      <4> QED BY <1>14, <4>4 DEF Sorted
    <3> QED BY <3>1, <3>2
  <2>2. m.id \notin handed[a] /\ m.id \notin repeated[a] BY <1>8, <1>9 DEF HandedUsed
  <2>3. IDs(Stored(r))' \subseteq IDs(Stored(r)) \cup {m.id} BY <1>2 DEF IDs
  <2>4. \A i \in IDs(Stored(r))' : i \in handed[a] \/ i \in repeated[a] => i \in IDs(Stored(r))
    BY <2>2, <2>3
  <2>5. \A h \in Listeners : \A i : About(h, a, r, i) => About(h, a, r, i)' BY <1>3 DEF About
  <2>6. Behind(a, r)' BY <1>3, <1>8, <2>1, <2>4, <2>5 DEF Once, Behind, InWait
  <2>7. SinceBehind(a, r)' BY <1>3, <1>8, <2>1, <2>4 DEF Once, SinceBehind, InWait
  <2>8. (IDs(Stored(r)) \cap repeated[a] = {})' BY <1>3, <1>8, <2>1, <2>4 DEF Once
  <2> QED BY <2>6, <2>7, <2>8 DEF Once
<1>15. \A a \in Agents, r \in RoomIDs : Once(a, r)' BY <1>14 DEF Once
<1> QED BY <1>10, <1>11, <1>12, <1>13, <1>15

LEMMA OncePosts ==
  ASSUME LedgerInv, OnceInv, NEW g \in Posters, Post(g)
  PROVE  OnceInv'
<1> USE DEF store, history
<1>t. TypeOK /\ TypeInv BY DEF LedgerInv, IDInv, TypeInv
<1>1. ASSUME posting[g].pc # "notify", \E box : Emit(g, box),
             UNCHANGED <<nextID, cursors, waiting, chan, handed, repeated, crashes>>, messages' = messages
      PROVE  OnceInv'
  BY <1>1, <1>t, OnceEmits
<1>2. ASSUME NEW a \in Agents, NEW r \in RoomIDs, Send(g, a, r) \/ JoinRoom(g, a, r) \/ LeaveRoom(g, a, r)
      PROVE  OnceInv'
  BY <1>1, <1>2 DEF Send, JoinRoom, LeaveRoom, Joins
<1>3. ASSUME NEW r \in RoomIDs, Announce(g, r) \/ CreateRoom(g, r) \/ OpenDM(g, r) PROVE OnceInv'
  BY <1>1, <1>3 DEF Announce, CreateRoom, OpenDM
<1>4. ASSUME NEW r \in RoomIDs, DeleteRoom(g, r) PROVE OnceInv'
  <2>1. /\ posting[g].pc # "notify" /\ \E box : Emit(g, box)
        /\ UNCHANGED <<nextID, cursors, waiting, chan, handed, repeated, crashes>>
        /\ \A s \in RoomIDs : messages'[s] = messages[s] \/ messages'[s] = <<>>
    BY <1>4, <1>t DEF DeleteRoom, TypeOK
  <2> QED BY <1>t, <2>1, OnceEmits
<1>5. CASE Attend(g)
  <2>1. posting[g].pc # "notify" /\ \E box : Emit(g, box)
    BY <1>5 DEF Attend
  <2>2. UNCHANGED <<nextID, cursors, waiting, chan, handed, repeated, crashes, messages>>
    BY <1>5 DEF Attend
  <2> QED BY <1>1, <2>1, <2>2
<1>6. CASE DropEvent(g) BY <1>1, <1>6 DEF DropEvent, EmitNext
<1> QED BY <1>t, <1>2, <1>3, <1>4, <1>5, <1>6, OnceAllocates, OnceAppends, OnceNotifies DEF Post

-----------------------------------------------------------------------------
(* Listening, in the steps that hand nothing over.                         *)

\* An agent whose part of a step is only that its cursors rise.
LEMMA OnceFor ==
  ASSUME NEW a \in Agents, NEW r \in RoomIDs, messages' = messages,
         cursors[a][r] \in Int, cursors'[a][r] \in Int, cursors[a][r] <= cursors'[a][r],
         handed[a] \subseteq Nat, handed'[a] = handed[a], repeated'[a] = repeated[a],
         \A h \in Listeners : InWait(h)' /\ waiting'[h].agent = a =>
           /\ InWait(h) /\ waiting'[h].agent = waiting[h].agent /\ waiting'[h].room = waiting[h].room
           /\ waiting'[h].since = waiting[h].since /\ waiting'[h].explicit = waiting[h].explicit,
         \A h \in Listeners : \A i \in handed[a] :
           About(h, a, r, i) => About(h, a, r, i)' \/ i <= cursors'[a][r],
         Once(a, r)
  PROVE  Once(a, r)'
<1>1. Stored(r)' = Stored(r) /\ IDs(Stored(r))' = IDs(Stored(r)) /\ Sorted(r)' = Sorted(r)
  BY DEF Stored, Sorted, IDs
<1> SUFFICES ASSUME Sorted(r)
             PROVE  (Behind(a, r) /\ SinceBehind(a, r) /\ IDs(Stored(r)) \cap repeated[a] = {})'
  BY <1>1 DEF Once
<1>2. Behind(a, r)'
  <2> SUFFICES ASSUME NEW i \in IDs(Stored(r)), i \in handed[a]
               PROVE  \/ i <= cursors'[a][r]
                      \/ /\ \A g \in Listeners : InWait(g)' => waiting'[g].agent # a
                         /\ \E g \in Listeners : About(g, a, r, i)'
    BY <1>1 DEF Behind
  <2>1. i \in Nat OBVIOUS
  <2>2. CASE i <= cursors[a][r] BY <2>1, <2>2
  <2>3. CASE ~(i <= cursors[a][r])
    <3>1. /\ \A g \in Listeners : InWait(g) => waiting[g].agent # a
          /\ \E g \in Listeners : About(g, a, r, i)
      BY <2>3 DEF Once, Behind
    <3> QED BY <3>1
  <2> QED BY <2>2, <2>3
<1>3. SinceBehind(a, r)' BY <1>1 DEF Once, SinceBehind
<1> QED BY <1>1, <1>2, <1>3 DEF Once

\* What listeners have in common.
LEMMA OnceListens ==
  ASSUME LedgerInv, [Next]_vars, OnceInv, Listens, NEW g \in Listeners, crashes' = crashes,
         \A h \in Listeners \ {g} : waiting'[h] = waiting[h],
         \A h \in Listeners : Elements(chan[h])' \subseteq Elements(chan[h]),
         crashes = 0 => HandedUsed',
         crashes = 0 /\ InWait(g)' => \A h \in Listeners \ {g} : InWait(h) => waiting[h].agent # waiting'[g].agent,
         crashes = 0 => \A a \in Agents, r \in RoomIDs : Once(a, r)'
  PROVE  OnceInv'
<1> SUFFICES ASSUME crashes = 0
             PROVE  (Up /\ HandedUsed /\ SentUsed /\ OneWait /\ \A a \in Agents, r \in RoomIDs : Once(a, r))'
  BY DEF OnceInv
<1>1. Up /\ SentUsed /\ OneWait BY DEF OnceInv
<1>2. Coming' = Coming /\ \A r \in RoomIDs : Stored(r)' = Stored(r) BY ListenGrows
<1>3. Sent' \subseteq Sent BY <1>2 DEF Sent
<1>4. \A i : InUse(i)' = InUse(i) BY DEF InUse, Listens, Holding
<1>5. SentUsed' BY <1>1, <1>2, <1>3, <1>4 DEF SentUsed, IDs
<1>6. Up' BY <1>1 DEF Up, Listens
<1>7. OneWait' BY <1>1 DEF OneWait, InWait
<1> QED BY <1>5, <1>6, <1>7

\* A step of a listener that hands over nothing.
LEMMA OnceQuiet ==
  ASSUME LedgerInv, [Next]_vars, OnceInv, Listens, NEW g \in Listeners,
         UNCHANGED <<handed, repeated, crashes>>, waiting[g].pc # "advance",
         \A h \in Listeners \ {g} : waiting'[h] = waiting[h],
         \A h \in Listeners : Elements(chan[h])' \subseteq Elements(chan[h]),
         InWait(g)' =>
           /\ InWait(g) /\ waiting'[g].agent = waiting[g].agent /\ waiting'[g].room = waiting[g].room
           /\ waiting'[g].since = waiting[g].since /\ waiting'[g].explicit = waiting[g].explicit
  PROVE  OnceInv'
<1>t. TypeOK BY DEF LedgerInv, IDInv, TypeInv
<1>1. crashes = 0 => HandedUsed' BY DEF OnceInv, HandedUsed, InUse, Listens, Holding
<1>2. ASSUME crashes = 0, NEW a \in Agents, NEW r \in RoomIDs PROVE Once(a, r)'
  <2>1. \A h \in Listeners : InWait(h)' =>
           /\ InWait(h) /\ waiting'[h].agent = waiting[h].agent /\ waiting'[h].room = waiting[h].room
           /\ waiting'[h].since = waiting[h].since /\ waiting'[h].explicit = waiting[h].explicit
    BY DEF InWait
  <2>2. \A h \in Listeners : \A i : About(h, a, r, i) => About(h, a, r, i)' BY DEF About
  <2>3. handed[a] \subseteq Nat BY <1>t DEF TypeOK
  <2>4. Once(a, r) BY <1>2 DEF OnceInv
  <2>5. messages' = messages BY DEF Listens
  <2> QED BY <2>1, <2>2, <2>3, <2>4, <2>5, CursorsRise, OnceFor
<1>3. crashes = 0 /\ InWait(g)' => \A h \in Listeners \ {g} : InWait(h) => waiting[h].agent # waiting'[g].agent
  BY DEF OnceInv, OneWait
<1> QED BY <1>1, <1>2, <1>3, OnceListens

\* A new wait reads from where its agent was left.
LEMMA OnceBegins ==
  ASSUME OneAtATime, LedgerInv, [Next]_vars, OnceInv, Listens, NEW g \in Listeners, NEW a \in Agents,
         NEW n \in Nat, NEW r \in RoomIDs, AgentWait(g, a, n) \/ RoomWait(g, a, r, n)
  PROVE  OnceInv'
<1> USE DEF store, history
<1>t. TypeOK BY DEF LedgerInv, IDInv, TypeInv
<1>1. /\ UNCHANGED <<handed, repeated, crashes, chan>> /\ waiting[g].pc = "idle"
      /\ \A h \in Listeners : waiting[h].agent # a
      /\ \A h \in Listeners \ {g} : waiting'[h] = waiting[h]
  BY <1>t DEF OneAtATime, MayWait, AgentWait, RoomWait, TypeOK
<1>2. /\ waiting'[g].pc = "scan" /\ waiting'[g].agent = a
      /\ waiting'[g].room = Everywhere
         \/ (waiting'[g].room = r /\ (~waiting'[g].explicit => waiting'[g].since = CursorOf(a, r)))
  <2>1. CASE AgentWait(g, a, n) BY <2>1, <1>t DEF AgentWait, TypeOK
  <2>2. CASE RoomWait(g, a, r, n)
    <3> DEFINE since == IF n > 0 THEN n ELSE CursorOf(a, r)
               explicit == n > 0
    <3>1. waiting' = [waiting EXCEPT ![g] = [pc |-> "scan", agent |-> a, room |-> r, since |-> since,
                                             explicit |-> explicit, acks |-> {}]]
      BY <2>2 DEF RoomWait
    <3> HIDE DEF since, explicit
    <3>2. waiting'[g] = [pc |-> "scan", agent |-> a, room |-> r, since |-> since, explicit |-> explicit, acks |-> {}]
      BY <3>1, <1>t DEF TypeOK
    <3>3. waiting'[g].explicit = explicit BY <3>2
    <3>4. ~explicit => since = CursorOf(a, r) BY DEF since, explicit
    <3>5. waiting'[g].pc = "scan" /\ waiting'[g].agent = a /\ waiting'[g].room = r /\ waiting'[g].since = since
      BY <3>2
    <3> QED BY <3>3, <3>4, <3>5
  <2> QED BY <2>1, <2>2
<1>3. crashes = 0 => HandedUsed' BY <1>1 DEF OnceInv, HandedUsed, InUse, Listens, Holding
<1>4. ASSUME crashes = 0, NEW b \in Agents, NEW s \in RoomIDs PROVE Once(b, s)'
  <2>1. handed[b] \subseteq Nat BY <1>t DEF TypeOK
  <2>2. Once(b, s) /\ \A i \in handed[b] : i > 0 BY <1>4 DEF OnceInv, HandedUsed
  <2>3. messages' = messages BY DEF Listens
  <2>4. CASE b # a
    <3>1. \A h \in Listeners : InWait(h)' /\ waiting'[h].agent = b =>
            InWait(h) /\ waiting'[h] = waiting[h]
      BY <1>1, <1>2, <2>4 DEF InWait
    <3>2. \A h \in Listeners : \A i : About(h, b, s, i) => About(h, b, s, i)'
      BY <1>1 DEF About
    <3> QED BY <1>1, <2>1, <2>2, <2>3, <3>1, <3>2, CursorsRise, OnceFor
  <2>5. CASE b = a
    <3>1. Stored(s)' = Stored(s) /\ IDs(Stored(s))' = IDs(Stored(s)) /\ Sorted(s)' = Sorted(s)
      BY <2>3 DEF Stored, Sorted, IDs
    <3> SUFFICES ASSUME Sorted(s)
                 PROVE  (Behind(b, s) /\ SinceBehind(b, s) /\ IDs(Stored(s)) \cap repeated[b] = {})'
      BY <3>1 DEF Once
    <3>2. ASSUME NEW i \in IDs(Stored(s)), i \in handed[b]
          PROVE  i \in Nat /\ i > 0 /\ i <= cursors[b][s] /\ cursors[b][s] # Unset
      <4>1. i <= cursors[b][s] BY <1>1, <2>2, <2>5, <3>2 DEF Once, Behind, About
      <4> QED BY <2>1, <2>2, <3>2, <4>1 DEF Unset
    <3>3. Behind(b, s)'
      <4>1. cursors[b][s] \in Int /\ cursors'[b][s] \in Int /\ cursors[b][s] <= cursors'[b][s]
        BY CursorsRise
      <4>2. \A i \in IDs(Stored(s)) : i \in handed[b] => i <= cursors'[b][s] BY <3>2, <4>1
      <4> QED BY <1>1, <3>1, <4>2 DEF Behind
    <3>4. SinceBehind(b, s)'
      <4> SUFFICES ASSUME NEW h \in Listeners, InWait(h)', waiting'[h].agent = b, waiting'[h].room = s,
                          ~waiting'[h].explicit, NEW i \in IDs(Stored(s)), i \in handed[b]
                   PROVE  i <= waiting'[h].since
        BY <1>1, <3>1 DEF SinceBehind
      <4>1. h = g BY <1>1, <2>5
      <4>2. s = r BY <1>2, <4>1, DeliveryAssumption
      <4>3. waiting'[h].since = CursorOf(b, s) BY <1>2, <2>5, <4>1, <4>2, DeliveryAssumption
      <4> QED BY <3>2, <4>3 DEF CursorOf
    <3> QED BY <1>1, <2>2, <3>1, <3>3, <3>4 DEF Once
  <2> QED BY <2>4, <2>5
<1>5. \A h \in Listeners : Elements(chan[h])' \subseteq Elements(chan[h]) BY <1>1 DEF Elements
<1> QED BY <1>1, <1>2, <1>3, <1>4, <1>5, OnceListens

\* A wait that follows its agent looks only behind what the agent was handed.
LEMMA SeenBefore ==
  ASSUME LedgerInv, OnceInv, crashes = 0, NEW g \in Listeners, NEW a \in Agents, waiting[g].agent = a,
         InWait(g), ~waiting[g].explicit, NEW r \in RoomIDs, waiting[g].room \in {r, Everywhere}, Sorted(r),
         NEW i \in IDs(Stored(r)), i \in handed[a]
  PROVE  i <= Since(g, r) /\ i <= cursors[a][r]
<1>1. Once(a, r) /\ i > 0 BY DEF OnceInv, HandedUsed
<1>2. i <= cursors[a][r] BY <1>1 DEF Once, Behind
<1>3. CASE waiting[g].room = Everywhere
  <2>1. i \in Nat BY DEF LedgerInv, IDInv, TypeInv, TypeOK
  <2>2. cursors[a][r] # Unset BY <1>1, <1>2, <2>1 DEF Unset
  <2> QED BY <1>2, <1>3, <2>2 DEF Since, FollowsCursors, CursorOf
<1>4. CASE waiting[g].room = r
  <2>1. waiting[g].room # Everywhere BY <1>4, DeliveryAssumption
  <2> QED BY <1>1, <1>2, <1>4, <2>1 DEF Once, SinceBehind, Since, FollowsCursors
<1> QED BY <1>3, <1>4

-----------------------------------------------------------------------------
(* Answers.                                                                *)

\* A response, and the cursors that follow it.
LEMMA OnceAnswers ==
  ASSUME LedgerInv, [Next]_vars, OnceInv, Listens, NEW g \in Listeners, NEW a \in Agents, waiting[g].agent = a,
         InWait(g), NEW batch, Answer(g, batch), crashes' = crashes,
         \A h \in Listeners : Elements(chan[h])' \subseteq Elements(chan[h]),
         crashes = 0 => \A m \in batch : m.id \in Nat /\ m.id > 0 /\ InUse(m.id),
         crashes = 0 => \A r \in RoomIDs : Sorted(r) => \A m \in batch : m.id \in IDs(Stored(r)) =>
           /\ waiting[g].room \in {r, Everywhere}
           /\ Since(g, r) \in Int /\ m.id > Since(g, r)
           /\ ~waiting[g].explicit => \E ack \in Acks(g, batch) : ack[1] = r /\ ack[2] >= m.id
  PROVE  OnceInv'
<1>t. TypeOK BY DEF LedgerInv, IDInv, TypeInv
<1> DEFINE ids == IF waiting[g].explicit THEN {} ELSE IDs({m \in batch : m.from # a})
<1>1. /\ handed' = [handed EXCEPT ![a] = @ \cup ids]
      /\ repeated' = [repeated EXCEPT ![a] = @ \cup (ids \cap handed[a])]
      /\ IF Acks(g, batch) = {} THEN Finish(g)
         ELSE waiting' = [waiting EXCEPT ![g] = [@ EXCEPT !.pc = "advance", !.acks = Acks(g, batch)]]
  BY DEF Answer
<1>2. \A i \in ids : ~waiting[g].explicit /\ \E m \in batch : m.id = i BY DEF IDs
<1> HIDE DEF ids
<1>3. /\ handed'[a] = handed[a] \cup ids /\ repeated'[a] = repeated[a] \cup (ids \cap handed[a])
      /\ \A b \in Agents \ {a} : handed'[b] = handed[b] /\ repeated'[b] = repeated[b]
  BY <1>1, <1>t DEF TypeOK
<1>4. /\ \A h \in Listeners \ {g} : waiting'[h] = waiting[h]
      /\ ~InWait(g)'
      /\ Acks(g, batch) # {} =>
           waiting'[g].pc = "advance" /\ waiting'[g].agent = a /\ waiting'[g].acks = Acks(g, batch)
  <2>1. CASE Acks(g, batch) = {} BY <1>1, <1>t, <2>1 DEF Finish, InWait, NoWait, TypeOK
  <2>2. CASE Acks(g, batch) # {}
    <3> DEFINE acks == Acks(g, batch)
    <3>1. waiting' = [waiting EXCEPT ![g] = [@ EXCEPT !.pc = "advance", !.acks = acks]] BY <1>1, <2>2
    <3> HIDE DEF acks
    <3>2. /\ waiting'[g].acks = acks /\ waiting'[g].agent = a /\ waiting'[g].pc = "advance"
          /\ \A h \in Listeners \ {g} : waiting'[h] = waiting[h]
      BY <1>t, <3>1 DEF TypeOK, WaitingState
    <3> QED BY <3>2 DEF InWait, acks
  <2> QED BY <2>1, <2>2
<1>5. ASSUME crashes = 0 PROVE HandedUsed'
  <2>1. \A i : InUse(i)' = InUse(i) BY DEF InUse, Listens, Holding
  <2>2. \A i \in ids : i > 0 /\ InUse(i) BY <1>2, <1>5
  <2>3. HandedUsed BY <1>5 DEF OnceInv
  <2> QED BY <1>3, <2>1, <2>2, <2>3 DEF HandedUsed
<1>6. ASSUME crashes = 0, NEW b \in Agents, NEW r \in RoomIDs, b # a PROVE Once(b, r)'
  <2>1. handed[b] \subseteq Nat BY <1>t DEF TypeOK
  <2>2. Once(b, r) BY <1>6 DEF OnceInv
  <2>3. messages' = messages BY DEF Listens
  <2>4. \A h \in Listeners : InWait(h)' => InWait(h) /\ waiting'[h] = waiting[h]
    BY <1>4 DEF InWait
  <2>5. \A h \in Listeners : \A i : About(h, b, r, i) => About(h, b, r, i)'
    BY <1>4, <1>6 DEF About
  <2> QED BY <1>3, <1>6, <2>1, <2>2, <2>3, <2>4, <2>5, CursorsRise, OnceFor
<1>7. ASSUME crashes = 0, NEW r \in RoomIDs PROVE Once(a, r)'
  <2>1. Stored(r)' = Stored(r) /\ IDs(Stored(r))' = IDs(Stored(r)) /\ Sorted(r)' = Sorted(r)
    BY DEF Stored, Sorted, IDs, Listens
  <2> SUFFICES ASSUME Sorted(r)
               PROVE  (Behind(a, r) /\ SinceBehind(a, r) /\ IDs(Stored(r)) \cap repeated[a] = {})'
    BY <2>1 DEF Once
  <2>2. \A h \in Listeners : InWait(h)' => waiting'[h].agent # a
    BY <1>4, <1>7 DEF OnceInv, OneWait, InWait
  <2>3. Once(a, r) /\ handed[a] \subseteq Nat BY <1>7, <1>t DEF OnceInv, TypeOK
  <2>4. ASSUME NEW i \in IDs(Stored(r)), i \in ids
        PROVE  /\ i \notin handed[a]
               /\ \E h \in Listeners : About(h, a, r, i)'
    <3>1. PICK m \in batch : m.id = i /\ ~waiting[g].explicit BY <1>2, <2>4
    <3>2. /\ waiting[g].room \in {r, Everywhere} /\ Since(g, r) \in Int /\ i > Since(g, r) /\ i \in Nat
          /\ \E ack \in Acks(g, batch) : ack[1] = r /\ ack[2] >= i
      BY <1>7, <2>4, <3>1
    <3>3. i \notin handed[a]
      <4> SUFFICES ASSUME i \in handed[a] PROVE FALSE OBVIOUS
      <4>1. i <= Since(g, r) BY <1>7, <2>4, <3>1, <3>2, SeenBefore
      <4> QED BY <3>2, <4>1
    <3>4. About(g, a, r, i)' BY <1>4, <3>2 DEF About
    <3> QED BY <3>3, <3>4
  <2>5. Behind(a, r)'
    <3> SUFFICES ASSUME NEW i \in IDs(Stored(r)), i \in handed'[a]
                 PROVE  i <= cursors'[a][r] \/ \E h \in Listeners : About(h, a, r, i)'
      BY <2>1, <2>2 DEF Behind
    <3>1. CASE i \in ids BY <2>4, <3>1
    <3>2. CASE i \in handed[a]
      <4>1. i <= cursors[a][r] /\ i \in Nat BY <2>3, <3>2 DEF Once, Behind
      <4> QED BY <4>1, CursorsRise
    <3> QED BY <1>3, <3>1, <3>2
  <2>6. SinceBehind(a, r)' BY <2>2 DEF SinceBehind
  <2>7. IDs(Stored(r)) \cap repeated'[a] = {} BY <1>3, <2>3, <2>4 DEF Once
  <2> QED BY <2>1, <2>5, <2>6, <2>7
<1>8. crashes = 0 => \A b \in Agents, r \in RoomIDs : Once(b, r)' BY <1>6, <1>7
<1> QED BY <1>4, <1>5, <1>8, OnceListens

\* All a room stores after the place a wait reads from: the message stored last is
\* among them, and the cursor will follow it.
LEMMA OnceScans ==
  ASSUME LedgerInv, [Next]_vars, OnceInv, Listens, NEW g \in Listeners, NEW a \in Agents, waiting[g].agent = a,
         ScanAnswer(g)
  PROVE  OnceInv'
<1> USE DEF store, history
<1>t. TypeOK /\ Placed /\ UniqueIDs BY DEF LedgerInv, IDInv, TypeInv
<1>1. /\ waiting[g].pc = "scan" /\ Answer(g, Found(g)) /\ UNCHANGED <<chan, crashes>>
  BY DEF ScanAnswer
<1>2. \A r \in RoomIDs : CursorOf(a, r) \in Nat /\ Since(g, r) \in Nat
  BY <1>t, CursorType DEF Since, TypeOK, WaitingState
<1>3. Scanned(g) \subseteq RoomIDs BY <1>t, ScanType
<1>4. ASSUME NEW m \in Found(g)
      PROVE  /\ m.id \in Nat /\ m.id > 0 /\ InUse(m.id) /\ m.room \in Scanned(g)
             /\ m \in Stored(m.room) /\ m.id > Since(g, m.room)
  <2>1. PICK s \in Scanned(g) : m \in Stored(s) /\ m.id > Since(g, s) BY DEF Found
  <2>2. s \in RoomIDs /\ m.id \in Nat /\ m.id <= nextID /\ m.room = s
        /\ \A p \in Posters : Holding(p) => posting[p].id # m.id
    BY <1>3, <2>1, StoredFacts
  <2> QED BY <1>2, <2>1, <2>2 DEF InUse
<1>5. ASSUME NEW r \in RoomIDs, Sorted(r), NEW m \in Found(g), m.id \in IDs(Stored(r))
      PROVE  /\ waiting[g].room \in {r, Everywhere}
             /\ Since(g, r) \in Int /\ m.id > Since(g, r)
             /\ ~waiting[g].explicit => \E ack \in Acks(g, Found(g)) : ack[1] = r /\ ack[2] >= m.id
  <2>1. m.room = r
    <3>1. PICK s \in RoomIDs : s = m.room /\ m \in Stored(s) BY <1>3, <1>4
    <3>2. \E i \in DOMAIN messages[s], j \in DOMAIN messages[r] : messages[s][i].id = messages[r][j].id
      BY <1>5, <3>1 DEF IDs, Stored, Elements
    <3> QED BY <1>t, <3>1, <3>2 DEF UniqueIDs
  <2>2. r \in Scanned(g) /\ m \in Stored(r) /\ m.id > Since(g, r) /\ m.id \in Nat BY <1>4, <2>1
  <2>3. waiting[g].room \in {r, Everywhere} BY <2>2 DEF Scanned
  <2> DEFINE n == Len(messages[r])
             x == messages[r][n]
  <2>4. messages[r] \in Seq(Message) /\ n \in Nat /\ DOMAIN messages[r] = 1..n
    BY <1>t, LenProperties DEF TypeOK
  <2>5. PICK k \in DOMAIN messages[r] : messages[r][k] = m BY <2>2 DEF Stored, Elements
  <2>6. n \in DOMAIN messages[r] /\ \A j \in DOMAIN messages[r] : j <= n /\ (j = n \/ j < n)
    BY <2>4, <2>5
  <2>7. x \in Stored(r) BY <2>6 DEF Stored, Elements
  <2>8. x.id \in Nat BY <2>7, StoredFacts
  <2>9. \A j \in DOMAIN messages[r] : messages[r][j].id <= x.id
    BY <1>5, <2>6, <2>8 DEF Sorted
  <2>10. \A y \in Stored(r) : y.id <= x.id BY <2>9 DEF Stored, Elements
  <2>11. x.id > Since(g, r) /\ x.id >= m.id BY <1>2, <2>2, <2>8, <2>10
  <2>12. x \in Found(g) /\ x.room = r BY <2>2, <2>7, <2>11, StoredFacts DEF Found
  <2> HIDE DEF x
  <2>13. ~waiting[g].explicit => <<r, x.id>> \in Acks(g, Found(g))
    <3>1. CASE FollowsCursors(g)
      <4>1. \A y \in Found(g) : y.room = x.room => y.id <= x.id BY <1>4, <2>10, <2>12
      <4> QED BY <2>12, <3>1, <4>1 DEF Acks
    <3>2. CASE ~FollowsCursors(g) /\ ~waiting[g].explicit
      <4>1. waiting[g].room # Everywhere /\ waiting[g].room = r BY <2>3, <3>2 DEF FollowsCursors
      <4>2. x.id \in LastFound(g, r)
        <5> DEFINE hits == {i \in DOMAIN messages[r] : messages[r][i].id > Since(g, r)}
        <5>1. n \in hits /\ \A j \in hits : j <= n BY <2>6, <2>11 DEF x
        <5> HIDE DEF hits
        <5>2. x.id \in {messages[r][i].id : i \in {i \in hits : \A j \in hits : j <= i}} BY <5>1 DEF x
        <5> QED BY <5>2 DEF LastFound, hits
      <4> QED BY <1>1, <3>2, <4>1, <4>2 DEF Acks
    <3> QED BY <3>1, <3>2
  <2> QED BY <1>2, <2>2, <2>3, <2>11, <2>13
<1>6. \A h \in Listeners : Elements(chan[h])' \subseteq Elements(chan[h]) BY <1>1 DEF Elements
<1>7. InWait(g) BY <1>1 DEF InWait
<1> QED BY <1>1, <1>4, <1>5, <1>6, <1>7, OnceAnswers

\* What comes on a channel is handed over, followed by the cursor.
LEMMA OnceHears ==
  ASSUME LedgerInv, LossInv, [Next]_vars, OnceInv, Listens, NEW g \in Listeners, NEW a \in Agents,
         waiting[g].agent = a, HandOver(g)
  PROVE  OnceInv'
<1> USE DEF store, history
<1>t. TypeOK BY DEF LedgerInv, IDInv, TypeInv
<1>1. /\ waiting[g].pc = "listen" /\ chan[g] # <<>> /\ Answer(g, {Arrived(g)}) /\ crashes' = crashes
      /\ chan' = [chan EXCEPT ![g] = <<>>] /\ Wanted(g)
  BY DEF HandOver, Receive
<1>2. PICK m \in Message : m = Arrived(g) BY <1>1, <1>t, ArrivedType
<1>3. /\ m.id \in Nat /\ m.room \in RoomIDs /\ m.id > Since(g, m.room)
      /\ \A r \in RoomIDs : CursorOf(a, r) \in Nat /\ Since(g, r) \in Nat
  BY <1>1, <1>2, <1>t, CursorType DEF Wanted, Since, TypeOK, WaitingState, Message
<1>4. 1 \in DOMAIN chan[g] /\ m = chan[g][1]
  <2>1. chan[g] \in Seq(Message) BY <1>t DEF TypeOK
  <2>2. DOMAIN chan[g] = 1..Len(chan[g]) /\ Len(chan[g]) \in Nat /\ Len(chan[g]) # 0
    BY <1>1, <2>1, LenProperties, EmptySeq
  <2> QED BY <1>2, <2>2 DEF Arrived
<1>5. m \in Sent BY <1>4 DEF Sent, Elements
<1>6. waiting[g].room \in {m.room, Everywhere} BY <1>1, <1>4 DEF LossInv, Waits, Arrivals
<1>7. ASSUME crashes = 0 PROVE m.id > 0 /\ InUse(m.id) /\ \A r \in RoomIDs : m.id \in IDs(Stored(r)) => m.room = r
  BY <1>3, <1>5, <1>7 DEF OnceInv, SentUsed
<1>8. ~waiting[g].explicit => <<m.room, m.id>> \in Acks(g, {m})
  <2>1. CASE FollowsCursors(g) BY <1>3, <2>1 DEF Acks
  <2>2. CASE ~FollowsCursors(g) /\ ~waiting[g].explicit
    <3>1. waiting[g].room # Everywhere /\ waiting[g].room = m.room BY <1>6, <2>2 DEF FollowsCursors
    <3> QED BY <1>1, <2>2, <3>1 DEF Acks, IDs
  <2> QED BY <2>1, <2>2
<1>9. ASSUME crashes = 0, NEW r \in RoomIDs, m.id \in IDs(Stored(r))
      PROVE  /\ waiting[g].room \in {r, Everywhere}
             /\ Since(g, r) \in Int /\ m.id > Since(g, r)
             /\ ~waiting[g].explicit => \E ack \in Acks(g, {m}) : ack[1] = r /\ ack[2] >= m.id
  <2>1. m.room = r BY <1>7, <1>9
  <2> QED BY <1>3, <1>6, <1>8, <2>1
<1>10. \A h \in Listeners : Elements(chan[h])' \subseteq Elements(chan[h])
  <2>1. \A h \in Listeners : chan'[h] = chan[h] \/ chan'[h] = <<>> BY <1>1, <1>t DEF TypeOK
  <2> QED BY <2>1, EmptySeq DEF Elements
<1>11. InWait(g) /\ Answer(g, {m}) BY <1>1, <1>2 DEF InWait
<1> QED BY <1>1, <1>3, <1>7, <1>9, <1>10, <1>11, OnceAnswers

LEMMA OnceAdvances ==
  ASSUME LedgerInv, [Next]_vars, OnceInv, Listens, NEW g \in Listeners, NEW a \in Agents,
         waiting[g].agent = a, AdvanceCursor(g)
  PROVE  OnceInv'
<1> USE DEF store, history
<1>t. TypeOK BY DEF LedgerInv, IDInv, TypeInv
<1>1. PICK ack \in waiting[g].acks :
        /\ waiting[g].pc = "advance"
        /\ cursors' = [cursors EXCEPT ![a][ack[1]] = Advanced(@, ack[2])]
        /\ IF waiting[g].acks \ {ack} = {} THEN Finish(g)
           ELSE waiting' = [waiting EXCEPT ![g].acks = waiting[g].acks \ {ack}]
        /\ UNCHANGED <<chan, crashes, handed, repeated>>
  BY DEF AdvanceCursor
<1>2. waiting[g].acks \in SUBSET (RoomIDs \X Nat) BY <1>t DEF TypeOK, WaitingState
<1>3. PICK s \in RoomIDs, to \in Nat : ack = <<s, to>> BY <1>1, <1>2
<1>4. cursors'[a][s] = Advanced(cursors[a][s], to) BY <1>1, <1>3, <1>t DEF TypeOK
<1>5. /\ \A h \in Listeners \ {g} : waiting'[h] = waiting[h]
      /\ ~InWait(g)'
      /\ waiting[g].acks \ {ack} # {} =>
           waiting'[g].pc = "advance" /\ waiting'[g].agent = a /\ waiting'[g].acks = waiting[g].acks \ {ack}
  <2> DEFINE rest == waiting[g].acks \ {ack}
  <2>1. CASE rest = {} BY <1>1, <1>t, <2>1 DEF Finish, InWait, NoWait, TypeOK
  <2>2. CASE rest # {}
    <3>1. waiting' = [waiting EXCEPT ![g].acks = rest] BY <1>1, <2>2
    <3> HIDE DEF rest
    <3>2. /\ waiting'[g].acks = rest /\ waiting'[g].agent = a /\ waiting'[g].pc = "advance"
          /\ \A h \in Listeners \ {g} : waiting'[h] = waiting[h]
      BY <1>1, <1>t, <3>1 DEF TypeOK, WaitingState
    <3> QED BY <3>2 DEF InWait, rest
  <2> QED BY <2>1, <2>2
<1>6. crashes = 0 => HandedUsed' BY <1>1 DEF OnceInv, HandedUsed, InUse, Listens, Holding
<1>7. ASSUME crashes = 0, NEW b \in Agents, NEW r \in RoomIDs PROVE Once(b, r)'
  <2>1. handed[b] \subseteq Nat /\ cursors[b][r] \in Nat \cup {Unset} BY <1>t DEF TypeOK
  <2>2. Once(b, r) /\ \A i \in handed[b] : i > 0 BY <1>7 DEF OnceInv, HandedUsed
  <2>3. messages' = messages BY DEF Listens
  <2>4. \A h \in Listeners : InWait(h)' => InWait(h) /\ waiting'[h] = waiting[h]
    BY <1>5 DEF InWait
  <2>5. ASSUME NEW h \in Listeners, NEW i \in handed[b], About(h, b, r, i)
        PROVE  About(h, b, r, i)' \/ i <= cursors'[b][r]
    <3>1. CASE h # g BY <1>5, <2>5, <3>1 DEF About
    <3>2. CASE h = g
      <4>1. PICK other \in waiting[g].acks : b = a /\ other[1] = r /\ other[2] >= i
        BY <2>5, <3>2 DEF About
      <4>2. CASE other # ack BY <1>5, <3>2, <4>1, <4>2 DEF About
      <4>3. CASE other = ack
        <5>1. s = r /\ to >= i /\ i \in Nat /\ i > 0 BY <1>3, <2>1, <2>2, <4>1, <4>3
        <5>2. Advanced(cursors[a][s], to) >= to BY <2>1, <4>1, <5>1 DEF Advanced, Unset
        <5>3. cursors'[b][r] \in Int BY CursorsRise
        <5> QED BY <1>4, <4>1, <5>1, <5>2, <5>3
      <4> QED BY <4>2, <4>3
    <3> QED BY <3>1, <3>2
  <2> QED BY <1>1, <2>1, <2>2, <2>3, <2>4, <2>5, CursorsRise, OnceFor
<1>8. \A h \in Listeners : Elements(chan[h])' \subseteq Elements(chan[h]) BY <1>1 DEF Elements
<1> QED BY <1>1, <1>5, <1>6, <1>7, <1>8, OnceListens

LEMMA OnceListen ==
  ASSUME OneAtATime, LedgerInv, LossInv, [Next]_vars, OnceInv, NEW g \in Listeners, Listen(g)
  PROVE  OnceInv'
<1> USE DEF store, history
<1>t. TypeOK /\ Serving /\ nextID \in Nat BY DEF LedgerInv, IDInv, TypeInv, TypeOK
<1>l. Listens BY <1>t, ListensAlways
<1>1. ASSUME NEW a \in Readers, NEW n \in 0..nextID, NEW r \in RoomIDs,
             AgentWait(g, a, n) \/ RoomWait(g, a, r, n)
      PROVE  OnceInv'
  <2>1. a \in Agents /\ n \in Nat BY <1>t, DeliveryAssumption
  <2> QED BY <1>1, <1>l, <2>1, OnceBegins
<1>2. ASSUME NEW a \in Readers, NEW n \in 0..nextID, NEW r \in RoomIDs, MarkRead(g, a, r, n) PROVE OnceInv'
  <2> DEFINE to == IF n = 0 THEN RoomHead(r) ELSE n
  <2>1. /\ UNCHANGED <<handed, repeated, crashes, chan>> /\ waiting[g].pc = "idle"
        /\ waiting' = [waiting EXCEPT ![g] = [NoWait EXCEPT !.pc = "advance", !.agent = a, !.acks = {<<r, to>>}]]
    BY <1>2 DEF MarkRead
  <2> HIDE DEF to
  <2>2. ~InWait(g)' /\ \A h \in Listeners \ {g} : waiting'[h] = waiting[h]
    BY <2>1, <1>t DEF InWait, NoWait, TypeOK
  <2>3. \A h \in Listeners : Elements(chan[h])' \subseteq Elements(chan[h]) BY <2>1 DEF Elements
  <2> QED BY <1>l, <2>1, <2>2, <2>3, OnceQuiet
<1>3. CASE ScanAnswerFails(g) \/ HandOverFails(g) \/ GiveUp(g)
  <2>1. /\ UNCHANGED <<handed, repeated, crashes>> /\ waiting[g].pc # "advance" /\ Finish(g)
        /\ chan' = chan \/ chan' = [chan EXCEPT ![g] = <<>>]
    BY <1>3 DEF ScanAnswerFails, HandOverFails, GiveUp, Receive
  <2>2. ~InWait(g)' /\ \A h \in Listeners \ {g} : waiting'[h] = waiting[h]
    BY <2>1, <1>t DEF InWait, NoWait, TypeOK, Finish
  <2>3. \A h \in Listeners : chan'[h] = chan[h] \/ chan'[h] = <<>> BY <2>1, <1>t DEF TypeOK
  <2>4. \A h \in Listeners : Elements(chan[h])' \subseteq Elements(chan[h]) BY <2>3, EmptySeq DEF Elements
  <2> QED BY <1>l, <2>1, <2>2, <2>4, OnceQuiet
<1>4. CASE ScanNothing(g) \/ Subscribe(g)
  <2>1. /\ UNCHANGED <<handed, repeated, crashes>> /\ InWait(g) /\ waiting[g].pc # "advance"
        /\ chan' = chan \/ chan' = [chan EXCEPT ![g] = <<>>]
        /\ \E pc : waiting' = [waiting EXCEPT ![g].pc = pc]
    BY <1>4 DEF ScanNothing, Subscribe, InWait
  <2>2. PICK pc : waiting' = [waiting EXCEPT ![g].pc = pc] BY <2>1
  <2>3. /\ waiting'[g].agent = waiting[g].agent /\ waiting'[g].room = waiting[g].room
        /\ waiting'[g].since = waiting[g].since /\ waiting'[g].explicit = waiting[g].explicit
        /\ \A h \in Listeners \ {g} : waiting'[h] = waiting[h]
    BY <2>2, <1>t DEF TypeOK, WaitingState
  <2>4. \A h \in Listeners : chan'[h] = chan[h] \/ chan'[h] = <<>> BY <2>1, <1>t DEF TypeOK
  <2>5. \A h \in Listeners : Elements(chan[h])' \subseteq Elements(chan[h]) BY <2>4, EmptySeq DEF Elements
  <2> QED BY <1>l, <2>1, <2>3, <2>5, OnceQuiet
<1>5. CASE Ignore(g) \/ PassOwn(g)
  <2>1. /\ UNCHANGED <<waiting, handed, repeated, crashes>> /\ InWait(g) /\ waiting[g].pc # "advance"
        /\ chan' = [chan EXCEPT ![g] = Tail(@)] /\ chan[g] # <<>>
    BY <1>5 DEF Ignore, PassOwn, Receive, InWait
  <2>2. \A h \in Listeners : Elements(chan[h])' \subseteq Elements(chan[h])
    <3>1. chan[g] \in Seq(Message) /\ chan'[g] = Tail(chan[g]) /\ \A h \in Listeners \ {g} : chan'[h] = chan[h]
      BY <2>1, <1>t DEF TypeOK
    <3>2. DOMAIN chan[g] = 1..Len(chan[g]) /\ Len(chan[g]) \in Nat BY <3>1, LenProperties
    <3>3. \A i \in DOMAIN Tail(chan[g]) : i + 1 \in DOMAIN chan[g] /\ Tail(chan[g])[i] = chan[g][i + 1]
      BY <2>1, <3>1, <3>2
    <3>4. Elements(chan[g])' \subseteq Elements(chan[g]) BY <3>1, <3>3 DEF Elements
    <3> QED BY <3>1, <3>4 DEF Elements
  <2> QED BY <1>l, <2>1, <2>2, OnceQuiet DEF InWait
<1>6. CASE ScanAnswer(g) \/ HandOver(g) \/ AdvanceCursor(g)
  <2>1. waiting[g].pc \in {"scan", "listen", "advance"}
    BY <1>6 DEF ScanAnswer, HandOver, Receive, AdvanceCursor
  <2>2. PICK a \in Agents : waiting[g].agent = a BY <1>t, <2>1 DEF Serving
  <2> QED BY <1>6, <1>l, <2>2, OnceScans, OnceHears, OnceAdvances
<1>7. ASSUME NEW a \in Readers, NEW n \in 0..nextID, AgentWait(g, a, n) PROVE OnceInv'
  <2>1. SystemRoom \in RoomIDs BY DeliveryAssumption
  <2> QED BY <1>1, <1>7, <2>1
<1> QED BY <1>1, <1>2, <1>3, <1>4, <1>5, <1>6, <1>7 DEF Listen

-----------------------------------------------------------------------------
(* All steps once more.                                                    *)

LEMMA OnceInit == Init => OnceInv
<1> SUFFICES ASSUME Init PROVE OnceInv OBVIOUS
<1>1. LedgerInv BY LossInit
<1>2. /\ \A p \in Posters : posting[p].pc = "idle"
      /\ \A g \in Listeners : waiting[g].pc = "idle" /\ chan[g] = <<>>
      /\ \A a \in Agents : handed[a] = {} /\ repeated[a] = {}
  BY DEF Init, NoPost, NoWait
<1>3. Sent = {} BY <1>2, EmptySeq DEF Sent, Coming, Notifying, Elements
<1>4. Up /\ HandedUsed /\ SentUsed /\ OneWait BY <1>2, <1>3 DEF Up, HandedUsed, SentUsed, OneWait, InWait
<1>5. ASSUME NEW a \in Agents, NEW r \in RoomIDs PROVE Once(a, r)
  BY <1>2 DEF Once, Behind, SinceBehind
<1> QED BY <1>4, <1>5 DEF OnceInv

LEMMA OnceNext == OneAtATime /\ LedgerInv /\ LossInv /\ OnceInv /\ [Next]_vars => OnceInv'
<1> SUFFICES ASSUME OneAtATime, LedgerInv, LossInv, OnceInv, [Next]_vars PROVE OnceInv'
  OBVIOUS
<1> USE DEF store, history
<1>t. TypeOK BY DEF LedgerInv, IDInv, TypeInv
<1>1. CASE UNCHANGED vars
  <2>1. /\ UNCHANGED <<cursors, waiting, chan, handed, repeated, crashes, nextID, posting>> /\ nextID \in Nat
        /\ \A r \in RoomIDs : messages'[r] = messages[r]
    BY <1>1, <1>t DEF vars, TypeOK
  <2>2. Coming' = Coming /\ \A p \in Posters : Holding(p)' = Holding(p)
    BY <2>1 DEF Coming, Notifying, InHand, Holding
  <2>3. Sent' \subseteq Sent BY <2>1, <2>2 DEF Sent
  <2>4. Up' = Up BY <2>1 DEF Up
  <2> QED BY <1>t, <2>1, <2>2, <2>3, <2>4, OnceKept
<1>2. ASSUME NEW gone \in RoomIDs \cup {Everywhere}, Stop(gone) PROVE OnceInv'
  <2>1. crashes' = crashes + 1 /\ crashes \in Nat BY <1>2, <1>t DEF Stop, TypeOK
  <2> QED BY <2>1 DEF OnceInv
<1>3. ASSUME Start PROVE OnceInv'
  <2>1. crashes' = crashes /\ \A p \in Posters : posting[p].pc = "down" BY <1>3 DEF Start, ServerDown
  <2>2. crashes # 0 BY <2>1, DeliveryAssumption DEF OnceInv, Up
  <2> QED BY <2>1, <2>2 DEF OnceInv
<1> QED BY <1>1, <1>2, <1>3, OncePosts, OnceListen DEF Next

\* For any number of agents, rooms, handlers and messages, and while the server does not
\* stop, an agent that keeps one wait open at a time is handed a message twice in answers it
\* asked nothing special of only when the message's room is stored out of id order
\* (store_messages.go:90): the cursor has passed what was handed over before the agent waits
\* again, and no wait starts behind it (server.go:2044).
THEOREM NothingRepeated ==
  ASSUME OneAtATime
  PROVE  Spec => []RepeatedOnlyOutOfOrder
<1>1. LedgerInv /\ OnceInv => RepeatedOnlyOutOfOrder
  <2> SUFFICES ASSUME LedgerInv, OnceInv, crashes = 0, NEW a \in Agents, NEW r \in RoomIDs,
                      NEW i \in IDs(Stored(r)), i \in repeated[a]
               PROVE  \E j, k \in DOMAIN messages[r] : j < k /\ messages[r][j].id > messages[r][k].id
    BY DEF RepeatedOnlyOutOfOrder
  <2>1. ~Sorted(r) BY DEF OnceInv, Once
  <2>2. PICK j, k \in DOMAIN messages[r] : j < k /\ ~(messages[r][j].id <= messages[r][k].id)
    BY <2>1 DEF Sorted
  <2>3. messages[r][j].id \in Nat /\ messages[r][k].id \in Nat
    BY StoredIDType DEF LedgerInv, IDInv, TypeInv, TypeOK
  <2> QED BY <2>2, <2>3
<1>2. Init => LedgerInv /\ LossInv /\ OnceInv BY LossInit, OnceInit
<1>3. LedgerInv /\ LossInv /\ OnceInv /\ [Next]_vars => (LedgerInv /\ LossInv /\ OnceInv)'
  BY LedgerNext, LossNext, OnceNext
<1> QED BY <1>1, <1>2, <1>3, PTL DEF Spec
=============================================================================
