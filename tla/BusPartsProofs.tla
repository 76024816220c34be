--------------------------- MODULE BusPartsProofs ---------------------------
(***************************************************************************)
(* What the parts of the server beside the message path promise, each an   *)
(* invariant of its component, whose behaviours the composition of         *)
(* MCBusParts has.                                                         *)
(***************************************************************************)
EXTENDS MCBusParts, FiniteSetTheorems, WellFoundedInduction, TLAPS

PostsBounded == MaxPosts \in Nat

\* A post has an id of its own, and the counter is past them all.
Numbered ==
  /\ lastID \in Nat /\ posted \in Nat /\ lastID <= posted /\ posted <= MaxPosts
  /\ \A m \in posts : m.id \in 1..lastID
  /\ \A m, n \in posts : m.id = n.id => m.no = n.no

Shape ==
  /\ reactions = [i \in D!Ids |-> reactions[i]]
  /\ reactionRows = [i \in D!Ids |-> reactionRows[i]]
  /\ doing = [w \in Workers |-> doing[w]]
  /\ \A w \in Workers : doing[w].pc = "unlisted" => doing[w].then \in {"idle", "look"}

\* An id that was given out and stands for post n: no other post has it, nor will.
Meant(i, n) == i \in 1..lastID /\ \A m \in posts : m.id = i => m.no = n

\* Every reaction, in memory, in the table or on its way to them, is for such an id; but
\* for ids a save or a load failed of.
Claimed(i) == reactionRows[i] = reactions[i] /\ \A r \in reactions[i] : Meant(i, r[2])

ClaimsHold ==
  /\ \A i \in D!Ids \ unsaved : Claimed(i)
  /\ \A w \in Workers : doing[w].pc = "add" => Meant(doing[w].id, doing[w].no)

DataInv == Numbered /\ Shape /\ ClaimsHold

-----------------------------------------------------------------------------
\* What the well-founded order of the naturals is needed for.
LEMMA LeastNumber ==
  ASSUME NEW ns \in SUBSET Nat, ns # {}
  PROVE  \E n \in ns : \A m \in ns : n <= m
<1> DEFINE less == {p \in Nat \X Nat : p[1] < p[2]}
<1>1. IsWellFoundedOn(less, Nat) BY NatLessThanWellFounded DEF OpToRel
<1>2. \E n \in ns : \A m \in ns : <<m, n>> \notin less
  <2> HIDE DEF less
  <2> QED BY <1>1, WFMin
<1>3. PICK n \in ns : \A m \in ns : <<m, n>> \notin less BY <1>2
<1>4. \A m \in ns : ~(m < n) BY <1>3
<1> QED BY <1>4

\* The highest id of the stored posts, which a new process continues from.
LEMMA HighestID ==
  ASSUME Numbered, posts # {}
  PROVE  LET top == CHOOSE i \in D!IdsOf(posts) : \A j \in D!IdsOf(posts) : j <= i
         IN  top \in D!IdsOf(posts) /\ \A j \in D!IdsOf(posts) : j <= top
<1> DEFINE gaps == {lastID - i : i \in D!IdsOf(posts)}
<1>1. D!IdsOf(posts) \subseteq 1..lastID BY DEF Numbered, D!IdsOf
<1>2. lastID \in Nat BY DEF Numbered
<1>3. gaps \in SUBSET Nat BY <1>1, <1>2
<1>4. gaps # {} BY DEF D!IdsOf
<1>5. PICK g \in gaps : \A h \in gaps : g <= h
  <2> HIDE DEF gaps
  <2> QED BY <1>3, <1>4, LeastNumber
<1>6. PICK i \in D!IdsOf(posts) : g = lastID - i BY <1>5
<1>7. \A j \in D!IdsOf(posts) : j <= i
  <2> TAKE j \in D!IdsOf(posts)
  <2>1. lastID - j \in gaps BY DEF gaps
  <2>2. lastID - i <= lastID - j BY <2>1, <1>5, <1>6
  <2>3. i \in Int /\ j \in Int BY <1>1
  <2> QED BY <2>2, <2>3, <1>2
<1> QED BY <1>6, <1>7

\* Steps that leave posts and reactions alone and start no adding of one.
LEMMA ElsewhereKeeps ==
  ASSUME DataInv, UNCHANGED <<posts, lastID, posted, reactions, reactionRows, unsaved>>,
         \/ doing' = doing
         \/ \E w \in Workers : /\ doing' = [doing EXCEPT ![w] = doing'[w]]
                               /\ doing'[w].pc # "add"
                               /\ doing'[w].pc = "unlisted" => doing'[w].then \in {"idle", "look"}
  PROVE  DataInv'
<1>1. Numbered' BY DEF DataInv, Numbered
<1>2. Shape'
  <2>1. /\ reactions' = [i \in D!Ids |-> reactions'[i]]
        /\ reactionRows' = [i \in D!Ids |-> reactionRows'[i]]
    BY DEF DataInv, Shape, D!Ids
  <2>2. /\ doing' = [w \in Workers |-> doing'[w]]
        /\ \A w \in Workers : doing'[w].pc = "unlisted" => doing'[w].then \in {"idle", "look"}
    BY DEF DataInv, Shape
  <2> QED BY <2>1, <2>2 DEF Shape, D!Ids
<1>3. \A i, n : Meant(i, n) <=> Meant(i, n)' BY DEF Meant
<1>4. \A w \in Workers : doing'[w].pc = "add" => doing[w].pc = "add" /\ doing'[w] = doing[w]
  BY DEF DataInv, Shape
<1>5. ClaimsHold' BY <1>3, <1>4 DEF DataInv, ClaimsHold, Claimed, D!Ids
<1> QED BY <1>1, <1>2, <1>5 DEF DataInv

\* Deleting the room, or clearing everything, leaves no post that an id could be wrong
\* for.
LEMMA DeleteRoomKeeps ==
  ASSUME DataInv, NEW w \in Workers, D!DeleteRoom(w) \/ D!ClearPosts(w)
  PROVE  DataInv'
<1>1. /\ posts' = {} /\ lastID' = lastID /\ posted' = posted /\ unsaved' = unsaved
      /\ reactions' = reactions /\ reactionRows' = reactionRows
  BY DEF D!DeleteRoom, D!ClearPosts, D!rows
<1>2. PICK pc \in {"look", "unregister"} : doing' = [doing EXCEPT ![w] = [pc |-> pc]]
  BY DEF D!DeleteRoom, D!ClearPosts, D!Turn
<1>3. Numbered' BY <1>1 DEF DataInv, Numbered
<1>4. Shape'
  <2>1. /\ doing' = [v \in Workers |-> doing'[v]]
        /\ \A v \in Workers : doing'[v].pc = "unlisted" => doing'[v].then \in {"idle", "look"}
    BY <1>2 DEF DataInv, Shape
  <2> QED BY <1>1, <2>1 DEF DataInv, Shape, D!Ids
<1>5. \A i, n : Meant(i, n) => Meant(i, n)' BY <1>1 DEF Meant
<1>6. \A v \in Workers : doing'[v].pc = "add" => doing[v].pc = "add" /\ doing'[v] = doing[v]
  BY <1>2 DEF DataInv, Shape
<1>7. ClaimsHold' BY <1>1, <1>5, <1>6 DEF DataInv, ClaimsHold, Claimed, D!Ids
<1> QED BY <1>3, <1>4, <1>7 DEF DataInv

\* A new post takes an id past all that reactions are for.
LEMMA StoreKeeps ==
  ASSUME DataInv, PostsBounded, NEW w \in Workers, D!Store(w)
  PROVE  DataInv'
<1> DEFINE m0 == [id |-> lastID', no |-> posted', image |-> doing[w].image]
<1>1. /\ lastID' = lastID + 1 /\ posted' = posted + 1 /\ posted < MaxPosts
      /\ posts' = posts \cup {m0}
      /\ reactions' = reactions /\ reactionRows' = reactionRows /\ unsaved' = unsaved
      /\ doing' = [doing EXCEPT ![w] = D!Idle]
  BY DEF D!Store, D!Turn, D!rows
<1>2. m0.id = lastID + 1 /\ m0.no = posted + 1 BY <1>1
<1>3. lastID \in Nat /\ posted \in Nat /\ MaxPosts \in Nat /\ lastID <= posted
  BY DEF DataInv, Numbered, PostsBounded
<1>4. \A m \in posts : m.id \in 1..lastID BY DEF DataInv, Numbered
<1> HIDE DEF m0
<1>5. Numbered'
  <2>1. lastID' \in Nat /\ posted' \in Nat /\ lastID' <= posted' /\ posted' <= MaxPosts
    BY <1>1, <1>3
  <2>2. \A m \in posts' : m.id \in 1..lastID' BY <1>1, <1>2, <1>3, <1>4
  <2>3. \A m, n \in posts' : m.id = n.id => m.no = n.no
    <3> SUFFICES ASSUME NEW m \in posts', NEW n \in posts', m.id = n.id PROVE m.no = n.no
      OBVIOUS
    <3>1. CASE m \in posts /\ n \in posts BY <3>1 DEF DataInv, Numbered
    <3>2. CASE m = m0 /\ n = m0 BY <3>2
    <3>3. \A p \in posts : p.id # m0.id BY <1>2, <1>3, <1>4
    <3> QED BY <3>1, <3>2, <3>3, <1>1
  <2> QED BY <2>1, <2>2, <2>3 DEF Numbered
<1>6. Shape'
  <2>1. /\ doing' = [v \in Workers |-> doing'[v]]
        /\ \A v \in Workers : doing'[v].pc = "unlisted" => doing'[v].then \in {"idle", "look"}
    BY <1>1 DEF DataInv, Shape, D!Idle
  <2> QED BY <1>1, <2>1 DEF DataInv, Shape, D!Ids
<1>7. \A i, n : Meant(i, n) => Meant(i, n)'
  <2> SUFFICES ASSUME NEW i, NEW n, Meant(i, n) PROVE Meant(i, n)'
    OBVIOUS
  <2>1. i \in 1..lastID /\ \A m \in posts : m.id = i => m.no = n BY DEF Meant
  <2>2. i \in 1..lastID' BY <2>1, <1>1, <1>3
  <2>3. i # m0.id BY <2>1, <1>2, <1>3
  <2> QED BY <2>1, <2>2, <2>3, <1>1 DEF Meant
<1>8. \A v \in Workers : doing'[v].pc = "add" => doing[v].pc = "add" /\ doing'[v] = doing[v]
  BY <1>1 DEF DataInv, Shape, D!Idle
<1>9. ClaimsHold' BY <1>1, <1>7, <1>8 DEF DataInv, ClaimsHold, Claimed, D!Ids
<1> QED BY <1>5, <1>6, <1>9 DEF DataInv

\* A reaction is asked for on a post that is there.
LEMMA LookKeeps ==
  ASSUME DataInv, NEW w \in Workers, NEW who, NEW m, NEW verb \in {"add", "take"},
         D!Look(w, who, m, verb)
  PROVE  DataInv'
<1>1. /\ posts' = posts /\ lastID' = lastID /\ posted' = posted /\ m \in posts
      /\ reactions' = reactions /\ reactionRows' = reactionRows /\ unsaved' = unsaved
      /\ doing' = [doing EXCEPT ![w] = [pc |-> verb, who |-> who, id |-> m.id, no |-> m.no]]
  BY DEF D!Look, D!Turn, D!rows, D!memory
<1>2. Numbered' BY <1>1 DEF DataInv, Numbered
<1>3. Shape'
  <2>1. /\ doing' = [v \in Workers |-> doing'[v]]
        /\ \A v \in Workers : doing'[v].pc = "unlisted" => doing'[v].then \in {"idle", "look"}
    BY <1>1 DEF DataInv, Shape
  <2> QED BY <1>1, <2>1 DEF DataInv, Shape, D!Ids
<1>4. \A i, n : Meant(i, n) <=> Meant(i, n)' BY <1>1 DEF Meant
<1>5. Meant(m.id, m.no) BY <1>1 DEF Meant, DataInv, Numbered
<1>6. \A v \in Workers : doing'[v].pc = "add" =>
        Meant(doing'[v].id, doing'[v].no)
  <2> TAKE v \in Workers
  <2>1. CASE v = w
    <3>1. doing'[v].id = m.id /\ doing'[v].no = m.no BY <2>1, <1>1 DEF DataInv, Shape
    <3> QED BY <3>1, <1>5
  <2>2. CASE v # w
    <3>1. doing'[v] = doing[v] BY <2>2, <1>1 DEF DataInv, Shape
    <3> QED BY <3>1 DEF DataInv, ClaimsHold
  <2> QED BY <2>1, <2>2
<1>7. ClaimsHold' BY <1>1, <1>4, <1>6 DEF DataInv, ClaimsHold, Claimed, D!Ids
<1> QED BY <1>2, <1>3, <1>7 DEF DataInv

\* A handler that acts on the reactions of an id puts back those that were there, or
\* adds the one it was asked for.
LEMMA ChangeKeeps ==
  ASSUME DataInv, NEW w \in Workers, D!AddReaction(w) \/ D!RemoveReaction(w)
  PROVE  DataInv'
<1> DEFINE d == doing[w]
           old == reactions[d.id]
<1>1. PICK rs : /\ D!Change(w, rs)
                /\ \/ rs \subseteq old
                   \/ d.pc = "add" /\ rs \subseteq old \cup {<<d.who, d.no>>}
  <2>1. CASE D!AddReaction(w)
    <3>1. d.pc = "add" BY <2>1 DEF D!AddReaction
    <3>2. CASE \E r \in old : r[1] = d.who
      <4>1. D!Change(w, old) BY <2>1, <3>2 DEF D!AddReaction
      <4> QED BY <4>1
    <3>3. CASE ~\E r \in old : r[1] = d.who
      <4>1. D!Change(w, old \cup {<<d.who, d.no>>}) BY <2>1, <3>3 DEF D!AddReaction
      <4> QED BY <4>1, <3>1
    <3> QED BY <3>2, <3>3
  <2>2. CASE D!RemoveReaction(w)
    <3>1. D!Change(w, {r \in old : r[1] # d.who}) BY <2>2 DEF D!RemoveReaction
    <3>2. {r \in old : r[1] # d.who} \subseteq old OBVIOUS
    <3> QED BY <3>1, <3>2
  <2> QED BY <2>1, <2>2
<1>2. /\ posts' = posts /\ lastID' = lastID /\ posted' = posted
      /\ reactions' = [reactions EXCEPT ![d.id] = rs]
      /\ \/ reactionRows' = reactionRows /\ unsaved' = unsaved /\ rs = old
         \/ reactionRows' = [reactionRows EXCEPT ![d.id] = rs] /\ unsaved' = unsaved
         \/ reactionRows' = reactionRows /\ unsaved' = unsaved \cup {d.id}
      /\ doing' = [doing EXCEPT ![w] = D!Idle]
  BY <1>1 DEF D!Change, D!Turn
<1>3. Numbered' BY <1>2 DEF DataInv, Numbered
<1>4. Shape'
  <2>1. /\ reactions' = [i \in D!Ids |-> reactions'[i]]
        /\ reactionRows' = [i \in D!Ids |-> reactionRows'[i]]
    <3>1. reactions = [i \in D!Ids |-> reactions[i]] /\ reactionRows = [i \in D!Ids |-> reactionRows[i]]
      BY DEF DataInv, Shape
    <3> QED BY <1>2, <3>1
  <2>2. /\ doing' = [v \in Workers |-> doing'[v]]
        /\ \A v \in Workers : doing'[v].pc = "unlisted" => doing'[v].then \in {"idle", "look"}
    BY <1>2 DEF DataInv, Shape, D!Idle
  <2> QED BY <2>1, <2>2 DEF Shape, D!Ids
<1>5. \A i, n : Meant(i, n) <=> Meant(i, n)' BY <1>2 DEF Meant
<1>6. \A i \in D!Ids \ unsaved' : reactionRows'[i] = reactions'[i] /\ \A r \in reactions'[i] : Meant(i, r[2])
  <2> TAKE i \in D!Ids \ unsaved'
  <2>0. i \in D!Ids \ unsaved /\ Claimed(i) BY <1>2 DEF DataInv, ClaimsHold
  <2>1. CASE i # d.id
    <3>1. reactions'[i] = reactions[i] /\ reactionRows'[i] = reactionRows[i]
      BY <2>0, <2>1, <1>2 DEF DataInv, Shape
    <3> QED BY <2>0, <3>1 DEF Claimed
  <2>2. CASE i = d.id
    <3>1. reactions'[i] = rs BY <2>0, <2>2, <1>2 DEF DataInv, Shape
    <3>2. reactionRows'[i] = rs BY <2>0, <2>2, <1>2 DEF DataInv, Shape, Claimed
    <3>3. \A r \in old : Meant(i, r[2]) BY <2>0, <2>2 DEF Claimed
    <3>4. d.pc = "add" => Meant(i, d.no) BY <2>2 DEF DataInv, ClaimsHold
    <3>5. <<d.who, d.no>>[2] = d.no OBVIOUS
    <3>6. \A r \in rs : Meant(i, r[2]) BY <1>1, <3>3, <3>4, <3>5
    <3> QED BY <3>1, <3>2, <3>6
  <2> QED BY <2>1, <2>2
<1>7. \A v \in Workers : doing'[v].pc = "add" => doing[v].pc = "add" /\ doing'[v] = doing[v]
  BY <1>2 DEF DataInv, Shape, D!Idle
<1>8. \A v \in Workers : doing'[v].pc = "add" => Meant(doing'[v].id, doing'[v].no)
  BY <1>7 DEF DataInv, ClaimsHold
<1>9. ClaimsHold' BY <1>5, <1>6, <1>8 DEF ClaimsHold, Claimed, D!Ids
<1> QED BY <1>3, <1>4, <1>9 DEF DataInv

\* What a sweep, or clearing everything, leaves of the reactions.
Trims(live) ==
  /\ reactions' = [i \in D!Ids |-> IF i \in live THEN reactions[i] ELSE {}]
  /\ reactionRows' \in {reactions', reactionRows} /\ unsaved \subseteq unsaved'
  /\ \A i \in D!Ids \ unsaved' : reactionRows'[i] = reactions'[i]

LEMMA SweepTrims ==
  ASSUME DataInv, NEW w \in Workers
  PROVE  /\ D!CleanupReactions(w) => Trims(doing[w].live)
         /\ D!ClearReactions(w) => Trims({})
<1>2. D!PersistReactions => /\ reactionRows' \in {reactions', reactionRows} /\ unsaved \subseteq unsaved'
                            /\ \A i \in D!Ids \ unsaved' : reactionRows'[i] = reactions'[i]
  BY DEF D!PersistReactions
<1>3. ASSUME D!CleanupReactions(w) PROVE Trims(doing[w].live)
  <2>1. reactions' = [i \in D!Ids |-> IF i \in doing[w].live THEN reactions[i] ELSE {}]
    BY <1>3 DEF D!CleanupReactions, D!Orphaned
  <2>2. CASE reactions' = reactions
    <3>1. reactionRows' = reactionRows /\ unsaved' = unsaved BY <1>3, <2>2 DEF D!CleanupReactions
    <3> QED BY <2>1, <2>2, <3>1 DEF Trims, DataInv, ClaimsHold, Claimed
  <2>3. CASE reactions' # reactions
    <3>1. D!PersistReactions BY <1>3, <2>3 DEF D!CleanupReactions
    <3> QED BY <2>1, <3>1, <1>2 DEF Trims
  <2> QED BY <2>2, <2>3
<1>4. ASSUME D!ClearReactions(w) PROVE Trims({})
  <2>1. reactions' = [i \in D!Ids |-> IF i \in {} THEN reactions[i] ELSE {}] /\ D!PersistReactions
    BY <1>4 DEF D!ClearReactions, D!Orphaned
  <2> QED BY <2>1, <1>2 DEF Trims
<1> QED BY <1>3, <1>4

\* A sweep only takes reactions away, even by a list of ids that is old.
LEMMA SweepKeeps ==
  ASSUME DataInv, NEW w \in Workers, D!CleanupReactions(w) \/ D!ClearReactions(w)
  PROVE  DataInv'
<1>1. PICK live : Trims(live) BY SweepTrims
<1>2. /\ posts' = posts /\ lastID' = lastID /\ posted' = posted
      /\ doing' = [doing EXCEPT ![w] = D!Idle]
  BY DEF D!CleanupReactions, D!ClearReactions, D!Turn
<1>3. Numbered' BY <1>2 DEF DataInv, Numbered
<1>4. Shape'
  <2>1. /\ reactions' = [i \in D!Ids |-> reactions'[i]]
        /\ reactionRows' = [i \in D!Ids |-> reactionRows'[i]]
    BY <1>1 DEF Trims, DataInv, Shape
  <2>2. /\ doing' = [v \in Workers |-> doing'[v]]
        /\ \A v \in Workers : doing'[v].pc = "unlisted" => doing'[v].then \in {"idle", "look"}
    BY <1>2 DEF DataInv, Shape, D!Idle
  <2> QED BY <2>1, <2>2 DEF Shape, D!Ids
<1>5. \A i, n : Meant(i, n) <=> Meant(i, n)' BY <1>2 DEF Meant
<1>6. \A i \in D!Ids \ unsaved' : reactionRows'[i] = reactions'[i] /\ \A r \in reactions'[i] : Meant(i, r[2])
  <2> TAKE i \in D!Ids \ unsaved'
  <2>1. Claimed(i) /\ reactionRows'[i] = reactions'[i] BY <1>1 DEF Trims, DataInv, ClaimsHold
  <2>2. reactions'[i] \subseteq reactions[i] BY <1>1 DEF Trims
  <2> QED BY <2>1, <2>2 DEF Claimed
<1>7. \A v \in Workers : doing'[v].pc = "add" => doing[v].pc = "add" /\ doing'[v] = doing[v]
  BY <1>2 DEF DataInv, Shape, D!Idle
<1>8. \A v \in Workers : doing'[v].pc = "add" => Meant(doing'[v].id, doing'[v].no)
  BY <1>7 DEF DataInv, ClaimsHold
<1>9. ClaimsHold' BY <1>5, <1>6, <1>8 DEF ClaimsHold, Claimed, D!Ids
<1> QED BY <1>3, <1>4, <1>9 DEF DataInv

\* A start that read the rows of an id, and wrote them if it had to, has the reactions
\* of a stored message and none of another.
LEMMA LoadReads ==
  ASSUME D!LoadReactions(D!IdsOf(posts))
  PROVE  /\ reactions' = [i \in D!Ids |-> reactions'[i]]
         /\ reactionRows' \in {reactionRows, reactions'} /\ unsaved \subseteq unsaved'
         /\ \A i \in D!Ids \ unsaved' :
              /\ reactions'[i] = IF i \in D!IdsOf(posts) THEN reactionRows[i] ELSE {}
              /\ reactionRows'[i] = reactions'[i]
<1>1. PICK read \in 0..MaxPosts :
        LET rowsRead == D!Orphaned(1..read, reactionRows) IN
        /\ reactions' = D!Orphaned(D!IdsOf(posts), rowsRead)
        /\ reactionRows' \in {reactionRows} \cup (IF reactions' = rowsRead THEN {} ELSE {reactions'})
        /\ unsaved' = unsaved \cup {i \in D!Ids : \/ rowsRead[i] # reactionRows[i]
                                                  \/ reactionRows'[i] # reactions'[i]}
  BY DEF D!LoadReactions
<1> DEFINE rowsRead == D!Orphaned(1..read, reactionRows)
<1>2. \A i \in D!Ids \ unsaved' : rowsRead[i] = reactionRows[i] /\ reactionRows'[i] = reactions'[i]
  BY <1>1
<1>3. reactions' = [i \in D!Ids |-> IF i \in D!IdsOf(posts) THEN rowsRead[i] ELSE {}]
  BY <1>1 DEF D!Orphaned
<1> HIDE DEF rowsRead
<1>4. reactionRows' \in {reactionRows, reactions'} /\ unsaved \subseteq unsaved' BY <1>1
<1> QED BY <1>2, <1>3, <1>4

\* The counter falls back to the highest id of a post; every reaction to an id above
\* it is swept, in memory and in the table.
LEMMA RestartKeeps ==
  ASSUME DataInv, D!Restart
  PROVE  DataInv'
<1> DEFINE top == CHOOSE i \in D!IdsOf(posts) : \A j \in D!IdsOf(posts) : j <= i
<1>1. /\ posts' = posts /\ posted' = posted
      /\ lastID' = IF posts = {} THEN 0 ELSE top
      /\ D!LoadReactions(D!IdsOf(posts))
      /\ doing' = [w \in Workers |-> D!Idle]
  BY DEF D!Restart, D!LastStored
<1>2. D!IdsOf(posts) \subseteq 1..lastID /\ lastID \in Nat /\ posted \in Nat
      /\ lastID <= posted /\ posted <= MaxPosts
  BY DEF DataInv, Numbered, D!IdsOf
<1>3. lastID' \in Nat /\ lastID' <= lastID /\ D!IdsOf(posts) \subseteq 1..lastID'
  <2>1. CASE posts = {} BY <2>1, <1>1, <1>2 DEF D!IdsOf
  <2>2. CASE posts # {}
    <3>1. top \in D!IdsOf(posts) /\ \A j \in D!IdsOf(posts) : j <= top
      BY <2>2, HighestID DEF DataInv
    <3>2. lastID' = top BY <2>2, <1>1
    <3> HIDE DEF top
    <3> QED BY <3>1, <3>2, <1>2
  <2> QED BY <2>1, <2>2
<1>4. \A m \in posts : m.id \in D!IdsOf(posts) BY DEF D!IdsOf
<1>5. Numbered'
  <2>1. lastID' <= posted' /\ posted' \in Nat /\ posted' <= MaxPosts
    BY <1>1, <1>2, <1>3 DEF DataInv, Numbered
  <2>2. \A m \in posts : m.id \in 1..lastID' BY <1>3, <1>4
  <2>3. \A m, n \in posts : m.id = n.id => m.no = n.no BY DEF DataInv, Numbered
  <2> QED BY <2>1, <2>2, <2>3, <1>1, <1>3 DEF Numbered
<1>6. Shape'
  <2>1. /\ reactions' = [i \in D!Ids |-> reactions'[i]]
        /\ reactionRows' = [i \in D!Ids |-> reactionRows'[i]]
    BY <1>1, LoadReads DEF DataInv, Shape
  <2> QED BY <2>1, <1>1 DEF Shape, D!Idle, D!Ids
<1>7. \A i \in D!Ids \ unsaved' : reactionRows'[i] = reactions'[i] /\ \A r \in reactions'[i] : Meant(i, r[2])'
  <2> TAKE i \in D!Ids \ unsaved'
  <2>1. /\ reactions'[i] = IF i \in D!IdsOf(posts) THEN reactionRows[i] ELSE {}
        /\ reactionRows'[i] = reactions'[i] /\ i \notin unsaved
    BY <1>1, LoadReads
  <2>2. Claimed(i) BY <2>1 DEF DataInv, ClaimsHold
  <2>3. ASSUME NEW r \in reactions'[i] PROVE Meant(i, r[2])'
    <3>1. i \in D!IdsOf(posts) /\ r \in reactions[i] BY <2>1, <2>2, <2>3 DEF Claimed
    <3>2. Meant(i, r[2]) BY <3>1, <2>2 DEF Claimed
    <3> QED BY <3>1, <3>2, <1>1, <1>3 DEF Meant
  <2> QED BY <2>1, <2>3
<1>8. \A v \in Workers : doing'[v].pc # "add" BY <1>1 DEF D!Idle
<1>9. ClaimsHold' BY <1>7, <1>8 DEF ClaimsHold, Claimed, D!Ids
<1> QED BY <1>5, <1>6, <1>9 DEF DataInv

\* Whatever job a worker turns to, if it is not the adding of a reaction and what it
\* does meanwhile is elsewhere.
LEMMA TurnKeeps ==
  ASSUME DataInv, UNCHANGED <<posts, lastID, posted, reactions, reactionRows, unsaved>>,
         NEW w \in Workers, NEW next, D!Turn(w, next), next.pc # "add",
         next.pc = "unlisted" => next.then \in {"idle", "look"}
  PROVE  DataInv'
<1>1. doing' = [doing EXCEPT ![w] = next] BY DEF D!Turn
<1>2. doing'[w] = next BY <1>1 DEF DataInv, Shape
<1> QED BY <1>1, <1>2, ElsewhereKeeps

\* The steps of messages and images, and of a sweep that only looks.
LEMMA OthersKeep ==
  ASSUME DataInv, NEW w \in Workers,
         \/ \E u \in Uploads \cup {NoUpload} : D!Send(w, u)
         \/ D!LiveIDs(w)
         \/ \E u \in Uploads : D!WriteFile(w, u) \/ D!AskDelete(w, u)
         \/ D!AddAttachment(w) \/ D!StartSweep(w)
         \/ D!DeleteAttachment(w) \/ D!CleanupAttachments(w) \/ D!PersistAttachments(w)
         \/ D!ClearRegistry(w) \/ D!ClearFiles(w)
  PROVE  DataInv'
<1>1. UNCHANGED <<posts, lastID, posted, reactions, reactionRows, unsaved>>
  BY DEF D!Send, D!LiveIDs, D!WriteFile, D!AskDelete, D!AddAttachment, D!StartSweep, D!DeleteAttachment,
         D!CleanupAttachments, D!PersistAttachments, D!ClearRegistry, D!ClearFiles, D!Unlist, D!memory, D!rows
<1> DEFINE TurnsTo(next) == /\ D!Turn(w, next) /\ next.pc # "add"
                            /\ next.pc = "unlisted" => next.then \in {"idle", "look"}
<1>2. ASSUME NEW u, D!Send(w, u) PROVE DataInv'
  <2>1. TurnsTo([pc |-> "store", image |-> u]) BY <1>2 DEF D!Send
  <2> QED BY <2>1, <1>1, TurnKeeps
<1>3. CASE D!LiveIDs(w)
  <2>1. TurnsTo([pc |-> "prune", live |-> D!IdsOf(posts)]) BY <1>3 DEF D!LiveIDs
  <2> QED BY <2>1, <1>1, TurnKeeps
<1>4. ASSUME NEW u, D!WriteFile(w, u) PROVE DataInv'
  <2>1. TurnsTo([pc |-> "register", image |-> u]) BY <1>4 DEF D!WriteFile
  <2> QED BY <2>1, <1>1, TurnKeeps
<1>5. ASSUME NEW u, D!AskDelete(w, u) PROVE DataInv'
  <2>1. TurnsTo([pc |-> "remove", gone |-> {u}]) BY <1>5 DEF D!AskDelete
  <2> QED BY <2>1, <1>1, TurnKeeps
<1>6. CASE D!AddAttachment(w)
  <2>1. TurnsTo(D!Idle) BY <1>6 DEF D!AddAttachment, D!Idle
  <2> QED BY <2>1, <1>1, TurnKeeps
<1>7. CASE D!StartSweep(w)
  <2>1. TurnsTo([pc |-> "sweep", shown |-> D!Shown(posts)]) BY <1>7 DEF D!StartSweep
  <2> QED BY <2>1, <1>1, TurnKeeps
<1>8. CASE D!DeleteAttachment(w)
  <2>1. TurnsTo([pc |-> "unlisted", then |-> "idle"]) BY <1>8 DEF D!DeleteAttachment
  <2> QED BY <2>1, <1>1, TurnKeeps
<1>9. CASE D!CleanupAttachments(w)
  <2>1. TurnsTo([pc |-> "unlisted", then |-> "look"]) BY <1>9 DEF D!CleanupAttachments
  <2> QED BY <2>1, <1>1, TurnKeeps
<1>10. CASE D!PersistAttachments(w)
  <2>1. doing[w].then \in {"idle", "look"} BY <1>10 DEF D!PersistAttachments, DataInv, Shape
  <2>2. TurnsTo([pc |-> doing[w].then]) BY <1>10, <2>1 DEF D!PersistAttachments
  <2> QED BY <2>2, <1>1, TurnKeeps
<1>11. CASE D!ClearRegistry(w)
  <2>1. TurnsTo([pc |-> "unlink"]) BY <1>11 DEF D!ClearRegistry
  <2> QED BY <2>1, <1>1, TurnKeeps
<1>12. CASE D!ClearFiles(w)
  <2>1. TurnsTo([pc |-> "forget"]) BY <1>12 DEF D!ClearFiles
  <2> QED BY <2>1, <1>1, TurnKeeps
<1> QED BY <1>2, <1>3, <1>4, <1>5, <1>6, <1>7, <1>8, <1>9, <1>10, <1>11, <1>12

-----------------------------------------------------------------------------
LEMMA DataInvariant ==
  ASSUME PostsBounded
  PROVE  D!Spec => []DataInv
<1>1. D!Init => DataInv
  <2> SUFFICES ASSUME D!Init PROVE DataInv
    OBVIOUS
  <2>1. /\ posts = {} /\ lastID = 0 /\ posted = 0
        /\ reactions = [i \in D!Ids |-> {}] /\ reactionRows = reactions
        /\ doing = [w \in Workers |-> D!Idle]
    BY DEF D!Init
  <2>2. Numbered BY <2>1 DEF Numbered, PostsBounded
  <2>3. Shape BY <2>1 DEF Shape, D!Idle
  <2>4. ClaimsHold BY <2>1 DEF ClaimsHold, Claimed, D!Idle
  <2> QED BY <2>2, <2>3, <2>4 DEF DataInv
<1>2. DataInv /\ [D!Next]_(D!vars) => DataInv'
  <2> SUFFICES ASSUME DataInv, [D!Next]_(D!vars) PROVE DataInv'
    OBVIOUS
  <2>1. CASE UNCHANGED D!vars
    <3>1. UNCHANGED <<posts, lastID, posted, reactions, reactionRows, unsaved>> /\ doing' = doing
      BY <2>1 DEF D!vars, D!memory, D!rows
    <3> QED BY <3>1, ElsewhereKeeps
  <2>2. CASE D!JoinRoom \/ \E u \in Uploads : D!Age(u)
    <3>1. UNCHANGED <<posts, lastID, posted, reactions, reactionRows, unsaved>> /\ doing' = doing
      BY <2>2 DEF D!JoinRoom, D!Age, D!rows
    <3> QED BY <3>1, ElsewhereKeeps
  <2>3. CASE D!Restart BY <2>3, RestartKeeps
  <2>4. ASSUME NEW w \in Workers, D!Store(w) PROVE DataInv' BY <2>4, StoreKeeps
  <2>5. ASSUME NEW w \in Workers, D!DeleteRoom(w) \/ D!ClearPosts(w) PROVE DataInv' BY <2>5, DeleteRoomKeeps
  <2>6. ASSUME NEW w \in Workers,
               \E who \in Reactors, m \in posts, verb \in {"add", "take"} : D!Look(w, who, m, verb)
        PROVE DataInv'
    BY <2>6, LookKeeps
  <2>7. ASSUME NEW w \in Workers, D!AddReaction(w) \/ D!RemoveReaction(w) PROVE DataInv'
    BY <2>7, ChangeKeeps
  <2>8. ASSUME NEW w \in Workers, D!CleanupReactions(w) \/ D!ClearReactions(w) PROVE DataInv'
    BY <2>8, SweepKeeps
  <2> QED BY <2>1, <2>2, <2>3, <2>4, <2>5, <2>6, <2>7, <2>8, OthersKeep DEF D!Next
<1> QED BY <1>1, <1>2, PTL DEF D!Spec

\* A post's reactions were claimed for it.
LEMMA DataTheirs ==
  ASSUME PostsBounded, DataInv
  PROVE  ReactionsTheirs
<1> SUFFICES ASSUME NEW m \in posts, m.id \notin unsaved, NEW r \in reactions[m.id] PROVE r[2] = m.no
  BY DEF ReactionsTheirs, D!ReactionsTheirs
<1>1. m.id \in D!Ids BY DEF DataInv, Numbered, D!Ids, PostsBounded
<1>2. Meant(m.id, r[2]) BY <1>1 DEF DataInv, ClaimsHold, Claimed
<1> QED BY <1>2 DEF Meant

-----------------------------------------------------------------------------
\* A sweep of reactions found every post that is stored, but those stored since; whoever
\* clears everything found none.
SweepsFind ==
  \A w \in Workers :
    /\ doing[w].pc = "prune" => \A m \in posts : m.id \in doing[w].live \/ m.no \in overtaken
    /\ doing[w].pc \in D!Clearing => \A m \in posts : m.no \in overtaken

KeepInv == DataInv /\ SweepsFind

\* What ReactionsKept says of a step.
Keeping ==
  \A m \in posts \cap posts' : \A r \in reactions[m.id] \ reactions'[m.id] :
    \/ m.no \in overtaken
    \/ m.id \in unsaved' /\ \A w \in Workers : doing'[w] = D!Idle
    \/ \E w \in Workers : doing[w].pc = "take" /\ doing[w].who = r[1]

\* Work that leaves the reactions alone.
LEMMA NoneTaken ==
  ASSUME KeepInv, DataInv', UNCHANGED reactions,
         posts' \subseteq posts, overtaken \subseteq overtaken',
         \/ doing' = doing
         \/ \E w \in Workers : /\ doing' = [doing EXCEPT ![w] = doing'[w]]
                               /\ doing'[w].pc = "prune" => doing'[w].live = D!IdsOf(posts)
                               /\ doing'[w].pc \in D!Clearing => doing[w].pc \in D!Clearing \/ posts' = {}
  PROVE  KeepInv' /\ Keeping
<1>1. Keeping BY DEF Keeping
<1>2. \A w \in Workers :
        /\ doing'[w].pc = "prune" => doing'[w] = doing[w] \/ doing'[w].live = D!IdsOf(posts)
        /\ doing'[w].pc \in D!Clearing => doing[w].pc \in D!Clearing \/ posts' = {}
  BY DEF KeepInv, DataInv, Shape
<1>3. SweepsFind'
  <2>1. ASSUME NEW w \in Workers, doing'[w].pc = "prune", NEW m \in posts'
        PROVE  m.id \in doing'[w].live \/ m.no \in overtaken'
    <3>1. CASE doing'[w] = doing[w] BY <2>1, <3>1 DEF KeepInv, SweepsFind
    <3>2. CASE doing'[w].live = D!IdsOf(posts) BY <2>1, <3>2 DEF D!IdsOf
    <3> QED BY <2>1, <1>2, <3>1, <3>2
  <2>2. ASSUME NEW w \in Workers, doing'[w].pc \in D!Clearing, NEW m \in posts'
        PROVE  m.no \in overtaken'
    <3>1. doing[w].pc \in D!Clearing BY <2>2, <1>2
    <3> QED BY <2>2, <3>1 DEF KeepInv, SweepsFind
  <2>3. D!Clearing' = D!Clearing BY DEF D!Clearing
  <2> QED BY <2>1, <2>2, <2>3 DEF SweepsFind
<1> QED BY <1>1, <1>3 DEF KeepInv

\* Work after which its worker is idle.
LEMMA DoneFinds ==
  ASSUME KeepInv, DataInv', NEW w \in Workers, D!Turn(w, D!Idle), UNCHANGED <<posts, overtaken>>
  PROVE  KeepInv'
<1>1. \A v \in Workers : doing'[v].pc \in {"prune"} \cup D!Clearing => doing'[v] = doing[v]
  BY DEF KeepInv, DataInv, Shape, D!Turn, D!Idle, D!Clearing
<1>2. D!Clearing' = D!Clearing BY DEF D!Clearing
<1>3. SweepsFind' BY <1>1, <1>2 DEF KeepInv, SweepsFind
<1> QED BY <1>3 DEF KeepInv

LEMMA StoreSpares ==
  ASSUME KeepInv, DataInv', NEW w \in Workers, D!Store(w)
  PROVE  KeepInv' /\ Keeping
<1> DEFINE m0 == [id |-> lastID', no |-> posted', image |-> doing[w].image]
<1>1. /\ posts' = posts \cup {m0} /\ UNCHANGED <<reactions, reactionRows>>
      /\ overtaken' = IF \E v \in Workers : doing[v].pc \in {"prune"} \cup D!Clearing
                      THEN overtaken \cup {posted'} ELSE overtaken
      /\ doing' = [doing EXCEPT ![w] = D!Idle]
  BY DEF D!Store, D!Turn, D!rows
<1>2. m0.no = posted' OBVIOUS
<1> HIDE DEF m0
<1>3. Keeping BY <1>1 DEF Keeping
<1>4. \A v \in Workers : doing'[v].pc \in {"prune"} \cup D!Clearing => doing'[v] = doing[v]
  BY <1>1 DEF KeepInv, DataInv, Shape, D!Idle, D!Clearing
<1>5. \A v \in Workers : doing'[v].pc \in {"prune"} \cup D!Clearing => overtaken' = overtaken \cup {m0.no}
  BY <1>1, <1>2, <1>4
<1>6. D!Clearing' = D!Clearing BY DEF D!Clearing
<1>7. SweepsFind' BY <1>1, <1>4, <1>5, <1>6 DEF KeepInv, SweepsFind
<1> QED BY <1>3, <1>7 DEF KeepInv

LEMMA ChangeSpares ==
  ASSUME PostsBounded, KeepInv, DataInv', NEW w \in Workers, D!AddReaction(w) \/ D!RemoveReaction(w)
  PROVE  KeepInv' /\ Keeping
<1> DEFINE i == doing[w].id
<1>1. PICK rs : /\ reactions' = [reactions EXCEPT ![i] = rs]
                /\ D!Turn(w, D!Idle) /\ UNCHANGED <<posts, overtaken>>
                /\ \/ reactions[i] \subseteq rs
                   \/ doing[w].pc = "take" /\ rs = {r \in reactions[i] : r[1] # doing[w].who}
  <2>1. ASSUME NEW rs, D!Change(w, rs)
        PROVE  /\ reactions' = [reactions EXCEPT ![i] = rs]
               /\ D!Turn(w, D!Idle) /\ UNCHANGED <<posts, overtaken>>
    BY <2>1 DEF D!Change
  <2>2. CASE D!AddReaction(w)
    <3>1. PICK rs : D!Change(w, rs) /\ reactions[i] \subseteq rs BY <2>2 DEF D!AddReaction
    <3> QED BY <2>1, <3>1
  <2>3. CASE D!RemoveReaction(w)
    <3>1. doing[w].pc = "take" /\ D!Change(w, {r \in reactions[i] : r[1] # doing[w].who})
      BY <2>3 DEF D!RemoveReaction
    <3> QED BY <2>1, <3>1
  <2> QED BY <2>2, <2>3
<1>2. \A j \in D!Ids : reactions'[j] = IF j = i THEN rs ELSE reactions[j]
  BY <1>1 DEF KeepInv, DataInv, Shape
<1>3. \A m \in posts : m.id \in D!Ids BY DEF KeepInv, DataInv, Numbered, D!Ids, PostsBounded
<1>4. Keeping BY <1>1, <1>2, <1>3 DEF Keeping
<1>5. KeepInv' BY <1>1, DoneFinds
<1> QED BY <1>4, <1>5

LEMMA CleanupSpares ==
  ASSUME PostsBounded, KeepInv, DataInv', NEW w \in Workers, D!CleanupReactions(w) \/ D!ClearReactions(w)
  PROVE  KeepInv' /\ Keeping
<1>1. UNCHANGED <<posts, overtaken>> /\ D!Turn(w, D!Idle) BY DEF D!CleanupReactions, D!ClearReactions
<1>2. \A m \in posts : m.id \in D!Ids BY DEF KeepInv, DataInv, Numbered, D!Ids, PostsBounded
<1>3. \A m \in posts : reactions'[m.id] = reactions[m.id] \/ m.no \in overtaken
  <2>1. CASE D!CleanupReactions(w)
    <3>1. Trims(doing[w].live) /\ doing[w].pc = "prune" BY <2>1, SweepTrims DEF KeepInv, D!CleanupReactions
    <3> QED BY <3>1, <1>2 DEF Trims, KeepInv, SweepsFind
  <2>2. CASE D!ClearReactions(w)
    <3>1. doing[w].pc \in D!Clearing BY <2>2 DEF D!ClearReactions, D!Clearing
    <3> QED BY <3>1 DEF KeepInv, SweepsFind
  <2> QED BY <2>1, <2>2
<1>4. Keeping BY <1>3 DEF Keeping
<1>5. KeepInv' BY <1>1, DoneFinds
<1> QED BY <1>4, <1>5

LEMMA RestartSpares ==
  ASSUME PostsBounded, KeepInv, DataInv', D!Restart
  PROVE  KeepInv' /\ Keeping
<1>1. /\ UNCHANGED <<posts, overtaken>> /\ D!LoadReactions(D!IdsOf(posts))
      /\ \A v \in Workers : doing'[v] = D!Idle
  BY DEF D!Restart
<1>2. \A m \in posts : m.id \in D!Ids /\ m.id \in D!IdsOf(posts)
  BY DEF KeepInv, DataInv, Numbered, D!Ids, D!IdsOf, PostsBounded
<1>3. \A m \in posts : m.id \notin unsaved' => reactions'[m.id] = reactions[m.id]
  <2> SUFFICES ASSUME NEW m \in posts, m.id \notin unsaved' PROVE reactions'[m.id] = reactions[m.id]
    OBVIOUS
  <2>1. reactions'[m.id] = reactionRows[m.id] /\ m.id \notin unsaved BY <1>1, <1>2, LoadReads
  <2>2. Claimed(m.id) BY <1>2, <2>1 DEF KeepInv, DataInv, ClaimsHold
  <2> QED BY <2>1, <2>2 DEF Claimed
<1>4. Keeping BY <1>1, <1>3 DEF Keeping
<1>5. \A v \in Workers : doing'[v].pc # "prune" /\ doing'[v].pc \notin D!Clearing
  BY <1>1 DEF D!Idle, D!Clearing
<1>6. D!Clearing' = D!Clearing BY DEF D!Clearing
<1>7. SweepsFind' BY <1>5, <1>6 DEF SweepsFind
<1> QED BY <1>4, <1>7 DEF KeepInv

\* Any other job a worker turns to.
LEMMA TurnSpares ==
  ASSUME KeepInv, DataInv', NEW w \in Workers, NEW next, D!Turn(w, next),
         next.pc = "prune" => next.live = D!IdsOf(posts),
         next.pc \in D!Clearing => doing[w].pc \in D!Clearing \/ posts' = {},
         UNCHANGED <<reactions, overtaken>>, posts' \subseteq posts
  PROVE  KeepInv' /\ Keeping
<1>1. doing' = [doing EXCEPT ![w] = next] BY DEF D!Turn
<1>2. doing'[w] = next BY <1>1 DEF KeepInv, DataInv, Shape
<1> QED BY <1>1, <1>2, NoneTaken

LEMMA JobsSpare ==
  ASSUME KeepInv, DataInv', NEW w \in Workers,
         \/ \E u \in Uploads \cup {NoUpload} : D!Send(w, u)
         \/ \E who \in Reactors, m \in posts, verb \in {"add", "take"} : D!Look(w, who, m, verb)
         \/ D!DeleteRoom(w) \/ D!LiveIDs(w)
         \/ \E u \in Uploads : D!WriteFile(w, u) \/ D!AskDelete(w, u)
         \/ D!AddAttachment(w) \/ D!StartSweep(w)
         \/ D!DeleteAttachment(w) \/ D!CleanupAttachments(w) \/ D!PersistAttachments(w)
         \/ D!ClearPosts(w) \/ D!ClearRegistry(w) \/ D!ClearFiles(w)
  PROVE  KeepInv' /\ Keeping
<1> DEFINE TurnsTo(next) == /\ D!Turn(w, next)
                            /\ next.pc = "prune" => next.live = D!IdsOf(posts)
                            /\ next.pc \in D!Clearing => doing[w].pc \in D!Clearing \/ posts' = {}
<1> USE DEF D!Clearing
<1>1. UNCHANGED <<reactions, overtaken>> /\ posts' \subseteq posts
  BY DEF D!Send, D!Look, D!DeleteRoom, D!LiveIDs, D!WriteFile, D!AskDelete, D!AddAttachment,
         D!StartSweep, D!DeleteAttachment, D!CleanupAttachments, D!PersistAttachments, D!Unlist,
         D!ClearPosts, D!ClearRegistry, D!ClearFiles, D!memory, D!rows
<1>2. ASSUME NEW next, TurnsTo(next) PROVE KeepInv' /\ Keeping BY <1>1, <1>2, TurnSpares
<1>3. ASSUME NEW u, D!Send(w, u) PROVE TurnsTo([pc |-> "store", image |-> u]) BY <1>3 DEF D!Send
<1>4. ASSUME NEW who, NEW m, NEW verb \in {"add", "take"}, D!Look(w, who, m, verb)
      PROVE  TurnsTo([pc |-> verb, who |-> who, id |-> m.id, no |-> m.no])
  BY <1>4 DEF D!Look
<1>5. CASE D!DeleteRoom(w)
  <2>1. TurnsTo([pc |-> "look"]) BY <1>5 DEF D!DeleteRoom
  <2> QED BY <2>1, <1>2
<1>6. CASE D!LiveIDs(w)
  <2>1. TurnsTo([pc |-> "prune", live |-> D!IdsOf(posts)]) BY <1>6 DEF D!LiveIDs
  <2> QED BY <2>1, <1>2
<1>7. ASSUME NEW u, D!WriteFile(w, u) PROVE TurnsTo([pc |-> "register", image |-> u])
  BY <1>7 DEF D!WriteFile
<1>8. ASSUME NEW u, D!AskDelete(w, u) PROVE TurnsTo([pc |-> "remove", gone |-> {u}])
  BY <1>8 DEF D!AskDelete
<1>9. CASE D!AddAttachment(w)
  <2>1. TurnsTo(D!Idle) BY <1>9 DEF D!AddAttachment, D!Idle
  <2> QED BY <2>1, <1>2
<1>10. CASE D!StartSweep(w)
  <2>1. TurnsTo([pc |-> "sweep", shown |-> D!Shown(posts)]) BY <1>10 DEF D!StartSweep
  <2> QED BY <2>1, <1>2
<1>11. CASE D!DeleteAttachment(w) \/ D!CleanupAttachments(w)
  <2>1. PICK then \in {"idle", "look"} : D!Turn(w, [pc |-> "unlisted", then |-> then])
    BY <1>11 DEF D!DeleteAttachment, D!CleanupAttachments
  <2>2. TurnsTo([pc |-> "unlisted", then |-> then]) BY <2>1
  <2> QED BY <2>2, <1>2
<1>12. CASE D!PersistAttachments(w)
  <2>1. D!Turn(w, [pc |-> doing[w].then]) /\ doing[w].then \in {"idle", "look"}
    BY <1>12 DEF D!PersistAttachments, KeepInv, DataInv, Shape
  <2>2. TurnsTo([pc |-> doing[w].then]) BY <2>1
  <2> QED BY <2>2, <1>2
<1>13. CASE D!ClearPosts(w)
  <2>1. TurnsTo([pc |-> "unregister"]) BY <1>13 DEF D!ClearPosts
  <2> QED BY <2>1, <1>2
<1>14. CASE D!ClearRegistry(w)
  <2>1. TurnsTo([pc |-> "unlink"]) BY <1>14 DEF D!ClearRegistry
  <2> QED BY <2>1, <1>2
<1>15. CASE D!ClearFiles(w)
  <2>1. TurnsTo([pc |-> "forget"]) BY <1>15 DEF D!ClearFiles
  <2> QED BY <2>1, <1>2
<1> HIDE DEF TurnsTo
<1> QED BY <1>2, <1>3, <1>4, <1>5, <1>6, <1>7, <1>8, <1>9, <1>10, <1>11, <1>12,
           <1>13, <1>14, <1>15

LEMMA KeepStep ==
  ASSUME PostsBounded, KeepInv, DataInv', [D!Next]_(D!vars)
  PROVE  KeepInv' /\ Keeping
<1>1. CASE D!JoinRoom \/ (\E u \in Uploads : D!Age(u)) \/ UNCHANGED D!vars
  <2>1. UNCHANGED <<posts, reactions, overtaken, doing>>
    BY <1>1 DEF D!JoinRoom, D!Age, D!vars, D!memory, D!rows
  <2> QED BY <2>1, NoneTaken
<1>2. CASE D!Restart BY <1>2, RestartSpares
<1>3. ASSUME NEW w \in Workers, D!Store(w) PROVE KeepInv' /\ Keeping BY <1>3, StoreSpares
<1>4. ASSUME NEW w \in Workers, D!AddReaction(w) \/ D!RemoveReaction(w) PROVE KeepInv' /\ Keeping
  BY <1>4, ChangeSpares
<1>5. ASSUME NEW w \in Workers, D!CleanupReactions(w) \/ D!ClearReactions(w) PROVE KeepInv' /\ Keeping
  BY <1>5, CleanupSpares
<1> QED BY <1>1, <1>2, <1>3, <1>4, <1>5, JobsSpare DEF D!Next

LEMMA KeptByAll ==
  ASSUME PostsBounded
  PROVE  D!Spec => D!ReactionsKept
<1>1. D!Init => SweepsFind BY DEF D!Init, SweepsFind, D!Idle, D!Clearing
<1>2. KeepInv /\ DataInv' /\ [D!Next]_(D!vars) => KeepInv' /\ Keeping BY KeepStep
<1>3. D!Spec => []DataInv BY DataInvariant
<1>4. D!Spec => []KeepInv
  <2>1. DataInv /\ SweepsFind <=> KeepInv BY DEF KeepInv
  <2>2. KeepInv /\ DataInv' /\ [D!Next]_(D!vars) => KeepInv' BY <1>2
  <2> QED BY <1>1, <1>3, <2>1, <2>2, PTL DEF D!Spec
<1>5. KeepInv /\ DataInv' /\ [D!Next]_(D!vars) => [Keeping]_(D!vars) BY <1>2
<1> QED BY <1>3, <1>4, <1>5, PTL DEF D!Spec, D!ReactionsKept, Keeping

-----------------------------------------------------------------------------
\* What is registered is on disk and in the table; a kill, a failed save or a prune -a
\* may have come between.
Registered == registry \subseteq (files \cap registryRows) \cup unserved

\* An image on its way to the registry is on disk, unless everything is being cleared,
\* and nobody's but the uploader's.
Uploading ==
  \A w \in Workers : doing[w].pc = "register" =>
    /\ doing[w].image \in (files \cup unserved) \ (registry \cup aged)
    /\ \A v \in Workers \ {w} : doing[v].pc = "register" => doing[v].image # doing[w].image

\* A deletion and a sweep take no image of a post but those posted meanwhile.
RemovalsSpare ==
  \A w \in Workers :
    /\ doing[w].pc = "remove" => doing[w].gone \cap D!Shown(posts) \subseteq unserved
    /\ doing[w].pc = "sweep" => D!Shown(posts) \subseteq doing[w].shown \cup unserved

Held == doing = [w \in Workers |-> doing[w]]

ImageInv == Held /\ Registered /\ Uploading /\ RemovalsSpare /\ ImagesServed
-----------------------------------------------------------------------------
\* Work that touches no image, and starts none that does.
LEMMA ImagesUntouched ==
  ASSUME ImageInv, UNCHANGED <<files, registry, registryRows, aged, unserved>>,
         D!Shown(posts') \subseteq D!Shown(posts), posts' \subseteq posts,
         \/ doing' = doing
         \/ \E w \in Workers : /\ doing' = [doing EXCEPT ![w] = doing'[w]]
                               /\ doing'[w].pc \notin {"register", "remove", "sweep"}
  PROVE  ImageInv'
<1>1. Held' BY DEF ImageInv, Held
<1>2. \A w \in Workers : doing'[w].pc \in {"register", "remove", "sweep"} => doing'[w] = doing[w]
  BY DEF ImageInv, Held
<1>3. Registered' BY DEF ImageInv, Registered
<1>4. Uploading' BY <1>2 DEF ImageInv, Uploading
<1>5. RemovalsSpare' BY <1>2 DEF ImageInv, RemovalsSpare
<1>6. ImagesServed' BY DEF ImageInv, ImagesServed, D!ImagesServed
<1> QED BY <1>1, <1>3, <1>4, <1>5, <1>6 DEF ImageInv

LEMMA ShownTwo ==
  ASSUME NEW A, NEW B, A \subseteq B
  PROVE  D!Shown(A) \subseteq D!Shown(B)
BY DEF D!Shown

\* A message is posted with an image that is there, or with an excuse.
LEMMA StoreServes ==
  ASSUME ImageInv, NEW w \in Workers, D!Store(w)
  PROVE  ImageInv'
<1> DEFINE u == doing[w].image
           m0 == [id |-> lastID', no |-> posted', image |-> u]
           risky == u \notin registry \/ \E v \in Workers : doing[v].pc \in {"remove", "sweep"}
<1>1. /\ posts' = posts \cup {m0}
      /\ unserved' = IF risky THEN unserved \cup {u} ELSE unserved
      /\ doing' = [doing EXCEPT ![w] = D!Idle]
      /\ UNCHANGED <<files, registry, registryRows, aged>>
  BY DEF D!Store, D!Turn, D!rows
<1>2. m0.image = u OBVIOUS
<1> HIDE DEF m0
<1>3. Held' BY <1>1 DEF ImageInv, Held
<1>4. \A v \in Workers : doing'[v].pc \in {"register", "remove", "sweep"} => doing'[v] = doing[v]
  BY <1>1 DEF ImageInv, Held, D!Idle
<1>5. unserved \subseteq unserved' BY <1>1
<1>6. Registered' BY <1>1, <1>5 DEF ImageInv, Registered
<1>7. Uploading' BY <1>1, <1>4 DEF ImageInv, Uploading
<1>8. RemovalsSpare'
  <2>1. D!Shown(posts') \subseteq D!Shown(posts) \cup {u} BY <1>1, <1>2 DEF D!Shown
  <2>2. ASSUME NEW v \in Workers, doing'[v].pc \in {"remove", "sweep"}
        PROVE  doing'[v] = doing[v] /\ u \in unserved'
    BY <2>2, <1>1, <1>4
  <2> QED BY <2>1, <2>2, <1>5 DEF ImageInv, RemovalsSpare
<1>9. ImagesServed'
  <2> SUFFICES ASSUME NEW m \in posts'
               PROVE  m.image \in (files' \cap registry') \cup unserved' \cup {NoUpload}
    BY DEF ImagesServed, D!ImagesServed
  <2>1. CASE m \in posts BY <2>1, <1>1, <1>5 DEF ImageInv, ImagesServed, D!ImagesServed
  <2>2. CASE m = m0
    <3>1. CASE risky BY <3>1, <2>2, <1>1, <1>2
    <3>2. CASE ~risky BY <3>2, <2>2, <1>1, <1>2 DEF ImageInv, Registered
    <3> QED BY <3>1, <3>2
  <2> QED BY <2>1, <2>2, <1>1
<1> QED BY <1>3, <1>6, <1>7, <1>8, <1>9 DEF ImageInv

\* An upload is on disk before it is registered.
LEMMA UploadServes ==
  ASSUME ImageInv, NEW w \in Workers, (\E u \in Uploads : D!WriteFile(w, u)) \/ D!AddAttachment(w)
  PROVE  ImageInv'
<1>1. ASSUME NEW u \in Uploads, D!WriteFile(w, u) PROVE ImageInv'
  <2>1. /\ files' = files \cup {u} /\ u \notin files \cup registry \cup aged
        /\ \A v \in Workers : doing[v].pc = "register" => doing[v].image # u
        /\ doing' = [doing EXCEPT ![w] = [pc |-> "register", image |-> u]]
        /\ UNCHANGED <<posts, registry, registryRows, aged, unserved>>
    BY <1>1 DEF D!WriteFile, D!Turn, D!rows
  <2>2. Held' BY <2>1 DEF ImageInv, Held
  <2>3. \A v \in Workers \ {w} : doing'[v] = doing[v] BY <2>1 DEF ImageInv, Held
  <2>4. doing'[w] = [pc |-> "register", image |-> u] BY <2>1 DEF ImageInv, Held
  <2>5. Registered' BY <2>1 DEF ImageInv, Registered
  <2>6. Uploading' BY <2>1, <2>3, <2>4 DEF ImageInv, Uploading
  <2>7. RemovalsSpare' BY <2>1, <2>3, <2>4 DEF ImageInv, RemovalsSpare
  <2>8. ImagesServed' BY <2>1 DEF ImageInv, ImagesServed, D!ImagesServed
  <2> QED BY <2>2, <2>5, <2>6, <2>7, <2>8 DEF ImageInv
<1>2. CASE D!AddAttachment(w)
  <2> DEFINE u == doing[w].image
  <2>1. /\ registry' = registry \cup {u} /\ doing[w].pc = "register"
        /\ \/ registryRows' = registry' /\ unserved' = unserved
           \/ registryRows' = registryRows /\ unserved' = unserved \cup {u}
        /\ doing' = [doing EXCEPT ![w] = D!Idle]
        /\ UNCHANGED <<posts, files, aged>>
    BY <1>2 DEF D!AddAttachment, D!Turn
  <2>2. Held' BY <2>1 DEF ImageInv, Held
  <2>3. \A v \in Workers : doing'[v].pc \in {"register", "remove", "sweep"} => v # w /\ doing'[v] = doing[v]
    BY <2>1 DEF ImageInv, Held, D!Idle
  <2>4. u \in files \cup unserved BY <2>1 DEF ImageInv, Uploading
  <2>5. Registered' BY <2>1, <2>4 DEF ImageInv, Registered
  <2>6. Uploading' BY <2>1, <2>3 DEF ImageInv, Uploading
  <2>7. RemovalsSpare' BY <2>1, <2>3 DEF ImageInv, RemovalsSpare
  <2>8. ImagesServed' BY <2>1 DEF ImageInv, ImagesServed, D!ImagesServed
  <2> QED BY <2>2, <2>5, <2>6, <2>7, <2>8 DEF ImageInv
<1> QED BY <1>1, <1>2

\* A deletion is asked for, or a sweep begun, beside the posts that are stored.
LEMMA AskServes ==
  ASSUME ImageInv, NEW w \in Workers, (\E u \in Uploads : D!AskDelete(w, u)) \/ D!StartSweep(w)
  PROVE  ImageInv'
<1>0. UNCHANGED <<posts, files, registry, registryRows, aged, unserved>>
  BY DEF D!AskDelete, D!StartSweep, D!memory, D!rows
<1>1. PICK next : /\ doing' = [doing EXCEPT ![w] = next]
                  /\ \/ next.pc = "remove" /\ next.gone \cap D!Shown(posts) = {}
                     \/ next.pc = "sweep" /\ next.shown = D!Shown(posts)
  <2>1. ASSUME NEW u \in Uploads, D!AskDelete(w, u)
        PROVE  \E next : /\ doing' = [doing EXCEPT ![w] = next]
                         /\ next.pc = "remove" /\ next.gone \cap D!Shown(posts) = {}
    <3>1. doing' = [doing EXCEPT ![w] = [pc |-> "remove", gone |-> {u}]] /\ u \notin D!Shown(posts)
      BY <2>1 DEF D!AskDelete, D!Turn
    <3>2. [pc |-> "remove", gone |-> {u}].gone = {u} /\ [pc |-> "remove", gone |-> {u}].pc = "remove"
      OBVIOUS
    <3>3. {u} \cap D!Shown(posts) = {} BY <3>1
    <3> QED BY <3>1, <3>2, <3>3
  <2>2. ASSUME D!StartSweep(w)
        PROVE  \E next : /\ doing' = [doing EXCEPT ![w] = next]
                         /\ next.pc = "sweep" /\ next.shown = D!Shown(posts)
    <3>1. doing' = [doing EXCEPT ![w] = [pc |-> "sweep", shown |-> D!Shown(posts)]]
      BY <2>2 DEF D!StartSweep, D!Turn
    <3>2. /\ [pc |-> "sweep", shown |-> D!Shown(posts)].pc = "sweep"
          /\ [pc |-> "sweep", shown |-> D!Shown(posts)].shown = D!Shown(posts)
      OBVIOUS
    <3> QED BY <3>1, <3>2
  <2> QED BY <2>1, <2>2
<1>2. Held' BY <1>1 DEF ImageInv, Held
<1>3. doing'[w] = next /\ \A v \in Workers \ {w} : doing'[v] = doing[v]
  BY <1>1 DEF ImageInv, Held
<1>4. Registered' BY <1>0 DEF ImageInv, Registered
<1>5. Uploading' BY <1>0, <1>1, <1>3 DEF ImageInv, Uploading
<1>6. RemovalsSpare'
  <2> SUFFICES ASSUME NEW v \in Workers
               PROVE  /\ doing'[v].pc = "remove" => doing'[v].gone \cap D!Shown(posts) \subseteq unserved
                      /\ doing'[v].pc = "sweep" => D!Shown(posts) \subseteq doing'[v].shown \cup unserved
    BY <1>0 DEF RemovalsSpare
  <2>1. CASE v = w BY <2>1, <1>1, <1>3
  <2>2. CASE v # w BY <2>2, <1>3 DEF ImageInv, RemovalsSpare
  <2> QED BY <2>1, <2>2
<1>7. ImagesServed' BY <1>0 DEF ImageInv, ImagesServed, D!ImagesServed
<1> QED BY <1>2, <1>4, <1>5, <1>6, <1>7 DEF ImageInv

\* What a deletion or a sweep takes no post shows, but those with an excuse.
LEMMA UnlistServes ==
  ASSUME ImageInv, NEW w \in Workers, D!DeleteAttachment(w) \/ D!CleanupAttachments(w)
  PROVE  ImageInv'
<1>1. PICK gone : /\ registry' = registry \ gone /\ files' = files \ gone
                  /\ gone \subseteq registry \cup aged
                  /\ gone \cap D!Shown(posts) \subseteq unserved
  <2> DEFINE Takes(gone) == /\ registry' = registry \ gone /\ files' = files \ gone
                            /\ gone \subseteq registry \cup aged
                            /\ gone \cap D!Shown(posts) \subseteq unserved
  <2>1. CASE D!DeleteAttachment(w)
    <3>1. /\ registry' = registry \ (registry \cap doing[w].gone)
          /\ files' = files \ (registry \cap doing[w].gone)
          /\ doing[w].pc = "remove"
      BY <2>1 DEF D!DeleteAttachment, D!Unlist
    <3>2. doing[w].gone \cap D!Shown(posts) \subseteq unserved BY <3>1 DEF ImageInv, RemovalsSpare
    <3>3. Takes(registry \cap doing[w].gone) BY <3>1, <3>2
    <3> QED BY <3>3
  <2>2. CASE D!CleanupAttachments(w)
    <3>1. /\ registry' = registry \ (aged \ doing[w].shown)
          /\ files' = files \ (aged \ doing[w].shown)
          /\ doing[w].pc = "sweep"
      BY <2>2 DEF D!CleanupAttachments, D!Unlist
    <3>2. D!Shown(posts) \subseteq doing[w].shown \cup unserved BY <3>1 DEF ImageInv, RemovalsSpare
    <3>3. Takes(aged \ doing[w].shown) BY <3>1, <3>2
    <3> QED BY <3>3
  <2> QED BY <2>1, <2>2
<1>2. /\ UNCHANGED <<posts, registryRows, aged, unserved>>
      /\ \E then : doing' = [doing EXCEPT ![w] = [pc |-> "unlisted", then |-> then]]
  BY DEF D!DeleteAttachment, D!CleanupAttachments, D!Unlist, D!Turn, D!rows
<1>3. Held' BY <1>2 DEF ImageInv, Held
<1>4. \A v \in Workers : doing'[v].pc \in {"register", "remove", "sweep"} => doing'[v] = doing[v]
  BY <1>2 DEF ImageInv, Held
<1>5. Registered' BY <1>1, <1>2 DEF ImageInv, Registered
<1>6. Uploading' BY <1>1, <1>2, <1>4 DEF ImageInv, Uploading
<1>7. RemovalsSpare' BY <1>2, <1>4 DEF ImageInv, RemovalsSpare
<1>8. ImagesServed'
  <2> SUFFICES ASSUME NEW m \in posts
               PROVE  m.image \in (files' \cap registry') \cup unserved \cup {NoUpload}
    BY <1>2 DEF ImagesServed, D!ImagesServed
  <2>1. m.image \in D!Shown(posts) \cup {NoUpload} BY DEF D!Shown
  <2> QED BY <2>1, <1>1 DEF ImageInv, ImagesServed, D!ImagesServed
<1> QED BY <1>3, <1>5, <1>6, <1>7, <1>8 DEF ImageInv

\* The table is written behind the memory, which only lost entries.
LEMMA PersistServes ==
  ASSUME ImageInv, NEW w \in Workers, D!PersistAttachments(w), doing[w].then \in {"idle", "look"}
  PROVE  ImageInv'
<1>1. /\ registryRows' \in {registry, registryRows} /\ UNCHANGED <<posts, files, registry, aged, unserved>>
      /\ doing' = [doing EXCEPT ![w] = [pc |-> doing[w].then]]
  BY DEF D!PersistAttachments, D!Turn, D!memory
<1>2. Held' BY <1>1 DEF ImageInv, Held
<1>3. \A v \in Workers : doing'[v].pc \in {"register", "remove", "sweep"} => doing'[v] = doing[v]
  BY <1>1 DEF ImageInv, Held
<1>4. Registered' BY <1>1 DEF ImageInv, Registered
<1>5. Uploading' BY <1>1, <1>3 DEF ImageInv, Uploading
<1>6. RemovalsSpare' BY <1>1, <1>3 DEF ImageInv, RemovalsSpare
<1>7. ImagesServed' BY <1>1 DEF ImageInv, ImagesServed, D!ImagesServed
<1> QED BY <1>2, <1>4, <1>5, <1>6, <1>7 DEF ImageInv

\* Clearing everything takes images of posts only with an excuse: those registered, or
\* on their way to be.
LEMMA ClearsServe ==
  ASSUME ImageInv, NEW w \in Workers, D!ClearRegistry(w) \/ D!ClearFiles(w)
  PROVE  ImageInv'
<1>1. PICK pc \in {"unlink", "forget"} : doing' = [doing EXCEPT ![w] = [pc |-> pc]]
  BY DEF D!ClearRegistry, D!ClearFiles, D!Turn
<1>2. Held' BY <1>1 DEF ImageInv, Held
<1>3. \A v \in Workers : doing'[v].pc \in {"register", "remove", "sweep"} => doing'[v] = doing[v]
  BY <1>1 DEF ImageInv, Held
<1>4. UNCHANGED <<posts, aged>> /\ unserved \cup registry \subseteq unserved'
  BY DEF D!ClearRegistry, D!ClearFiles
<1>5. RemovalsSpare' BY <1>3, <1>4 DEF ImageInv, RemovalsSpare
<1>6. ImagesServed' BY <1>4 DEF ImageInv, ImagesServed, D!ImagesServed
<1>7. registry' \subseteq registry BY DEF D!ClearRegistry, D!ClearFiles
<1>8. Registered' BY <1>4, <1>7 DEF Registered
<1>9. Uploading'
  <2>1. \A v \in Workers : doing[v].pc = "register" => doing[v].image \in files' \cup unserved'
    <3>1. CASE D!ClearRegistry(w) BY <3>1, <1>4 DEF D!ClearRegistry, ImageInv, Uploading
    <3>2. CASE D!ClearFiles(w)
      <4>1. {doing[v].image : v \in {x \in Workers : doing[x].pc = "register"}} \subseteq unserved'
        BY <3>2 DEF D!ClearFiles
      <4> QED BY <4>1
    <3> QED BY <3>1, <3>2
  <2> QED BY <2>1, <1>3, <1>4, <1>7 DEF ImageInv, Uploading
<1> QED BY <1>2, <1>5, <1>6, <1>8, <1>9 DEF ImageInv

\* The new process sweeps what no post shows and says what a kill, or a table it could
\* not read, had torn.
LEMMA RestartServes ==
  ASSUME ImageInv, D!Restart
  PROVE  ImageInv'
<1>1. PICK listed \in {registryRows, {}} :
        /\ registry' = listed \ (aged \ D!Shown(posts))
        /\ registryRows' \in {registryRows} \cup (IF registry' = listed THEN {} ELSE {registry'})
        /\ files' = files \ (aged \ D!Shown(posts))
        /\ unserved' = unserved \cup (registry' \ files') \cup (registryRows \ listed)
  BY DEF D!Restart, D!LoadAttachments
<1>2. doing' = [w \in Workers |-> D!Idle] /\ UNCHANGED <<posts, aged>> BY DEF D!Restart
<1>3. Held' /\ Uploading' /\ RemovalsSpare' BY <1>2 DEF Held, Uploading, RemovalsSpare, D!Idle
<1>4. Registered'
  <2>1. registry' \subseteq registryRows' BY <1>1
  <2>2. registry' \subseteq files' \cup unserved' BY <1>1
  <2> QED BY <2>1, <2>2 DEF Registered
<1>5. ImagesServed'
  <2> SUFFICES ASSUME NEW m \in posts
               PROVE  m.image \in (files' \cap registry') \cup unserved' \cup {NoUpload}
    BY <1>2 DEF ImagesServed, D!ImagesServed
  <2>1. m.image \in D!Shown(posts) \cup {NoUpload} BY DEF D!Shown
  <2>2. m.image \in (files \cap registryRows) \cup unserved \cup {NoUpload}
    BY DEF ImageInv, ImagesServed, D!ImagesServed, Registered
  <2>3. CASE m.image \in unserved \cup {NoUpload} BY <2>3, <1>1
  <2>4. CASE m.image \in files \cap registryRows /\ m.image \in D!Shown(posts) BY <2>4, <1>1
  <2> QED BY <2>1, <2>2, <2>3, <2>4
<1> QED BY <1>3, <1>4, <1>5 DEF ImageInv

LEMMA AgeServes ==
  ASSUME ImageInv, NEW u, D!Age(u)
  PROVE  ImageInv'
<1>1. /\ aged' = aged \cup {u} /\ \A w \in Workers : doing[w].pc = "register" => doing[w].image # u
      /\ UNCHANGED <<posts, files, registry, registryRows, unserved, doing>>
  BY DEF D!Age, D!rows
<1> QED BY <1>1 DEF ImageInv, Held, Registered, Uploading, RemovalsSpare, ImagesServed, D!ImagesServed

\* The steps of rooms, messages and reactions.
LEMMA ElsewhereServes ==
  ASSUME ImageInv, NEW w \in Workers,
         \/ \E u \in Uploads \cup {NoUpload} : D!Send(w, u)
         \/ D!DeleteRoom(w) \/ D!ClearPosts(w) \/ D!ClearReactions(w)
         \/ \E who \in Reactors, m \in posts, verb \in {"add", "take"} : D!Look(w, who, m, verb)
         \/ D!AddReaction(w) \/ D!RemoveReaction(w) \/ D!LiveIDs(w) \/ D!CleanupReactions(w)
  PROVE  ImageInv'
<1>1. UNCHANGED <<files, registry, registryRows, aged, unserved>> /\ posts' \subseteq posts
  BY DEF D!Send, D!DeleteRoom, D!ClearPosts, D!ClearReactions, D!Look, D!AddReaction, D!RemoveReaction, D!Change,
         D!LiveIDs, D!CleanupReactions, D!memory, D!rows
<1> DEFINE TurnsTo(next) == /\ doing' = [doing EXCEPT ![w] = next]
                            /\ next.pc \notin {"register", "remove", "sweep"}
<1>2. PICK next : TurnsTo(next)
  <2>1. ASSUME NEW u, D!Send(w, u) PROVE TurnsTo([pc |-> "store", image |-> u])
    BY <2>1 DEF D!Send, D!Turn
  <2>2. ASSUME D!DeleteRoom(w) PROVE TurnsTo([pc |-> "look"])
    BY <2>2 DEF D!DeleteRoom, D!Turn
  <2>3. ASSUME NEW who, NEW m, NEW verb \in {"add", "take"}, D!Look(w, who, m, verb)
        PROVE  TurnsTo([pc |-> verb, who |-> who, id |-> m.id, no |-> m.no])
    BY <2>3 DEF D!Look, D!Turn
  <2>4. ASSUME D!AddReaction(w) \/ D!RemoveReaction(w) \/ D!CleanupReactions(w) \/ D!ClearReactions(w)
        PROVE  TurnsTo(D!Idle)
    BY <2>4 DEF D!AddReaction, D!RemoveReaction, D!CleanupReactions, D!ClearReactions, D!Change, D!Turn, D!Idle
  <2>5. ASSUME D!LiveIDs(w) PROVE TurnsTo([pc |-> "prune", live |-> D!IdsOf(posts)])
    BY <2>5 DEF D!LiveIDs, D!Turn
  <2>6. ASSUME D!ClearPosts(w) PROVE TurnsTo([pc |-> "unregister"])
    BY <2>6 DEF D!ClearPosts, D!Turn
  <2> HIDE DEF TurnsTo
  <2> QED BY <2>1, <2>2, <2>3, <2>4, <2>5, <2>6
<1>3. doing'[w] = next BY <1>2 DEF ImageInv, Held
<1> QED BY <1>1, <1>2, <1>3, ImagesUntouched, ShownTwo

\* For any number of images, posts, handlers, rooms deleted and restarts: a stored
\* message's image can be fetched.
\* The images of DataInv's behaviours.
LEMMA ImagesServedByAll ==
  ASSUME PostsBounded
  PROVE  D!Spec => []ImagesServed
<1> DEFINE ThenOK == \A w \in Workers : doing[w].pc = "unlisted" => doing[w].then \in {"idle", "look"}
<1>1. D!Init => ImageInv
  <2> SUFFICES ASSUME D!Init PROVE ImageInv
    OBVIOUS
  <2>1. /\ posts = {} /\ files = {} /\ registry = {} /\ registryRows = {} /\ aged = {} /\ unserved = {}
        /\ doing = [w \in Workers |-> D!Idle]
    BY DEF D!Init
  <2> QED BY <2>1 DEF ImageInv, Held, Registered, Uploading, RemovalsSpare, ImagesServed, D!ImagesServed, D!Idle, D!Shown
<1>2. ImageInv /\ ThenOK /\ [D!Next]_(D!vars) => ImageInv'
  <2> SUFFICES ASSUME ImageInv, ThenOK, [D!Next]_(D!vars) PROVE ImageInv'
    OBVIOUS
  <2>1. CASE D!JoinRoom \/ UNCHANGED D!vars
    <3>1. UNCHANGED <<files, registry, registryRows, aged, unserved, posts, doing>>
      BY <2>1 DEF D!JoinRoom, D!vars, D!memory, D!rows
    <3> QED BY <3>1, ImagesUntouched
  <2>2. CASE D!Restart BY <2>2, RestartServes
  <2>3. ASSUME NEW u \in Uploads, D!Age(u) PROVE ImageInv' BY <2>3, AgeServes
  <2>4. ASSUME NEW w \in Workers, D!Store(w) PROVE ImageInv' BY <2>4, StoreServes
  <2>5. ASSUME NEW w \in Workers, D!DeleteAttachment(w) \/ D!CleanupAttachments(w) PROVE ImageInv'
    BY <2>5, UnlistServes
  <2>6. ASSUME NEW w \in Workers, D!PersistAttachments(w) PROVE ImageInv'
    <3>1. doing[w].then \in {"idle", "look"} BY <2>6 DEF D!PersistAttachments
    <3> QED BY <2>6, <3>1, PersistServes
  <2>7. ASSUME NEW w \in Workers, (\E u \in Uploads : D!WriteFile(w, u)) \/ D!AddAttachment(w)
        PROVE  ImageInv'
    BY <2>7, UploadServes
  <2>8. ASSUME NEW w \in Workers, (\E u \in Uploads : D!AskDelete(w, u)) \/ D!StartSweep(w)
        PROVE  ImageInv'
    BY <2>8, AskServes
  <2>9. ASSUME NEW w \in Workers, D!ClearRegistry(w) \/ D!ClearFiles(w) PROVE ImageInv'
    BY <2>9, ClearsServe
  <2> QED BY <2>1, <2>2, <2>3, <2>4, <2>5, <2>6, <2>7, <2>8, <2>9, ElsewhereServes DEF D!Next
<1>3. ImageInv => ImagesServed BY DEF ImageInv
<1>4. DataInv => ThenOK BY DEF DataInv, Shape
<1> HIDE DEF ThenOK
<1>5. D!Spec => []DataInv BY DataInvariant
<1> QED BY <1>1, <1>2, <1>3, <1>4, <1>5, PTL DEF D!Spec

-----------------------------------------------------------------------------
\* What the next start will find a section to be: a file that is still to be imported
\* goes before the table.
Truth(s) == IF json[s] # S!None /\ (s \in S!Rest \/ ~marked) THEN json[s] ELSE tables[s]

Tables ==
  /\ json = [s \in S!Sections |-> json[s]] /\ tables = [s \in S!Sections |-> tables[s]]
  /\ loaded = [s \in S!Sections |-> loaded[s]]
  /\ \/ start = [pc |-> start.pc]
     \/ start = [pc |-> start.pc, legacy |-> start.legacy, clear |-> start.clear]

\* How far a start is tells which files it has behind it.
Progress ==
  /\ start.pc = "configure" => start.legacy = S!HasLegacyCoreJSON
  /\ start.pc = "core" => ~marked
  /\ start.pc \in {"archive_core", "rest", "archive_rest", "indexes", "load", "running"} => marked
  /\ start.pc \in {"archive_rest", "indexes"} => \A s \in S!On(S!Rest) : tables[s] = json[s]
  /\ start.pc \in {"indexes", "load", "running"} => S!On(S!Top) = {}
  /\ start.pc \in {"load", "running"} => S!On(S!Index) \subseteq harmed

StoreInv ==
  /\ Tables /\ Progress
  /\ \A s \in S!Sections \ harmed : latest[s] = Truth(s)
  /\ start.pc = "running" => loaded = latest

-----------------------------------------------------------------------------
LEMMA SectionsSplit ==
  /\ S!Sections = S!Core \cup S!Rest /\ S!Rest = S!Top \cup S!Index /\ S!Core \cap S!Rest = {}
  /\ S!Core \subseteq S!Sections /\ S!Rest \subseteq S!Sections
BY DEF S!Sections, S!Core, S!Rest, S!Top, S!Index

LEMMA Continues ==
  ASSUME Tables, NEW pc, S!Continue(pc)
  PROVE  /\ start'.pc = pc
         /\ start' = [pc |-> start'.pc] \/ start' = [pc |-> start'.pc, legacy |-> start'.legacy, clear |-> start'.clear]
<1>1. CASE start = [pc |-> start.pc]
  <2>1. start' = [pc |-> pc] BY <1>1 DEF S!Continue
  <2> QED BY <2>1
<1>2. CASE start = [pc |-> start.pc, legacy |-> start.legacy, clear |-> start.clear]
  <2>1. start' = [pc |-> pc, legacy |-> start.legacy, clear |-> start.clear] BY <1>2 DEF S!Continue
  <2> QED BY <2>1
<1> QED BY <1>1, <1>2 DEF Tables

\* A start that goes back to the beginning, without the database or with it.
LEMMA RemovesKeep ==
  ASSUME StoreInv, S!RemoveSQLiteFiles
  PROVE  StoreInv'
<1>1. /\ marked' = FALSE /\ tables' = S!Blank
      /\ harmed' = harmed \cup {s \in S!Sections : (IF json[s] = S!None THEN 0 ELSE json[s]) # latest[s]}
      /\ start' = [pc |-> "down"] /\ UNCHANGED <<json, loaded, latest>>
  BY DEF S!RemoveSQLiteFiles, S!Abort
<1>2. Tables' BY <1>1 DEF StoreInv, Tables, S!Blank, S!Sections
<1>3. Progress' BY <1>1 DEF Progress
<1>4. \A s \in S!Sections \ harmed' : latest'[s] = Truth(s)'
  <2> SUFFICES ASSUME NEW s \in S!Sections, s \notin harmed' PROVE latest[s] = Truth(s)'
    BY <1>1
  <2>1. latest[s] = IF json[s] = S!None THEN 0 ELSE json[s] BY <1>1
  <2>2. tables'[s] = 0 BY <1>1 DEF S!Blank
  <2>3. json'[s] = json[s] /\ ~marked' BY <1>1
  <2> QED BY <2>1, <2>2, <2>3 DEF Truth
<1> QED BY <1>1, <1>2, <1>3, <1>4 DEF StoreInv

LEMMA StartStopsKeep ==
  ASSUME StoreInv,
         \/ S!Stop \/ S!ImportLegacyRemainingJSONFails \/ S!LoadCoreSQLiteFails
         \/ S!Migrated \/ S!OpenSQLite
  PROVE  StoreInv'
<1>1. UNCHANGED <<json, tables, marked, loaded, latest, harmed>>
  BY DEF S!Stop, S!ImportLegacyRemainingJSONFails, S!LoadCoreSQLiteFails, S!Migrated, S!OpenSQLite, S!disk
<1>2. Tables' /\ Progress'
  <2>1. CASE S!Stop \/ S!ImportLegacyRemainingJSONFails \/ S!LoadCoreSQLiteFails
    <3>1. start' = [pc |-> "down"]
      BY <2>1 DEF S!Stop, S!ImportLegacyRemainingJSONFails, S!LoadCoreSQLiteFails, S!Abort
    <3> QED BY <1>1, <3>1 DEF StoreInv, Tables, Progress, S!Sections
  <2>2. CASE S!Migrated
    <3>1. start' = start /\ start.pc = "down" BY <2>2 DEF S!Migrated
    <3> QED BY <1>1, <3>1 DEF StoreInv, Tables, Progress, S!Sections
  <2>3. CASE S!OpenSQLite
    <3>1. start' = [pc |-> "configure", legacy |-> S!HasLegacyCoreJSON, clear |-> "nothing"] BY <2>3 DEF S!OpenSQLite
    <3>2. S!HasLegacyCoreJSON' = S!HasLegacyCoreJSON BY <1>1 DEF S!HasLegacyCoreJSON, S!On
    <3> QED BY <1>1, <3>1, <3>2 DEF StoreInv, Tables, Progress, S!Sections
  <2> QED BY <2>1, <2>2, <2>3
<1>3. start'.pc # "running"
  BY DEF S!Stop, S!ImportLegacyRemainingJSONFails, S!LoadCoreSQLiteFails, S!Abort, S!Migrated, S!OpenSQLite
<1>4. \A s : Truth(s)' = Truth(s) BY <1>1 DEF Truth
<1> QED BY <1>1, <1>2, <1>3, <1>4 DEF StoreInv

LEMMA ConfigureKeeps ==
  ASSUME StoreInv, S!ConfigureSQLite
  PROVE  StoreInv'
<1>1. /\ start.pc = "configure" /\ marked' = (marked \/ ~start.legacy)
      /\ S!Continue(IF start.legacy THEN "core" ELSE "rest")
      /\ UNCHANGED <<json, tables, loaded, latest, harmed>>
  BY DEF S!ConfigureSQLite
<1>2. start.legacy = S!HasLegacyCoreJSON BY <1>1 DEF StoreInv, Progress
<1>3. /\ start'.pc = IF start.legacy THEN "core" ELSE "rest"
      /\ start' = [pc |-> start'.pc] \/ start' = [pc |-> start'.pc, legacy |-> start'.legacy, clear |-> start'.clear]
  BY <1>1, Continues DEF StoreInv
<1>4. Tables' BY <1>1, <1>3 DEF StoreInv, Tables, S!Sections
<1>5. Progress' BY <1>1, <1>2, <1>3 DEF StoreInv, Progress, S!HasLegacyCoreJSON
<1>6. \A s \in S!Sections : Truth(s)' = Truth(s)
  <2> TAKE s \in S!Sections
  <2>1. CASE s \in S!Rest BY <2>1, <1>1 DEF Truth
  <2>2. CASE s \in S!Core /\ (marked' <=> marked) BY <2>2, <1>1 DEF Truth
  <2>3. CASE s \in S!Core /\ ~(marked' <=> marked)
    <3>1. S!On(S!Core) = {} BY <2>3, <1>1, <1>2 DEF S!HasLegacyCoreJSON
    <3>2. json[s] = S!None BY <2>3, <3>1 DEF S!On
    <3> QED BY <3>2, <1>1 DEF Truth
  <2> QED BY <2>1, <2>2, <2>3, SectionsSplit
<1> QED BY <1>1, <1>3, <1>4, <1>5, <1>6 DEF StoreInv

LEMMA ImportsKeep ==
  ASSUME StoreInv, S!ImportLegacyCoreJSON \/ S!ImportLegacyRemainingJSON
  PROVE  StoreInv'
<1>1. CASE S!ImportLegacyCoreJSON
  <2>1. /\ start.pc = "core" /\ tables' = S!Over(S!On(S!Core), json) /\ marked' = TRUE
        /\ S!Continue("archive_core") /\ UNCHANGED <<json, loaded, latest, harmed>>
    BY <1>1 DEF S!ImportLegacyCoreJSON
  <2>2. /\ start'.pc = "archive_core"
        /\ start' = [pc |-> start'.pc] \/ start' = [pc |-> start'.pc, legacy |-> start'.legacy, clear |-> start'.clear]
    BY <2>1, Continues DEF StoreInv
  <2>3. Tables' BY <2>1, <2>2 DEF StoreInv, Tables, S!Over, S!Sections
  <2>4. Progress' BY <2>1, <2>2 DEF Progress
  <2>5. \A s \in S!Sections : Truth(s)' = Truth(s)
    <3> TAKE s \in S!Sections
    <3>1. tables'[s] = IF s \in S!On(S!Core) THEN json[s] ELSE tables[s] BY <2>1 DEF S!Over
    <3>2. ~marked BY <2>1 DEF StoreInv, Progress
    <3>3. CASE s \in S!Core
      <4>1. s \in S!On(S!Core) <=> json[s] # S!None BY <3>3 DEF S!On
      <4>2. s \notin S!Rest BY <3>3, SectionsSplit
      <4> QED BY <3>1, <3>2, <4>1, <4>2, <2>1 DEF Truth
    <3>4. CASE s \in S!Rest
      <4>1. s \notin S!On(S!Core) BY <3>4, SectionsSplit DEF S!On
      <4> QED BY <3>1, <3>4, <4>1, <2>1 DEF Truth
    <3> QED BY <3>3, <3>4, SectionsSplit
  <2> QED BY <2>1, <2>2, <2>3, <2>4, <2>5 DEF StoreInv
<1>2. CASE S!ImportLegacyRemainingJSON
  <2>1. /\ start.pc = "rest" /\ tables' = S!Over(S!On(S!Rest), json)
        /\ S!Continue(IF S!On(S!Rest) = {} THEN "load" ELSE "archive_rest")
        /\ UNCHANGED <<json, marked, loaded, latest, harmed>>
    BY <1>2 DEF S!ImportLegacyRemainingJSON
  <2>2. /\ start'.pc = IF S!On(S!Rest) = {} THEN "load" ELSE "archive_rest"
        /\ start' = [pc |-> start'.pc] \/ start' = [pc |-> start'.pc, legacy |-> start'.legacy, clear |-> start'.clear]
    BY <2>1, Continues DEF StoreInv
  <2>3. Tables' BY <2>1, <2>2 DEF StoreInv, Tables, S!Over, S!Sections
  <2>4. \A s \in S!Sections : tables'[s] = IF s \in S!On(S!Rest) THEN json[s] ELSE tables[s]
    BY <2>1 DEF S!Over
  <2>5. \A ss : S!On(ss)' = S!On(ss) BY <2>1 DEF S!On
  <2>6. Progress'
    <3>1. S!On(S!Rest) = {} => S!On(S!Top) = {} /\ S!On(S!Index) = {} BY SectionsSplit DEF S!On
    <3>2. \A s \in S!On(S!Rest) : tables'[s] = json[s] BY <2>4, SectionsSplit DEF S!On
    <3> QED BY <2>1, <2>2, <2>5, <3>1, <3>2 DEF StoreInv, Progress
  <2>7. \A s \in S!Sections : Truth(s)' = Truth(s) BY <2>1, <2>4 DEF Truth, S!On
  <2> QED BY <2>1, <2>2, <2>3, <2>6, <2>7 DEF StoreInv
<1> QED BY <1>1, <1>2

LEMMA MovesKeep ==
  ASSUME StoreInv,
         \/ \E s \in S!Core : S!MoveLegacyJSONFile("archive_core", S!Core, s)
         \/ \E s \in S!Top : S!MoveLegacyJSONFile("archive_rest", S!Top, s)
  PROVE  StoreInv'
<1>1. PICK s \in S!Sections : /\ json' = [json EXCEPT ![s] = S!None]
                              /\ (s \in S!Core /\ marked) \/ (s \in S!Rest /\ tables[s] = json[s])
  <2>1. ASSUME NEW s \in S!Core, S!MoveLegacyJSONFile("archive_core", S!Core, s)
        PROVE  s \in S!Sections /\ json' = [json EXCEPT ![s] = S!None] /\ marked
    BY <2>1, SectionsSplit DEF S!MoveLegacyJSONFile, StoreInv, Progress
  <2>2. ASSUME NEW s \in S!Top, S!MoveLegacyJSONFile("archive_rest", S!Top, s)
        PROVE  s \in S!Rest /\ json' = [json EXCEPT ![s] = S!None] /\ tables[s] = json[s]
    <3>1. s \in S!On(S!Rest) BY <2>2, SectionsSplit DEF S!MoveLegacyJSONFile, S!On
    <3> QED BY <2>2, <3>1, SectionsSplit DEF S!MoveLegacyJSONFile, StoreInv, Progress
  <2> QED BY <2>1, <2>2, SectionsSplit
<1>2. /\ UNCHANGED <<tables, marked, loaded, start, latest, harmed>>
      /\ start.pc \in {"archive_core", "archive_rest"}
  BY DEF S!MoveLegacyJSONFile
<1>3. Tables' BY <1>1, <1>2 DEF StoreInv, Tables, S!Sections
<1>4. \A t \in S!Sections : json'[t] = IF t = s THEN S!None ELSE json[t]
  BY <1>1 DEF StoreInv, Tables
<1>5. \A ss \in SUBSET S!Sections : S!On(ss)' \subseteq S!On(ss) BY <1>4 DEF S!On
<1>6. Progress'
  <2>1. \A t \in S!On(S!Rest)' : t \in S!On(S!Rest) /\ json'[t] = json[t]
    BY <1>4, SectionsSplit DEF S!On
  <2> QED BY <1>2, <2>1 DEF StoreInv, Progress
<1>7. \A t \in S!Sections : Truth(t)' = Truth(t)
  BY <1>1, <1>2, <1>4, SectionsSplit DEF Truth
<1> QED BY <1>2, <1>3, <1>6, <1>7 DEF StoreInv

LEMMA ArchivedKeeps ==
  ASSUME StoreInv,
         S!Archived("archive_core", S!Core, "rest") \/ S!Archived("archive_rest", S!Top, "indexes")
  PROVE  StoreInv'
<1>1. UNCHANGED <<json, tables, marked, loaded, latest, harmed>> BY DEF S!Archived, S!disk
<1>2. \A s : Truth(s)' = Truth(s) BY <1>1 DEF Truth
<1>3. \A ss : S!On(ss)' = S!On(ss) BY <1>1 DEF S!On
<1>4. /\ \/ start.pc = "archive_core" /\ start'.pc = "rest"
         \/ start.pc = "archive_rest" /\ start'.pc = "indexes" /\ S!On(S!Top) = {}
      /\ start' = [pc |-> start'.pc] \/ start' = [pc |-> start'.pc, legacy |-> start'.legacy, clear |-> start'.clear]
  BY Continues DEF S!Archived, StoreInv
<1>5. Tables' BY <1>1, <1>4 DEF StoreInv, Tables, S!Sections
<1>6. Progress' BY <1>1, <1>3, <1>4 DEF StoreInv, Progress
<1> QED BY <1>1, <1>2, <1>4, <1>5, <1>6 DEF StoreInv

LEMMA IndexesKeep ==
  ASSUME StoreInv, NEW ss \in SUBSET S!Index, S!RemoveIndexes(ss)
  PROVE  StoreInv'
<1>1. /\ start.pc = "indexes" /\ ss \subseteq S!On(S!Index)
      /\ json' = [s \in S!Sections |-> IF s \in ss THEN S!None ELSE json[s]]
      /\ harmed' = harmed \cup (S!On(S!Index) \ ss)
      /\ S!Continue("load") /\ UNCHANGED <<tables, marked, loaded, latest>>
  BY DEF S!RemoveIndexes
<1>2. /\ start'.pc = "load"
      /\ start' = [pc |-> start'.pc] \/ start' = [pc |-> start'.pc, legacy |-> start'.legacy, clear |-> start'.clear]
  BY <1>1, Continues DEF StoreInv
<1>3. Tables' BY <1>1, <1>2 DEF StoreInv, Tables, S!Sections
<1>4. S!On(S!Top)' \subseteq S!On(S!Top) /\ S!On(S!Index)' \subseteq S!On(S!Index) \ ss
  BY <1>1, SectionsSplit DEF S!On
<1>5. Progress' BY <1>1, <1>2, <1>4 DEF StoreInv, Progress
<1>6. \A s \in S!Sections : Truth(s)' = Truth(s)
  <2> TAKE s \in S!Sections
  <2>1. CASE s \notin ss BY <2>1, <1>1 DEF Truth
  <2>2. CASE s \in ss
    <3>1. s \in S!On(S!Rest) BY <2>2, <1>1, SectionsSplit DEF S!On
    <3>2. tables[s] = json[s] BY <3>1, <1>1 DEF StoreInv, Progress
    <3>3. json'[s] = S!None BY <2>2, <1>1
    <3> QED BY <3>2, <3>3, <1>1 DEF Truth
  <2> QED BY <2>1, <2>2
<1> QED BY <1>1, <1>2, <1>3, <1>5, <1>6 DEF StoreInv

LEMMA LoadKeeps ==
  ASSUME StoreInv, S!Load
  PROVE  StoreInv'
<1>1. PICK unread \in SUBSET S!Rest :
        /\ loaded' = [s \in S!Sections |-> IF s \notin unread THEN tables[s]
                                           ELSE IF json[s] = S!None THEN 0 ELSE json[s]]
        /\ latest' = [s \in S!Sections |-> IF s \in harmed \cup unread THEN loaded'[s] ELSE latest[s]]
  BY DEF S!Load
<1>2. /\ start.pc = "load" /\ S!Continue("running") /\ UNCHANGED <<json, tables, marked>>
      /\ harmed' = S!On(S!Index) \cup {s \in S!Sections : tables[s] # loaded'[s]}
  BY DEF S!Load, S!Behind, S!disk
<1>3. /\ start'.pc = "running"
      /\ start' = [pc |-> start'.pc] \/ start' = [pc |-> start'.pc, legacy |-> start'.legacy, clear |-> start'.clear]
  BY <1>2, Continues DEF StoreInv
<1>4. Tables' BY <1>1, <1>2, <1>3 DEF StoreInv, Tables, S!Sections
<1>5. \A ss : S!On(ss)' = S!On(ss) BY <1>2 DEF S!On
<1>6. Progress' BY <1>2, <1>3, <1>5 DEF StoreInv, Progress
<1>7. \A s \in S!Sections \ S!On(S!Index) : Truth(s) = tables[s]
  <2> TAKE s \in S!Sections \ S!On(S!Index)
  <2>1. marked /\ S!On(S!Top) = {} BY <1>2 DEF StoreInv, Progress
  <2>2. s \in S!Rest => json[s] = S!None BY <2>1, SectionsSplit DEF S!On
  <2> QED BY <2>1, <2>2 DEF Truth
<1>8. \A s \in S!Sections : latest'[s] = loaded'[s]
  <2> TAKE s \in S!Sections
  <2>1. CASE s \in harmed \cup unread BY <2>1, <1>1
  <2>2. CASE s \notin harmed \cup unread
    <3>1. S!On(S!Index) \subseteq harmed BY <1>2 DEF StoreInv, Progress
    <3>2. latest'[s] = latest[s] /\ loaded'[s] = tables[s] BY <2>2, <1>1
    <3>3. latest[s] = tables[s] BY <2>2, <3>1, <1>7 DEF StoreInv
    <3> QED BY <3>2, <3>3
  <2> QED BY <2>1, <2>2
<1>9. loaded' = latest' BY <1>1, <1>8
<1>10. \A s : Truth(s)' = Truth(s) BY <1>2 DEF Truth
<1>11. \A s \in S!Sections \ harmed' : latest'[s] = Truth(s)'
  <2> TAKE s \in S!Sections \ harmed'
  <2>1. s \notin S!On(S!Index) /\ tables[s] = loaded'[s] BY <1>2
  <2> QED BY <2>1, <1>7, <1>8, <1>10
<1> QED BY <1>3, <1>4, <1>6, <1>9, <1>11 DEF StoreInv

\* Whatever a save did to the tables, harmed is told which are behind.
LEMMA LearnKeeps ==
  ASSUME StoreInv, NEW s \in S!Sections, S!Learn(s), tables' = [t \in S!Sections |-> tables'[t]], S!Behind(tables')
  PROVE  StoreInv'
<1>1. /\ start.pc = "running" /\ loaded' = [loaded EXCEPT ![s] = @ + 1] /\ latest' = loaded'
      /\ UNCHANGED <<json, marked, start>>
      /\ harmed' = S!On(S!Index) \cup {t \in S!Sections : tables'[t] # loaded'[t]}
  BY DEF S!Learn, S!Behind
<1>2. Tables' BY <1>1 DEF StoreInv, Tables, S!Sections
<1>3. \A ss : S!On(ss)' = S!On(ss) BY <1>1 DEF S!On
<1>4. Progress' BY <1>1, <1>3 DEF StoreInv, Progress
<1>5. \A t \in S!Sections \ harmed' : latest'[t] = Truth(t)'
  <2> TAKE t \in S!Sections \ harmed'
  <2>1. marked /\ S!On(S!Top) = {} BY <1>1 DEF StoreInv, Progress
  <2>2. t \in S!Rest => json[t] = S!None BY <2>1, <1>1, SectionsSplit DEF S!On
  <2> QED BY <2>1, <2>2, <1>1 DEF Truth
<1> QED BY <1>1, <1>2, <1>4, <1>5 DEF StoreInv

LEMMA EditsKeep ==
  ASSUME StoreInv,
         \/ S!PersistRoomsAgents \/ S!InsertMessage \/ S!PersistCore
         \/ \E s \in S!Sections : S!ReplaceRows(s) \/ S!SaveFails(s)
  PROVE  StoreInv'
<1> DEFINE Saves == tables' = [t \in S!Sections |-> tables'[t]] /\ S!Behind(tables')
<1>0. \A ss : S!Saved(ss) => Saves BY DEF S!Saved, S!Over
<1>1. PICK s \in S!Sections : S!Learn(s) /\ Saves
  <2>1. CASE S!PersistRoomsAgents
    BY <2>1, <1>0 DEF S!PersistRoomsAgents, S!Sections, S!Core
  <2>2. CASE S!InsertMessage
    <3>1. S!Learn("messages") /\ S!Behind(tables') /\ tables' = [tables EXCEPT !["messages"] = @ + 1]
      BY <2>2 DEF S!InsertMessage
    <3>2. tables' = [t \in S!Sections |-> tables'[t]] BY <3>1 DEF StoreInv, Tables
    <3> QED BY <3>1, <3>2 DEF S!Sections, S!Core
  <2>3. CASE S!PersistCore BY <2>3, <1>0, SectionsSplit DEF S!PersistCore
  <2>4. ASSUME NEW s \in S!Sections, S!ReplaceRows(s) PROVE S!Learn(s) /\ Saves
    BY <2>4, <1>0 DEF S!ReplaceRows
  <2>5. ASSUME NEW s \in S!Sections, S!SaveFails(s) PROVE S!Learn(s) /\ Saves
    BY <2>5 DEF S!SaveFails, StoreInv, Tables
  <2> QED BY <2>1, <2>2, <2>3, <2>4, <2>5
<1> QED BY <1>1, LearnKeeps

\* A running server whose harmed names every section that the disk has otherwise.
LEMMA HarmedTold ==
  ASSUME StoreInv, start.pc = "running", start'.pc = "running", loaded' = latest', marked' = marked, Tables',
         S!On(S!Top)' = {}, harmed' = S!On(S!Index)' \cup {s \in S!Sections : tables'[s] # loaded'[s]}
  PROVE  StoreInv'
<1>1. marked BY DEF StoreInv, Progress
<1>2. Progress' BY <1>1 DEF Progress
<1>3. \A s \in S!Sections \ harmed' : latest'[s] = Truth(s)'
  <2> TAKE s \in S!Sections \ harmed'
  <2>1. s \notin S!On(S!Index)' /\ tables'[s] = loaded'[s] OBVIOUS
  <2>2. s \in S!Rest => json'[s] = S!None BY <2>1, SectionsSplit DEF S!On
  <2> QED BY <2>1, <2>2, <1>1 DEF Truth
<1> QED BY <1>2, <1>3 DEF StoreInv

LEMMA EmptyKeeps ==
  ASSUME StoreInv, NEW ss, S!Empty(ss), NEW next, start.pc = "running", start' = [start EXCEPT !.clear = next]
  PROVE  StoreInv'
<1>1. /\ loaded' = [s \in S!Sections |-> IF s \in ss THEN 0 ELSE loaded[s]]
      /\ latest' = [s \in S!Sections |-> IF s \in ss THEN 0 ELSE latest[s]]
      /\ tables' \in {S!Over(ss, S!Blank), tables}
      /\ harmed' = S!On(S!Index) \cup {s \in S!Sections : tables'[s] # loaded'[s]}
      /\ UNCHANGED <<json, marked>>
  BY DEF S!Empty, S!Behind
<1>2. loaded = latest BY DEF StoreInv
<1>3. loaded' = latest' BY <1>1, <1>2
<1>4. /\ start'.pc = "running"
      /\ start' = [pc |-> start'.pc] \/ start' = [pc |-> start'.pc, legacy |-> start'.legacy, clear |-> start'.clear]
  BY DEF StoreInv, Tables
<1>5. tables' = [s \in S!Sections |-> tables'[s]] BY <1>1 DEF StoreInv, Tables, S!Over, S!Sections
<1>6. Tables' BY <1>1, <1>4, <1>5 DEF StoreInv, Tables, S!Sections
<1>7. \A tt : S!On(tt)' = S!On(tt) BY <1>1 DEF S!On
<1>8. S!On(S!Top)' = {} BY <1>7 DEF StoreInv, Progress
<1> QED BY <1>1, <1>3, <1>4, <1>6, <1>7, <1>8, HarmedTold

LEMMA ClearsKeep ==
  ASSUME StoreInv,
         \/ S!ClearAll \/ S!ClearTable("memory", "sounds") \/ S!ClearTable("sounds", "directories")
         \/ S!ClearDirectories
  PROVE  StoreInv'
<1>1. CASE S!ClearAll BY <1>1, EmptyKeeps DEF S!ClearAll
<1>2. ASSUME NEW s, NEW next, S!ClearTable(s, next) PROVE StoreInv'
  BY <1>2, EmptyKeeps DEF S!ClearTable
<1>3. CASE S!ClearDirectories
  <2>1. PICK ss \in SUBSET S!On(S!Index) :
          /\ json' = [s \in S!Sections |-> IF s \in ss THEN S!None ELSE json[s]]
          /\ harmed' = (S!On(S!Index) \ ss) \cup {s \in S!Sections : tables[s] # loaded[s]}
    BY <1>3 DEF S!ClearDirectories
  <2>2. /\ start.pc = "running" /\ start' = [start EXCEPT !.clear = "nothing"]
        /\ UNCHANGED <<tables, marked, loaded, latest>>
    BY <1>3 DEF S!ClearDirectories
  <2>3. loaded' = latest' BY <2>2 DEF StoreInv
  <2>4. /\ start'.pc = "running"
        /\ start' = [pc |-> start'.pc] \/ start' = [pc |-> start'.pc, legacy |-> start'.legacy, clear |-> start'.clear]
    BY <2>2 DEF StoreInv, Tables
  <2>5. Tables' BY <2>1, <2>2, <2>4 DEF StoreInv, Tables, S!Sections
  <2>6. S!On(S!Index)' = S!On(S!Index) \ ss BY <2>1, SectionsSplit DEF S!On
  <2>7. S!On(S!Top)' = {} BY <2>1, <2>2, SectionsSplit DEF StoreInv, Progress, S!On
  <2> QED BY <2>1, <2>2, <2>3, <2>4, <2>5, <2>6, <2>7, HarmedTold
<1> QED BY <1>1, <1>2, <1>3

LEMMA StartsKnow == S!Spec => []S!StartsWithLatest
<1>1. S!Init => StoreInv
  <2> SUFFICES ASSUME S!Init PROVE StoreInv
    OBVIOUS
  <2>1. /\ json \in [S!Sections -> {S!None, 1}]
        /\ latest = [s \in S!Sections |-> IF json[s] = S!None THEN 0 ELSE 1]
        /\ tables = S!Blank /\ marked = FALSE /\ loaded = S!Blank /\ start = [pc |-> "down"]
    BY DEF S!Init
  <2>2. Tables BY <2>1 DEF Tables, S!Blank
  <2>3. Progress BY <2>1 DEF Progress
  <2>4. \A s \in S!Sections : latest[s] = Truth(s) BY <2>1 DEF Truth, S!Blank, S!None
  <2> QED BY <2>1, <2>2, <2>3, <2>4 DEF StoreInv
<1>2. StoreInv /\ [S!Next]_(S!vars) => StoreInv'
  <2> SUFFICES ASSUME StoreInv, [S!Next]_(S!vars) PROVE StoreInv'
    OBVIOUS
  <2>1. CASE UNCHANGED S!vars
    BY <2>1 DEF S!vars, S!disk, StoreInv, Tables, Progress, Truth, S!On, S!HasLegacyCoreJSON, S!Sections
  <2>2. CASE S!ConfigureSQLiteFails \/ S!ImportLegacyCoreJSONFails
    BY <2>2, RemovesKeep DEF S!ConfigureSQLiteFails, S!ImportLegacyCoreJSONFails
  <2>3. CASE \/ S!Stop \/ S!ImportLegacyRemainingJSONFails \/ S!LoadCoreSQLiteFails
             \/ S!Migrated \/ S!OpenSQLite
    BY <2>3, StartStopsKeep
  <2>4. CASE S!ConfigureSQLite BY <2>4, ConfigureKeeps
  <2>5. CASE S!ImportLegacyCoreJSON \/ S!ImportLegacyRemainingJSON BY <2>5, ImportsKeep
  <2>6. CASE \/ \E s \in S!Core : S!MoveLegacyJSONFile("archive_core", S!Core, s)
             \/ \E s \in S!Top : S!MoveLegacyJSONFile("archive_rest", S!Top, s)
    BY <2>6, MovesKeep
  <2>7. CASE S!Archived("archive_core", S!Core, "rest") \/ S!Archived("archive_rest", S!Top, "indexes")
    BY <2>7, ArchivedKeeps
  <2>8. CASE \E ss \in SUBSET S!Index : S!RemoveIndexes(ss) BY <2>8, IndexesKeep
  <2>9. CASE S!Load BY <2>9, LoadKeeps
  <2>10. CASE \/ S!PersistRoomsAgents \/ S!InsertMessage \/ S!PersistCore
              \/ \E s \in S!Sections : S!ReplaceRows(s) \/ S!SaveFails(s)
    BY <2>10, EditsKeep
  <2>11. CASE \/ S!ClearAll \/ S!ClearTable("memory", "sounds") \/ S!ClearTable("sounds", "directories")
              \/ S!ClearDirectories
    BY <2>11, ClearsKeep
  <2> QED BY <2>1, <2>2, <2>3, <2>4, <2>5, <2>6, <2>7, <2>8, <2>9, <2>10, <2>11 DEF S!Next
<1>3. StoreInv => S!StartsWithLatest BY DEF StoreInv, S!StartsWithLatest
<1> QED BY <1>1, <1>2, <1>3, PTL DEF S!Spec

-----------------------------------------------------------------------------
Maps ==
  /\ editing = [h \in Curators |-> editing[h]]
  /\ records = [i \in Records |-> records[i]]
  /\ kept = [s \in U!Sections |-> kept[s]] /\ keptRows = [s \in U!Sections |-> keptRows[s]]
  /\ \A h \in Curators : editing[h].pc \in {"copy", "write", "clear"} => editing[h].section \in U!Sections

\* A record is added once.  A curator read the record as it is, or an older version.
Adds(h) ==
  U!At(h, "add") =>
    /\ editing[h].id \in (Records \cap spent) \ (ended \cup U!Present(records) \cup U!Present(memoryRows))
    /\ \A g \in Curators \ {h} : U!At(g, "add") => editing[g].id # editing[h].id
Edits(h) ==
  editing[h].pc \in {"update", "remove"} =>
    LET i == editing[h].id IN
    /\ i \in Records \cap spent /\ \A g \in Curators : U!At(g, "add") => editing[g].id # i
    /\ editing[h].read.version \in Nat \ {0}
    /\ records[i] \in {U!Absent, editing[h].read} \/ editing[h].read.version < records[i].version

\* The table is behind only when the last save or load failed.
RecordsOK ==
  /\ "memory" \notin unsure => memoryRows = records
  /\ "cards" \notin unsure => cardRows = cards
  /\ memoryRows = [i \in Records |-> memoryRows[i]]
  /\ U!Present(records) \cup U!Present(memoryRows) \cup ended \subseteq spent
  /\ U!Present(records) \cap ended = {}
  /\ \A i \in Records : records[i] = U!Absent \/ records[i].version \in Nat \ {0}
  /\ \A i \in Records : memoryRows[i] = U!Absent \/ memoryRows[i].version \in Nat \ {0}
  /\ \A h \in Curators : Adds(h) /\ Edits(h)

\* A section whose table is behind has somebody saving it, or its last save or load
\* failed, or its last saves crossed.
SavingOK(h) ==
  /\ editing[h].pc \in {"copy", "write"} => {"pc", "section", "alone"} \subseteq DOMAIN editing[h]
  /\ U!At(h, "write") =>
       /\ "rows" \in DOMAIN editing[h]
       /\ editing[h].alone => editing[h].rows = kept[editing[h].section]

SavesOK ==
  /\ \A s \in U!Sections \ unsure : U!Saving(s) # {} \/ keptRows[s] = kept[s]
  /\ \A h \in Curators : SavingOK(h)

\* A sound on its way to the list is on disk, and nobody's but the uploader's.
SoundsOK ==
  /\ sounds \cup soundRows \subseteq spent /\ U!SoundsPlayable
  /\ U!SoundsFree /\ "sounds" \notin unsure => soundRows = sounds
  /\ \A h \in Curators : U!At(h, "list") =>
       /\ editing[h].sound \in ((soundFiles \cup cut) \cap spent) \ sounds
       /\ \A g \in Curators \ {h} : U!At(g, "list") => editing[g].sound # editing[h].sound

UserInv == Maps /\ RecordsOK /\ SavesOK /\ SoundsOK

-----------------------------------------------------------------------------
\* Requests of some kinds are where they were.
Same(pcs) ==
  \A g \in Curators : editing[g].pc \in pcs \/ editing'[g].pc \in pcs => editing'[g] = editing[g]

\* Saves and loads of some sections neither failed nor succeeded.
Steady(ss) == \A s \in ss : s \in unsure' <=> s \in unsure

LEMMA Turned ==
  ASSUME Maps, NEW h \in Curators, NEW next, U!Go(h, next)
  PROVE  /\ editing' = [g \in Curators |-> editing'[g]]
         /\ editing'[h] = next /\ \A g \in Curators \ {h} : editing'[g] = editing[g]
BY DEF Maps, U!Go

LEMMA SameRecords ==
  ASSUME RecordsOK, UNCHANGED <<records, memoryRows, ended, cards, cardRows>>, spent \subseteq spent',
         Same({"add", "update", "remove"}), Steady({"memory", "cards"})
  PROVE  RecordsOK'
<1>1. U!Present(records)' = U!Present(records) /\ U!Present(memoryRows)' = U!Present(memoryRows)
  BY DEF U!Present
<1>2. \A h \in Curators : Adds(h)' /\ Edits(h)' BY <1>1 DEF RecordsOK, Adds, Edits, Same, U!At
<1>3. /\ "memory" \notin unsure' => memoryRows' = records'
      /\ "cards" \notin unsure' => cardRows' = cards'
  BY DEF RecordsOK, Steady
<1> QED BY <1>1, <1>2, <1>3 DEF RecordsOK, U!Present

LEMMA SameSaves ==
  ASSUME SavesOK, UNCHANGED <<kept, keptRows>>, Same({"copy", "write"}), Steady(U!Sections)
  PROVE  SavesOK'
<1>1. \A s : U!Saving(s)' = U!Saving(s) BY DEF Same, U!Saving
<1> QED BY <1>1 DEF SavesOK, SavingOK, Same, Steady, U!At

LEMMA SameSounds ==
  ASSUME SoundsOK, UNCHANGED <<sounds, soundRows, soundFiles, cut>>, spent \subseteq spent',
         Same({"list", "unlisted"}), Steady({"sounds"})
  PROVE  SoundsOK'
<1>1. U!SoundsFree' <=> U!SoundsFree BY DEF Same, U!SoundsFree, U!At
<1> QED BY <1>1 DEF SoundsOK, U!SoundsPlayable, Same, Steady, U!At

LEMMA SameMaps ==
  ASSUME Maps, editing' = [h \in Curators |-> editing'[h]], UNCHANGED <<kept, keptRows>>,
         records' = [i \in Records |-> records'[i]],
         \A h \in Curators : editing'[h].pc \in {"copy", "write", "clear"} =>
             editing'[h] = editing[h] \/ editing'[h].section \in U!Sections
  PROVE  Maps'
BY DEF Maps, U!Sections

-----------------------------------------------------------------------------
(* Memory. *)

\* What a step of memory leaves alone.
LEMMA RecordStepsKeep ==
  ASSUME UserInv, UNCHANGED <<kept, keptRows, sounds, soundRows, soundFiles, cut>>,
         Steady(U!Sections) /\ Steady({"sounds"}),
         spent \subseteq spent', records' = [i \in Records |-> records'[i]],
         \/ editing' = editing
         \/ \E h \in Curators : \E next :
              /\ U!Go(h, next)
              /\ editing[h].pc \notin {"copy", "write", "list", "unlisted"}
              /\ next.pc \notin {"copy", "write", "list", "unlisted"}
              /\ next.pc = "clear" => next.section \in U!Sections
  PROVE  Maps' /\ SavesOK' /\ SoundsOK'
<1>1. CASE editing' = editing
  <2>1. Same({"copy", "write"}) /\ Same({"list", "unlisted"}) BY <1>1 DEF Same
  <2>2. editing' = [g \in Curators |-> editing'[g]] BY <1>1 DEF UserInv, Maps
  <2> QED BY <1>1, <2>1, <2>2, SameMaps, SameSaves, SameSounds DEF UserInv
<1>2. ASSUME NEW h \in Curators, NEW next, U!Go(h, next),
             editing[h].pc \notin {"copy", "write", "list", "unlisted"},
             next.pc \notin {"copy", "write", "list", "unlisted"},
             next.pc = "clear" => next.section \in U!Sections
      PROVE  Maps' /\ SavesOK' /\ SoundsOK'
  <2>1. /\ editing' = [g \in Curators |-> editing'[g]]
        /\ editing'[h] = next /\ \A g \in Curators \ {h} : editing'[g] = editing[g]
    BY <1>2, Turned DEF UserInv
  <2>2. Same({"copy", "write"}) /\ Same({"list", "unlisted"}) BY <1>2, <2>1 DEF Same
  <2>3. \A g \in Curators : editing'[g].pc \in {"copy", "write", "clear"} =>
             editing'[g] = editing[g] \/ editing'[g].section \in U!Sections
    BY <1>2, <2>1
  <2> QED BY <2>1, <2>2, <2>3, SameMaps, SameSaves, SameSounds DEF UserInv
<1> QED BY <1>1, <1>2

\* A request that begins: a new record, or one as its author has read it.
LEMMA AskKeeps ==
  ASSUME UserInv, NEW h \in Curators, NEW i \in Records, NEW n,
         U!AskAdd(h, i, n) \/ \E verb \in {"update", "remove"} : U!AskChange(h, i, verb, n)
  PROVE  UserInv'
<1>0. UNCHANGED <<kept, keptRows, unsure, sounds, soundRows, soundFiles, cut>>
      /\ UNCHANGED <<records, memoryRows, ended, cards, cardRows>> /\ spent \subseteq spent'
      /\ U!At(h, "idle") /\ Steady(U!Sections) /\ Steady({"sounds"})
  BY DEF U!AskAdd, U!AskChange, U!mem, U!named, U!audio, Steady
<1>1. records' = [j \in Records |-> records'[j]] BY <1>0 DEF UserInv, Maps
<1>4. /\ "memory" \notin unsure' => memoryRows' = records'
      /\ "cards" \notin unsure' => cardRows' = cards'
      /\ memoryRows' = [j \in Records |-> memoryRows'[j]]
      /\ U!Present(records)' = U!Present(records) /\ U!Present(memoryRows)' = U!Present(memoryRows)
      /\ (U!Present(records) \cup U!Present(memoryRows) \cup ended)' \subseteq spent'
      /\ (U!Present(records) \cap ended)' = {}
      /\ \A j \in Records : records'[j] = U!Absent \/ records'[j].version \in Nat \ {0}
      /\ \A j \in Records : memoryRows'[j] = U!Absent \/ memoryRows'[j].version \in Nat \ {0}
  BY <1>0 DEF UserInv, RecordsOK, U!Present
<1>5. \A g \in Curators : Adds(g) /\ Edits(g) BY DEF UserInv, RecordsOK
<1>2. CASE U!AskAdd(h, i, n)
  <2> DEFINE next == [pc |-> "add", id |-> i, size |-> n]
  <2>1. U!Go(h, next) /\ i \notin spent /\ spent' = spent \cup {i} BY <1>2 DEF U!AskAdd
  <2>2. next.pc = "add" /\ next.id = i OBVIOUS
  <2> HIDE DEF next
  <2>3. editing'[h] = next /\ \A g \in Curators \ {h} : editing'[g] = editing[g]
    BY <2>1, Turned DEF UserInv
  <2>4. i \notin ended \cup U!Present(records) \cup U!Present(memoryRows) BY <2>1 DEF UserInv, RecordsOK
  <2>5. \A g \in Curators : Adds(g)'
    <3>1. \A g \in Curators \ {h} : U!At(g, "add")' => U!At(g, "add") /\ editing'[g] = editing[g]
      BY <2>3 DEF U!At
    <3>2. \A g \in Curators \ {h} : U!At(g, "add")' =>
            /\ editing'[g].id # i
            /\ editing'[g].id \in (Records \cap spent) \ (ended \cup U!Present(records) \cup U!Present(memoryRows))
      BY <3>1, <1>5, <2>1 DEF Adds
    <3>3. \A g, k \in Curators \ {h} :
            g # k /\ U!At(k, "add")' /\ U!At(g, "add")' => editing'[k].id # editing'[g].id
      BY <3>1, <1>5 DEF Adds
    <3> QED BY <3>2, <3>3, <1>0, <1>4, <2>1, <2>2, <2>3, <2>4 DEF Adds
  <2>6. \A g \in Curators : Edits(g)'
    <3> SUFFICES ASSUME NEW g \in Curators, editing'[g].pc \in {"update", "remove"} PROVE Edits(g)'
      BY DEF Edits
    <3>1. editing'[g] = editing[g] BY <2>2, <2>3
    <3>2. editing[g].id \in spent BY <3>1, <1>5 DEF Edits
    <3>3. editing[g].id # i BY <3>2, <2>1
    <3> QED BY <3>1, <3>3, <1>0, <1>5, <2>2, <2>3 DEF Edits, U!At
  <2>7. next.pc \notin {"copy", "write", "list", "unlisted", "clear"} BY <2>2
  <2>8. RecordsOK' BY <1>4, <2>5, <2>6 DEF RecordsOK
  <2> QED BY <1>0, <1>1, <2>1, <2>7, <2>8, RecordStepsKeep DEF UserInv, U!At
<1>3. ASSUME NEW verb \in {"update", "remove"}, U!AskChange(h, i, verb, n) PROVE UserInv'
  <2> DEFINE next == [pc |-> verb, id |-> i, read |-> records[i], size |-> n]
  <2>1. U!Go(h, next) /\ i \in U!Present(records) BY <1>3 DEF U!AskChange
  <2>2. next.pc = verb /\ next.id = i /\ next.read = records[i] OBVIOUS
  <2> HIDE DEF next
  <2>3. editing'[h] = next /\ \A g \in Curators \ {h} : editing'[g] = editing[g]
    BY <2>1, Turned DEF UserInv
  <2>4. \A g \in Curators : U!At(g, "add")' => g # h /\ U!At(g, "add") /\ editing'[g] = editing[g]
    BY <2>2, <2>3 DEF U!At
  <2>5. \A g \in Curators : Adds(g)' BY <1>0, <1>4, <1>5, <2>4 DEF Adds
  <2>6. \A g \in Curators \ {h} : Edits(g)' BY <1>0, <1>5, <2>3, <2>4 DEF Edits
  <2>7. Edits(h)'
    <3>1. i \in Records \cap spent /\ records[i].version \in Nat \ {0}
      BY <2>1 DEF UserInv, RecordsOK, U!Present
    <3>2. \A k \in Curators : U!At(k, "add") => editing[k].id # i BY <1>5, <2>1 DEF Adds
    <3> QED BY <3>1, <3>2, <1>0, <2>2, <2>3, <2>4 DEF Edits
  <2>8. RecordsOK' BY <1>4, <2>5, <2>6, <2>7 DEF RecordsOK
  <2>9. next.pc \notin {"copy", "write", "list", "unlisted", "clear"} BY <2>2
  <2> QED BY <1>0, <1>1, <2>1, <2>8, <2>9, RecordStepsKeep DEF UserInv, U!At
<1> QED BY <1>2, <1>3

\* What a step may do to a record, and what CurationKept says of it.
Fate(j) ==
  \/ records'[j] = records[j]
  \/ records'[j] = U!Absent
  \/ \E h \in Curators :
       /\ editing[h].id = j /\ records'[j].version \in Nat \ {0} /\ records'[j] # U!Absent
       /\ \/ U!At(h, "add")
          \/ U!At(h, "update") /\ records[j] = editing[h].read /\ records[j] # U!Absent
             /\ records'[j].version = records[j].version + 1

\* The table is saved, or the save failed.
Tabled ==
  /\ memoryRows' \in {records', memoryRows}
  /\ "memory" \notin unsure' => memoryRows' = records'

LEMMA FatesKeep ==
  ASSUME UserInv, NEW h \in Curators,
         \A j \in Records : Fate(j),
         ended \subseteq ended' /\ ended' \subseteq ended \cup (U!Present(records) \ U!Present(records)'),
         Tabled, "cards" \notin unsure' => cardRows' = cards', spent' = spent,
         records' = [j \in Records |-> records'[j]],
         \A g \in Curators : editing'[g].pc \in {"add", "update", "remove"} => editing'[g] = editing[g],
         \A g \in Curators : U!At(g, "add") /\ editing[g].id \in U!Present(records)' => ~U!At(g, "add")'
  PROVE  RecordsOK'
<1>1. \A g \in Curators : Adds(g) /\ Edits(g) BY DEF UserInv, RecordsOK
<1>2. U!Present(records)' \subseteq U!Present(records) \cup {editing[g].id : g \in {k \in Curators : U!At(k, "add")}}
  BY DEF U!Present, Fate
<1>8. U!Present(memoryRows)' \in {U!Present(records)', U!Present(memoryRows)} BY DEF Tabled, U!Present
<1>3. (U!Present(records) \cup U!Present(memoryRows) \cup ended)' \subseteq spent'
  <2>1. U!Present(records) \cup U!Present(memoryRows) \cup ended \subseteq spent /\ spent' = spent
    BY DEF UserInv, RecordsOK
  <2>2. U!Present(records)' \subseteq spent BY <1>1, <1>2, <2>1 DEF Adds
  <2>3. U!Present(memoryRows)' \subseteq spent BY <1>8, <2>1, <2>2
  <2>4. ended' \subseteq spent BY <2>1
  <2> QED BY <2>1, <2>2, <2>3, <2>4 DEF U!Present
<1>4. (U!Present(records) \cap ended)' = {}
  BY <1>1, <1>2 DEF UserInv, RecordsOK, Adds
<1>5. \A j \in Records : records'[j] = U!Absent \/ records'[j].version \in Nat \ {0}
  BY DEF Fate, UserInv, RecordsOK
<1>6. \A g \in Curators : Adds(g)'
  <2> SUFFICES ASSUME NEW g \in Curators, U!At(g, "add")' PROVE Adds(g)'
    BY DEF Adds
  <2>1. editing'[g] = editing[g] /\ U!At(g, "add") BY DEF U!At
  <2>2. editing[g].id \in (Records \cap spent) \ (ended \cup U!Present(records) \cup U!Present(memoryRows))
    BY <2>1, <1>1 DEF Adds
  <2>3. editing[g].id \notin ended' \cup U!Present(records)' \cup U!Present(memoryRows)'
    BY <2>1, <2>2, <1>8
  <2>4. \A k \in Curators \ {g} : U!At(k, "add")' => editing'[k].id # editing'[g].id
    BY <2>1, <1>1 DEF Adds, U!At
  <2> QED BY <2>1, <2>2, <2>3, <2>4 DEF Adds
<1>7. \A g \in Curators : Edits(g)'
  <2> SUFFICES ASSUME NEW g \in Curators, editing'[g].pc \in {"update", "remove"} PROVE Edits(g)'
    BY DEF Edits
  <2> DEFINE j == editing[g].id
  <2>1. editing'[g] = editing[g] OBVIOUS
  <2>2. /\ j \in Records \cap spent /\ \A k \in Curators : U!At(k, "add") => editing[k].id # j
        /\ editing[g].read.version \in Nat \ {0}
        /\ records[j] \in {U!Absent, editing[g].read} \/ editing[g].read.version < records[j].version
    BY <2>1, <1>1 DEF Edits
  <2>3. \A k \in Curators : U!At(k, "add")' => editing'[k].id # j BY <2>2 DEF U!At
  <2>4. records[j] = U!Absent \/ records[j].version \in Nat \ {0} BY <2>2 DEF UserInv, RecordsOK
  <2>5. records'[j] \in {U!Absent, editing[g].read} \/ editing[g].read.version < records'[j].version
    BY <2>2, <2>4 DEF Fate
  <2> QED BY <2>1, <2>2, <2>3, <2>5 DEF Edits
<1>9. memoryRows' = [j \in Records |-> memoryRows'[j]]
      /\ \A j \in Records : memoryRows'[j] = U!Absent \/ memoryRows'[j].version \in Nat \ {0}
  BY <1>5 DEF Tabled, UserInv, RecordsOK
<1> QED BY <1>3, <1>4, <1>5, <1>6, <1>7, <1>9 DEF RecordsOK, Tabled

\* The records of a step that stores none but at most one, or removes some.
LEMMA StoreFates ==
  ASSUME UserInv, NEW h \in Curators, U!AddMemory(h) \/ U!UpdateMemory(h)
  PROVE  /\ \A j \in Records : Fate(j)
         /\ records' = [j \in Records |-> records'[j]] /\ Tabled /\ ended' = ended
         /\ \A j \in U!Present(records)' : j \in U!Present(records) \/ (U!At(h, "add") /\ j = editing[h].id)
<1> DEFINE r == editing[h]
<1>1. ended' = ended BY DEF U!AddMemory, U!UpdateMemory
<1>2. CASE UNCHANGED <<records, memoryRows, unsure>>
  <2>1. records' = [j \in Records |-> records'[j]] BY <1>2 DEF UserInv, Maps
  <2>2. \A j : Fate(j) BY <1>2 DEF Fate
  <2>3. Tabled BY <1>2 DEF UserInv, RecordsOK, Tabled
  <2>4. U!Present(records)' = U!Present(records) BY <1>2 DEF U!Present
  <2> QED BY <1>1, <2>1, <2>2, <2>3, <2>4
<1>3. ASSUME NEW card, records' = [records EXCEPT ![r.id] = card], Tabled,
             card # U!Absent, card.version \in Nat \ {0},
             \/ U!At(h, "add")
             \/ U!At(h, "update") /\ records[r.id] = r.read /\ records[r.id] # U!Absent
                /\ card.version = records[r.id].version + 1
      PROVE  /\ \A j \in Records : Fate(j)
             /\ records' = [j \in Records |-> records'[j]] /\ Tabled /\ ended' = ended
             /\ \A j \in U!Present(records)' : j \in U!Present(records) \/ (U!At(h, "add") /\ j = editing[h].id)
  <2>1. records' = [j \in Records |-> IF j = r.id THEN card ELSE records[j]]
    BY <1>3 DEF UserInv, Maps
  <2>2. \A j \in Records : records'[j] = IF j = r.id THEN card ELSE records[j] BY <2>1
  <2>3. ASSUME NEW j \in Records PROVE Fate(j)
    <3>1. CASE j # r.id BY <3>1, <2>2 DEF Fate
    <3>2. CASE j = r.id
      <4>1. records'[j] = card BY <3>2, <2>2
      <4> QED BY <3>2, <4>1, <1>3 DEF Fate
    <3> QED BY <3>1, <3>2
  <2>4. records' = [j \in Records |-> records'[j]] BY <2>1
  <2>5. \A j \in U!Present(records)' : j \in U!Present(records) \/ (U!At(h, "add") /\ j = editing[h].id)
    BY <2>2, <1>3 DEF U!Present
  <2> QED BY <1>1, <1>3, <2>3, <2>4, <2>5
<1>4. CASE U!AddMemory(h)
  <2> DEFINE card == [version |-> 1, text |-> r.id, size |-> r.size]
  <2>1. /\ U!At(h, "add")
        /\ \/ records' = [records EXCEPT ![r.id] = card] /\ Tabled
           \/ UNCHANGED <<records, memoryRows, unsure>>
    BY <1>4 DEF U!AddMemory, U!Store, U!Saved, U!Unsaved, Tabled
  <2>2. card.version = 1 /\ U!Absent.version = 0 BY DEF U!Absent
  <2> HIDE DEF card
  <2>3. card # U!Absent /\ card.version \in Nat \ {0} BY <2>2
  <2> QED BY <2>1, <2>3, <1>2, <1>3
<1>5. CASE U!UpdateMemory(h)
  <2> DEFINE card == [version |-> records[r.id].version + 1, text |-> <<h, r.read.version>>, size |-> r.size]
  <2>1. /\ U!At(h, "update")
        /\ \/ /\ records[r.id] # U!Absent /\ records[r.id].version = r.read.version
              /\ records' = U!Written(h) /\ Tabled
           \/ UNCHANGED <<records, memoryRows, unsure>>
    BY <1>5 DEF U!UpdateMemory, U!Store, U!Saved, U!Unsaved, Tabled
  <2>2. Edits(h) BY DEF UserInv, RecordsOK
  <2>3. r.id \in Records /\ r.read.version \in Nat \ {0}
        /\ (records[r.id] \in {U!Absent, r.read} \/ r.read.version < records[r.id].version)
    BY <2>1, <2>2 DEF Edits, U!At
  <2>4. ASSUME records[r.id] # U!Absent, records[r.id].version = r.read.version,
               records' = U!Written(h)
        PROVE  /\ records' = [records EXCEPT ![r.id] = card]
               /\ records[r.id] = r.read
    <3>1. U!Written(h) = [records EXCEPT ![r.id] = card] BY <2>3 DEF U!Written, UserInv, Maps
    <3>2. records[r.id] = r.read BY <2>3, <2>4
    <3> QED BY <2>4, <3>1, <3>2
  <2>5. card.version = records[r.id].version + 1 /\ U!Absent.version = 0 BY DEF U!Absent
  <2> HIDE DEF card
  <2>6. records[r.id].version = r.read.version => card # U!Absent /\ card.version \in Nat \ {0}
    BY <2>3, <2>5
  <2> QED BY <2>1, <2>4, <2>5, <2>6, <1>2, <1>3
<1> QED BY <1>4, <1>5

\* Records that are dropped are ended.
LEMMA DropFates ==
  ASSUME UserInv, NEW is, U!Drop(is)
  PROVE  /\ \A j \in Records : Fate(j)
         /\ records' = [j \in Records |-> records'[j]] /\ Tabled
         /\ U!Present(records)' = U!Present(records) \ is /\ ended' = ended \cup (is \cap U!Present(records))
         /\ UNCHANGED <<cards, cardRows>>
<1>1. /\ records' = [j \in Records |-> IF j \in is THEN U!Absent ELSE records[j]]
      /\ Tabled /\ ended' = ended \cup (is \cap U!Present(records))
      /\ UNCHANGED <<cards, cardRows>>
  BY DEF U!Drop, U!Store, U!Saved, U!Unsaved, Tabled
<1>2. \A j \in Records : records'[j] = IF j \in is THEN U!Absent ELSE records[j] BY <1>1
<1>3. \A j \in Records : Fate(j) BY <1>1, <1>2 DEF Fate, U!Present
<1>4. U!Present(records)' = U!Present(records) \ is BY <1>2 DEF U!Present
<1> QED BY <1>1, <1>3, <1>4

\* A step of a curator.
LEMMA CurateKeeps ==
  ASSUME UserInv, NEW h \in Curators,
         \/ U!AddMemory(h) \/ U!UpdateMemory(h) \/ U!RemoveMemory(h) \/ U!CleanMemory(h) \/ U!SubmitCard(h)
         \/ U!StartClear(h) \/ U!ClearLeaderboards(h)
  PROVE  UserInv' /\ (\A j \in Records : Fate(j)) /\ ended \subseteq ended'
<1>1. UNCHANGED <<kept, keptRows, sounds, soundRows, soundFiles, cut, spent>>
  BY DEF U!AddMemory, U!UpdateMemory, U!RemoveMemory, U!CleanMemory, U!SubmitCard, U!StartClear,
         U!ClearLeaderboards, U!named, U!audio
<1>9. \/ U!SaveCards /\ (U!SubmitCard(h) \/ U!ClearLeaderboards(h))
      \/ /\ UNCHANGED <<cards, cardRows>>
         /\ unsure' \in {unsure, unsure \ {"memory"}, unsure \cup {"memory"}}
         /\ ~U!SubmitCard(h) /\ ~U!ClearLeaderboards(h)
  BY DEF U!AddMemory, U!UpdateMemory, U!RemoveMemory, U!CleanMemory, U!SubmitCard, U!StartClear,
         U!ClearLeaderboards, U!mem, U!Drop, U!Store, U!Saved, U!Unsaved
<1>10. Steady(U!Sections) /\ Steady({"sounds"})
  BY <1>9 DEF Steady, U!Sections, U!SaveCards, U!Saved, U!Unsaved
<1>2. "cards" \notin unsure' => cardRows' = cards'
  BY <1>9 DEF U!SaveCards, U!Saved, U!Unsaved, UserInv, RecordsOK
<1>3. /\ \A j \in Records : Fate(j)
      /\ records' = [j \in Records |-> records'[j]] /\ Tabled
      /\ ended \subseteq ended' /\ ended' \subseteq ended \cup (U!Present(records) \ U!Present(records)')
      /\ \A j \in U!Present(records)' : j \in U!Present(records) \/ (U!At(h, "add") /\ j = editing[h].id)
  <2>1. CASE U!AddMemory(h) \/ U!UpdateMemory(h) BY <2>1, StoreFates
  <2>2. ASSUME NEW is, U!Drop(is)
        PROVE  /\ \A j \in Records : Fate(j)
               /\ records' = [j \in Records |-> records'[j]] /\ Tabled
               /\ ended \subseteq ended' /\ ended' \subseteq ended \cup (U!Present(records) \ U!Present(records)')
               /\ \A j \in U!Present(records)' : j \in U!Present(records)
    BY <2>2, DropFates
  <2>3. CASE UNCHANGED <<records, memoryRows, ended>> /\ Steady({"memory"})
    BY <2>3 DEF Fate, UserInv, Maps, RecordsOK, U!Present, Tabled, Steady
  <2>4. CASE U!RemoveMemory(h)
    <3>1. U!Drop({editing[h].id}) \/ (UNCHANGED <<records, memoryRows, ended>> /\ Steady({"memory"}))
      BY <2>4 DEF U!RemoveMemory, U!mem, Steady
    <3> QED BY <3>1, <2>2, <2>3
  <2>5. CASE U!CleanMemory(h) \/ U!StartClear(h)
    <3>1. U!Drop(Records) BY <2>5 DEF U!CleanMemory, U!StartClear
    <3> QED BY <3>1, <2>2
  <2>6. CASE U!SubmitCard(h) \/ U!ClearLeaderboards(h)
    <3>1. UNCHANGED <<records, memoryRows, ended>> /\ Steady({"memory"})
      BY <2>6 DEF U!SubmitCard, U!ClearLeaderboards, U!SaveCards, U!Saved, U!Unsaved, Steady
    <3> QED BY <3>1, <2>3
  <2> QED BY <2>1, <2>4, <2>5, <2>6
<1> DEFINE TurnsTo(next) == /\ U!Go(h, next)
                            /\ editing[h].pc \notin {"copy", "write", "list", "unlisted"}
                            /\ next.pc \notin {"copy", "write", "list", "unlisted", "add", "update", "remove"}
                            /\ next.pc = "clear" => next.section \in U!Sections
<1>4. (editing' = editing /\ ~U!At(h, "add")) \/ \E next : TurnsTo(next)
  <2>1. CASE U!AddMemory(h) \/ U!UpdateMemory(h) \/ U!RemoveMemory(h)
    <3>1. U!Go(h, U!Idle) /\ editing[h].pc \in {"add", "update", "remove"}
      BY <2>1 DEF U!AddMemory, U!UpdateMemory, U!RemoveMemory, U!At
    <3>2. TurnsTo(U!Idle) BY <3>1 DEF U!Idle
    <3> HIDE DEF TurnsTo
    <3> QED BY <3>2
  <2>2. CASE U!CleanMemory(h) \/ U!SubmitCard(h) BY <2>2 DEF U!CleanMemory, U!SubmitCard, U!At
  <2>3. CASE U!StartClear(h)
    <3>1. TurnsTo([pc |-> "cards"]) BY <2>3 DEF U!StartClear, U!At
    <3> HIDE DEF TurnsTo
    <3> QED BY <3>1
  <2>4. CASE U!ClearLeaderboards(h)
    <3>1. U!Go(h, [pc |-> "clear", section |-> "prompts"]) /\ editing[h].pc = "cards"
      BY <2>4 DEF U!ClearLeaderboards, U!At
    <3>2. TurnsTo([pc |-> "clear", section |-> "prompts"]) BY <3>1 DEF U!Sections
    <3> HIDE DEF TurnsTo
    <3> QED BY <3>2
  <2> QED BY <2>1, <2>2, <2>3, <2>4
<1>5. Maps' /\ SavesOK' /\ SoundsOK'
  BY <1>1, <1>3, <1>4, <1>10, RecordStepsKeep
<1>6. /\ \A g \in Curators : editing'[g].pc \in {"add", "update", "remove"} => editing'[g] = editing[g]
      /\ ~U!At(h, "add")'
  <2>1. CASE editing' = editing /\ ~U!At(h, "add") BY <2>1 DEF U!At
  <2>2. ASSUME NEW next, TurnsTo(next)
        PROVE  /\ \A g \in Curators : editing'[g].pc \in {"add", "update", "remove"} => editing'[g] = editing[g]
               /\ ~U!At(h, "add")'
    BY <2>2, Turned DEF UserInv, U!At
  <2> QED BY <2>1, <2>2, <1>4
<1>7. \A g \in Curators : U!At(g, "add") /\ editing[g].id \in U!Present(records)' => ~U!At(g, "add")'
  <2> SUFFICES ASSUME NEW g \in Curators, U!At(g, "add"), editing[g].id \in U!Present(records)', g # h
               PROVE  FALSE
    BY <1>6
  <2>1. Adds(g) BY DEF UserInv, RecordsOK
  <2> QED BY <2>1, <1>3 DEF Adds
<1>8. RecordsOK' BY <1>1, <1>2, <1>3, <1>6, <1>7, FatesKeep
<1> QED BY <1>3, <1>5, <1>8 DEF UserInv

-----------------------------------------------------------------------------
(* Named sections. *)

\* A step of a save leaves records and sounds alone.
LEMMA SaveStepsKeep ==
  ASSUME UserInv, UNCHANGED <<records, memoryRows, ended, cards, cardRows, spent>>,
         UNCHANGED <<sounds, soundRows, soundFiles, cut>>, Steady(U!Others),
         Same({"add", "update", "remove", "list", "unlisted"})
  PROVE  RecordsOK' /\ SoundsOK' /\ \A j \in Records : Fate(j)
<1>3. Steady({"memory", "cards"}) /\ Steady({"sounds"}) BY DEF Steady, U!Others
<1>1. Same({"add", "update", "remove"}) /\ Same({"list", "unlisted"}) BY DEF Same
<1>2. \A j \in Records : Fate(j) BY DEF Fate
<1> QED BY <1>1, <1>2, <1>3, SameRecords, SameSounds DEF UserInv

\* Savers of a section are not alone any more, when somebody changes it.
LEMMA JoinedTurns ==
  ASSUME UserInv, NEW h \in Curators, NEW s, NEW next, U!Joined(h, s, next)
  PROVE  /\ editing' = [g \in Curators |-> editing'[g]] /\ editing'[h] = next
         /\ \A g \in Curators \ {h} :
              /\ editing'[g].pc = editing[g].pc
              /\ g \notin U!Saving(s) => editing'[g] = editing[g]
              /\ g \in U!Saving(s) =>
                   /\ editing'[g].section = s /\ ~editing'[g].alone
                   /\ DOMAIN editing'[g] = DOMAIN editing[g]
<1>1. editing' = [g \in Curators |-> IF g = h THEN next
                     ELSE IF g \in U!Saving(s) THEN [editing[g] EXCEPT !.alone = FALSE] ELSE editing[g]]
  BY DEF U!Joined
<1>2. \A g \in Curators \ {h} : g \notin U!Saving(s) => editing'[g] = editing[g] BY <1>1
<1>3. ASSUME NEW g \in Curators \ {h}, g \in U!Saving(s)
      PROVE  /\ editing'[g].pc = editing[g].pc
             /\ editing'[g].section = s /\ ~editing'[g].alone
             /\ DOMAIN editing'[g] = DOMAIN editing[g]
  <2>1. editing'[g] = [editing[g] EXCEPT !.alone = FALSE] /\ editing[g].section = s
        /\ editing[g].pc \in {"copy", "write"}
    BY <1>1, <1>3 DEF U!Saving
  <2>2. {"pc", "section", "alone"} \subseteq DOMAIN editing[g]
    BY <2>1 DEF UserInv, SavesOK, SavingOK
  <2> QED BY <2>1, <2>2
<1>4. editing' = [g \in Curators |-> editing'[g]] /\ editing'[h] = next BY <1>1
<1> QED BY <1>2, <1>3, <1>4

\* A change starts a save, a clearing empties the table as well or fails to; either
\* takes the savers' solitude.
LEMMA JoinKeeps ==
  ASSUME NEW h \in Curators, NEW s \in U!Sections, NEW ns, NEW next, UserInv,
         editing[h].pc \in {"idle", "clear"},
         kept' = [kept EXCEPT ![s] = ns], U!Joined(h, s, next),
         \/ /\ next = [pc |-> "copy", section |-> s, alone |-> next.alone]
            /\ UNCHANGED <<keptRows, unsure>>
         \/ /\ \/ keptRows' = [keptRows EXCEPT ![s] = ns] /\ U!Saved(s)
               \/ UNCHANGED keptRows /\ U!Unsaved(s)
            /\ next.pc \in {"clear", "unlist"} /\ (next.pc = "clear" => next.section \in U!Sections),
         UNCHANGED <<records, memoryRows, ended, cards, cardRows, spent>>,
         UNCHANGED <<sounds, soundRows, soundFiles, cut>>
  PROVE  UserInv' /\ \A j \in Records : Fate(j)
<1>1. /\ editing' = [g \in Curators |-> editing'[g]] /\ editing'[h] = next /\ h \notin U!Saving(s)
      /\ \A g \in Curators \ {h} :
           /\ editing'[g].pc = editing[g].pc
           /\ g \notin U!Saving(s) => editing'[g] = editing[g]
           /\ g \in U!Saving(s) =>
                /\ editing'[g].section = s /\ ~editing'[g].alone
                /\ DOMAIN editing'[g] = DOMAIN editing[g]
  <2>1. h \notin U!Saving(s) BY DEF U!Saving
  <2> QED BY <2>1, JoinedTurns
<1>2. next.pc \in {"copy", "clear", "unlist"}
      /\ (next.pc \in {"copy", "clear"} => next.section \in U!Sections)
  OBVIOUS
<1>3. Same({"add", "update", "remove", "list", "unlisted"})
  BY <1>1, <1>2 DEF Same, U!Saving
<1>12. unsure' \in {unsure, unsure \ {s}, unsure \cup {s}} BY DEF U!Saved, U!Unsaved
<1>13. Steady(U!Others) BY <1>12 DEF Steady, U!Others, U!Sections
<1>4. RecordsOK' /\ SoundsOK' /\ \A j \in Records : Fate(j) BY <1>3, <1>13, SaveStepsKeep
<1>5. kept' = [t \in U!Sections |-> kept'[t]] /\ keptRows' = [t \in U!Sections |-> keptRows'[t]]
      /\ \A t \in U!Sections : kept'[t] = IF t = s THEN ns ELSE kept[t]
  BY DEF UserInv, Maps
<1>6. \A g \in Curators : editing'[g].pc \in {"copy", "write", "clear"} => editing'[g].section \in U!Sections
  BY <1>1, <1>2 DEF UserInv, Maps, U!Saving
<1>7. Maps'
  <2>1. records' = [i \in Records |-> records'[i]] BY DEF UserInv, Maps
  <2> QED BY <1>1, <1>5, <1>6, <2>1 DEF Maps, U!Sections
<1>8. \A t \in U!Sections \ {s} : U!Saving(t)' = U!Saving(t)
  BY <1>1, <1>2 DEF U!Saving
<1>9. \A t \in U!Sections \ unsure' : U!Saving(t)' # {} \/ keptRows'[t] = kept'[t]
  <2> SUFFICES ASSUME NEW t \in U!Sections \ unsure' PROVE U!Saving(t)' # {} \/ keptRows'[t] = kept'[t]
    OBVIOUS
  <2>1. CASE t # s
    <3>1. keptRows'[t] = keptRows[t] BY <2>1 DEF UserInv, Maps
    <3>2. t \notin unsure BY <2>1, <1>12
    <3> QED BY <2>1, <3>1, <3>2, <1>5, <1>8 DEF UserInv, SavesOK
  <2>2. CASE t = s /\ next = [pc |-> "copy", section |-> s, alone |-> next.alone]
    <3>1. h \in U!Saving(s)' BY <2>2, <1>1 DEF U!Saving
    <3> QED BY <2>2, <3>1
  <2>3. CASE t = s /\ keptRows' = [keptRows EXCEPT ![s] = ns]
    <3>1. keptRows'[s] = ns BY <2>3 DEF UserInv, Maps
    <3> QED BY <2>3, <3>1, <1>5
  <2>4. CASE U!Unsaved(s) BY <2>4, <2>1 DEF U!Unsaved
  <2> QED BY <2>1, <2>2, <2>3, <2>4
<1>10. ASSUME NEW g \in Curators PROVE SavingOK(g)'
  <2>1. CASE g = h BY <2>1, <1>1, <1>2 DEF U!At, SavingOK
  <2>2. CASE g # h /\ g \in U!Saving(s)
    <3>1. SavingOK(g) BY DEF UserInv, SavesOK
    <3>2. editing'[g].pc = editing[g].pc /\ ~editing'[g].alone /\ DOMAIN editing'[g] = DOMAIN editing[g]
      BY <2>2, <1>1
    <3> QED BY <3>1, <3>2 DEF U!At, SavingOK
  <2>3. CASE g # h /\ g \notin U!Saving(s)
    <3>1. editing'[g] = editing[g] BY <2>3, <1>1
    <3>2. U!At(g, "write") => editing[g].section \in U!Sections \ {s} BY <2>3 DEF U!Saving, U!At, UserInv, Maps
    <3> QED BY <3>1, <3>2, <1>5 DEF UserInv, SavesOK, SavingOK, U!At
  <2> QED BY <2>1, <2>2, <2>3
<1>11. SavesOK' BY <1>9, <1>10 DEF SavesOK
<1> QED BY <1>4, <1>7, <1>11 DEF UserInv

\* The copy is of the section as it is; the write may be of an older copy.
LEMMA NamesSavedKeep ==
  ASSUME UserInv, NEW h \in Curators, U!Copy(h) \/ U!Write(h)
  PROVE  UserInv' /\ \A j \in Records : Fate(j)
<1> DEFINE s == editing[h].section
<1>0. /\ UNCHANGED <<records, memoryRows, ended, cards, cardRows, spent>>
      /\ UNCHANGED <<sounds, soundRows, soundFiles, cut>> /\ UNCHANGED kept
      /\ s \in U!Sections
  BY DEF U!Copy, U!Write, U!mem, U!named, U!audio, U!At, UserInv, Maps
<1>4. unsure' \in {unsure, unsure \ {s}, unsure \cup {s}} BY DEF U!Copy, U!Write, U!Saved, U!Unsaved
<1>5. Steady(U!Others) BY <1>0, <1>4 DEF Steady, U!Others, U!Sections
<1>1. records' = [i \in Records |-> records'[i]] BY <1>0 DEF UserInv, Maps
<1>2. CASE U!Copy(h)
  <2> DEFINE next == [pc |-> "write", section |-> s, alone |-> editing[h].alone, rows |-> kept[s]]
  <2>1. U!At(h, "copy") /\ U!Go(h, next) /\ UNCHANGED <<keptRows, unsure>> BY <1>2 DEF U!Copy, U!named
  <2>2. next = [pc |-> "write", section |-> next.section, alone |-> next.alone, rows |-> next.rows]
        /\ next.pc = "write" /\ next.section = s /\ next.rows = kept[s]
    OBVIOUS
  <2> HIDE DEF next
  <2>3. /\ editing' = [g \in Curators |-> editing'[g]]
        /\ editing'[h] = next /\ \A g \in Curators \ {h} : editing'[g] = editing[g]
    BY <2>1, Turned DEF UserInv
  <2>4. Same({"add", "update", "remove", "list", "unlisted"}) BY <2>1, <2>2, <2>3 DEF Same, U!At
  <2>5. Maps' BY <1>0, <1>1, <2>1, <2>2, <2>3, SameMaps DEF UserInv
  <2>6. \A t : U!Saving(t)' = U!Saving(t) BY <2>1, <2>2, <2>3 DEF U!Saving, U!At
  <2>7. SavesOK'
    <3>1. \A t \in U!Sections \ unsure' : U!Saving(t)' # {} \/ keptRows'[t] = kept'[t]
      BY <1>0, <2>1, <2>6 DEF UserInv, SavesOK
    <3>2. \A g \in Curators \ {h} : SavingOK(g)' BY <1>0, <2>3 DEF UserInv, SavesOK, SavingOK, U!At
    <3>3. SavingOK(h)' BY <1>0, <2>2, <2>3 DEF SavingOK, U!At
    <3> QED BY <3>1, <3>2, <3>3 DEF SavesOK
  <2> QED BY <1>0, <1>5, <2>4, <2>5, <2>7, SaveStepsKeep DEF UserInv
<1>3. CASE U!Write(h)
  <2>1. /\ U!At(h, "write") /\ U!Go(h, U!Idle)
        /\ \/ keptRows' = [keptRows EXCEPT ![s] = editing[h].rows] /\ (editing[h].alone \/ U!Unsaved(s))
           \/ UNCHANGED keptRows /\ U!Unsaved(s)
    BY <1>3 DEF U!Write
  <2>2. U!Idle.pc = "idle" BY DEF U!Idle
  <2>3. /\ editing' = [g \in Curators |-> editing'[g]]
        /\ editing'[h] = U!Idle /\ \A g \in Curators \ {h} : editing'[g] = editing[g]
    BY <2>1, Turned DEF UserInv
  <2>4. Same({"add", "update", "remove", "list", "unlisted"}) BY <2>1, <2>2, <2>3 DEF Same, U!At
  <2>5. /\ keptRows' = [t \in U!Sections |-> keptRows'[t]]
        /\ \A t \in U!Sections \ {s} : keptRows'[t] = keptRows[t]
        /\ keptRows'[s] = editing[h].rows \/ U!Unsaved(s)
    BY <1>0, <2>1 DEF UserInv, Maps
  <2>6. Maps'
    <3>1. \A g \in Curators : editing'[g].pc \in {"copy", "write", "clear"} => editing'[g].section \in U!Sections
      BY <2>2, <2>3 DEF UserInv, Maps
    <3>2. kept' = [t \in U!Sections |-> kept'[t]] BY <1>0 DEF UserInv, Maps
    <3> QED BY <1>1, <2>3, <2>5, <3>1, <3>2 DEF Maps, U!Sections
  <2>7. \A t \in U!Sections \ {s} : U!Saving(t)' = U!Saving(t) BY <2>2, <2>3 DEF U!Saving
  <2>8. \A t \in U!Sections \ unsure' : U!Saving(t)' # {} \/ keptRows'[t] = kept'[t]
    <3> SUFFICES ASSUME NEW t \in U!Sections \ unsure' PROVE U!Saving(t)' # {} \/ keptRows'[t] = kept[t]
      BY <1>0
    <3>1. CASE t # s BY <3>1, <1>4, <2>5, <2>7 DEF UserInv, SavesOK
    <3>2. CASE t = s
      <4>1. ~U!Unsaved(s) BY <3>2 DEF U!Unsaved
      <4>2. editing[h].rows = kept[s] BY <4>1, <2>1 DEF UserInv, SavesOK, SavingOK
      <4> QED BY <3>2, <4>1, <4>2, <2>5
    <3> QED BY <3>1, <3>2
  <2>9. SavesOK'
    <3>1. \A g \in Curators \ {h} : SavingOK(g)' BY <1>0, <2>3 DEF UserInv, SavesOK, SavingOK, U!At
    <3>2. SavingOK(h)' BY <2>2, <2>3 DEF SavingOK, U!At
    <3> QED BY <2>8, <3>1, <3>2 DEF SavesOK
  <2> QED BY <1>0, <1>5, <2>4, <2>6, <2>9, SaveStepsKeep DEF UserInv
<1> QED BY <1>2, <1>3

LEMMA NamesKeep ==
  ASSUME UserInv, NEW h \in Curators, NEW ns, U!ChangeFleet(h, ns) \/ U!ChangePrompt(h, ns)
  PROVE  UserInv' /\ (\A j \in Records : Fate(j)) /\ ended \subseteq ended'
<1>1. PICK s \in U!Sections : U!Change(h, s, ns) BY DEF U!ChangeFleet, U!ChangePrompt, U!Sections
<1>2. \E next :
        /\ next = [pc |-> "copy", section |-> s, alone |-> next.alone] /\ U!Joined(h, s, next)
        /\ editing[h].pc = "idle" /\ kept' = [kept EXCEPT ![s] = ns]
        /\ UNCHANGED <<keptRows, unsure>>
        /\ UNCHANGED <<records, memoryRows, ended, cards, cardRows, spent>>
        /\ UNCHANGED <<sounds, soundRows, soundFiles, cut>>
  <2> DEFINE next == [pc |-> "copy", section |-> s, alone |-> U!Saving(s) = {}]
  <2>1. next = [pc |-> "copy", section |-> s, alone |-> next.alone] OBVIOUS
  <2>2. /\ editing[h].pc = "idle" /\ kept' = [kept EXCEPT ![s] = ns] /\ U!Joined(h, s, next)
        /\ UNCHANGED <<keptRows, unsure>>
        /\ UNCHANGED <<records, memoryRows, ended, cards, cardRows, spent>>
        /\ UNCHANGED <<sounds, soundRows, soundFiles, cut>>
    BY <1>1 DEF U!Change, U!At, U!mem, U!audio
  <2> HIDE DEF next
  <2> QED BY <2>1, <2>2
<1>3. UserInv' /\ \A j \in Records : Fate(j) BY <1>2, JoinKeeps
<1> QED BY <1>2, <1>3

LEMMA ClearSectionKeeps ==
  ASSUME UserInv, NEW h \in Curators, U!ClearSection(h)
  PROVE  UserInv' /\ (\A j \in Records : Fate(j)) /\ ended \subseteq ended'
<1>1. PICK s \in U!Sections : s = editing[h].section BY DEF U!ClearSection, U!At, UserInv, Maps
<1>2. \E next :
        /\ next.pc \in {"clear", "unlist"} /\ (next.pc = "clear" => next.section \in U!Sections)
        /\ U!Joined(h, s, next) /\ editing[h].pc = "clear"
        /\ kept' = [kept EXCEPT ![s] = {}]
        /\ \/ keptRows' = [keptRows EXCEPT ![s] = {}] /\ U!Saved(s)
           \/ UNCHANGED keptRows /\ U!Unsaved(s)
        /\ UNCHANGED <<records, memoryRows, ended, cards, cardRows, spent>>
        /\ UNCHANGED <<sounds, soundRows, soundFiles, cut>>
  <2> DEFINE next == IF s = "prompts" THEN [pc |-> "clear", section |-> "fleets"] ELSE [pc |-> "unlist"]
  <2>1. next.pc \in {"clear", "unlist"} /\ (next.pc = "clear" => next.section \in U!Sections)
    BY DEF U!Sections
  <2>2. /\ U!Joined(h, s, next) /\ editing[h].pc = "clear"
        /\ kept' = [kept EXCEPT ![s] = {}]
        /\ \/ keptRows' = [keptRows EXCEPT ![s] = {}] /\ U!Saved(s)
           \/ UNCHANGED keptRows /\ U!Unsaved(s)
        /\ UNCHANGED <<records, memoryRows, ended, cards, cardRows, spent>>
        /\ UNCHANGED <<sounds, soundRows, soundFiles, cut>>
    BY <1>1 DEF U!ClearSection, U!At, U!mem, U!audio
  <2> HIDE DEF next
  <2> QED BY <2>1, <2>2
<1>3. UserInv' /\ \A j \in Records : Fate(j) BY <1>2, JoinKeeps
<1> QED BY <1>2, <1>3

-----------------------------------------------------------------------------
(* Sounds. *)

\* A step of sounds leaves the rest alone.
LEMMA SoundStepsKeep ==
  ASSUME UserInv, UNCHANGED <<records, memoryRows, ended, cards, cardRows>>, spent \subseteq spent',
         UNCHANGED <<kept, keptRows>>, Steady(U!Sections) /\ Steady({"memory", "cards"}),
         editing' = [h \in Curators |-> editing'[h]],
         Same({"add", "update", "remove", "copy", "write", "clear"})
  PROVE  Maps' /\ RecordsOK' /\ SavesOK' /\ (\A j \in Records : Fate(j)) /\ ended \subseteq ended'
<1>1. Same({"add", "update", "remove"}) /\ Same({"copy", "write"}) BY DEF Same
<1>2. records' = [i \in Records |-> records'[i]] BY DEF UserInv, Maps
<1>3. \A j \in Records : Fate(j) BY DEF Fate
<1>4. \A h \in Curators : editing'[h].pc \in {"copy", "write", "clear"} => editing'[h] = editing[h]
  BY DEF Same
<1>5. Maps' BY <1>2, <1>4, SameMaps DEF UserInv
<1>6. RecordsOK' BY <1>1, SameRecords DEF UserInv
<1>7. SavesOK' BY <1>1, SameSaves DEF UserInv
<1> QED BY <1>3, <1>5, <1>6, <1>7

\* What a request does next with the sounds leaves the rest alone.
LEMMA PlayTurns ==
  ASSUME UserInv, NEW h \in Curators, NEW next, U!Go(h, next),
         editing[h].pc \notin {"add", "update", "remove", "copy", "write", "clear"},
         next.pc \notin {"add", "update", "remove", "copy", "write", "clear"},
         UNCHANGED <<records, memoryRows, ended, cards, cardRows>>, spent \subseteq spent',
         UNCHANGED <<kept, keptRows>>, Steady(U!Sections) /\ Steady({"memory", "cards"})
  PROVE  /\ Maps' /\ RecordsOK' /\ SavesOK' /\ (\A j \in Records : Fate(j)) /\ ended \subseteq ended'
         /\ editing'[h] = next /\ \A g \in Curators \ {h} : editing'[g] = editing[g]
<1>1. /\ editing' = [g \in Curators |-> editing'[g]]
      /\ editing'[h] = next /\ \A g \in Curators \ {h} : editing'[g] = editing[g]
  BY Turned DEF UserInv
<1>2. Same({"add", "update", "remove", "copy", "write", "clear"}) BY <1>1 DEF Same
<1> QED BY <1>1, <1>2, SoundStepsKeep

\* An upload writes a file of its own, and lists it when there is room.
LEMMA UploadKeeps ==
  ASSUME UserInv, NEW h \in Curators, NEW x, U!Upload(h, x)
  PROVE  UserInv' /\ (\A j \in Records : Fate(j)) /\ ended \subseteq ended'
<1> DEFINE next == [pc |-> "list", sound |-> x]
<1>1. /\ U!At(h, "idle") /\ U!SoundsFree /\ x \notin spent /\ U!Go(h, next)
      /\ spent' = spent \cup {x} /\ soundFiles' = soundFiles \cup {x}
      /\ UNCHANGED <<records, memoryRows, ended, cards, cardRows>>
      /\ UNCHANGED <<kept, keptRows, unsure>> /\ UNCHANGED <<sounds, soundRows, cut>>
      /\ Steady(U!Sections) /\ Steady({"memory", "cards"})
  BY DEF U!Upload, U!mem, U!named, Steady
<1>2. next.pc = "list" /\ next.sound = x OBVIOUS
<1> HIDE DEF next
<1>3. /\ Maps' /\ RecordsOK' /\ SavesOK' /\ (\A j \in Records : Fate(j)) /\ ended \subseteq ended'
      /\ editing'[h] = next /\ \A g \in Curators \ {h} : editing'[g] = editing[g]
  BY <1>1, <1>2, PlayTurns DEF U!At
<1>4. SoundsOK'
  <2>1. sounds' \cup soundRows' \subseteq spent' /\ U!SoundsPlayable'
        /\ ("sounds" \notin unsure' => soundRows' = sounds')
    BY <1>1 DEF UserInv, SoundsOK, U!SoundsPlayable
  <2>2. \A g \in Curators \ {h} : U!At(g, "list")' =>
          /\ editing'[g].sound \in ((soundFiles \cup cut) \cap spent) \ sounds /\ editing'[g].sound # x
          /\ \A k \in Curators \ {h, g} : U!At(k, "list")' => editing'[k].sound # editing'[g].sound
    BY <1>1, <1>3 DEF UserInv, SoundsOK, U!At
  <2>3. x \notin sounds BY <1>1 DEF UserInv, SoundsOK
  <2> QED BY <2>1, <2>2, <2>3, <1>1, <1>2, <1>3 DEF SoundsOK, U!At
<1> QED BY <1>3, <1>4 DEF UserInv

LEMMA AddSoundKeeps ==
  ASSUME UserInv, NEW h \in Curators, U!AddSound(h)
  PROVE  UserInv' /\ (\A j \in Records : Fate(j)) /\ ended \subseteq ended'
<1> DEFINE x == editing[h].sound
<1>1. /\ U!At(h, "list") /\ U!SoundsFree /\ U!Go(h, U!Idle) /\ UNCHANGED <<cut, spent>>
      /\ UNCHANGED <<records, memoryRows, ended, cards, cardRows>>
      /\ UNCHANGED <<kept, keptRows>>
      /\ \/ sounds' = sounds \cup {x} /\ U!SaveSounds /\ UNCHANGED soundFiles
         \/ soundFiles' = soundFiles \ {x} /\ UNCHANGED <<sounds, soundRows, unsure>>
  BY DEF U!AddSound, U!mem, U!named
<1>5. Steady(U!Sections) /\ Steady({"memory", "cards"})
  BY <1>1 DEF U!SaveSounds, U!Saved, U!Unsaved, Steady, U!Sections
<1>2. U!Idle.pc = "idle" BY DEF U!Idle
<1>3. /\ Maps' /\ RecordsOK' /\ SavesOK' /\ (\A j \in Records : Fate(j)) /\ ended \subseteq ended'
      /\ editing'[h] = U!Idle /\ \A g \in Curators \ {h} : editing'[g] = editing[g]
  BY <1>1, <1>2, <1>5, PlayTurns DEF U!At
<1>4. SoundsOK'
  <2>1. x \in ((soundFiles \cup cut) \cap spent) \ sounds /\ ("sounds" \notin unsure => soundRows = sounds)
    BY <1>1 DEF UserInv, SoundsOK
  <2>2. sounds' \cup soundRows' \subseteq spent' /\ U!SoundsPlayable'
        /\ ("sounds" \notin unsure' => soundRows' = sounds')
    BY <1>1, <2>1 DEF UserInv, SoundsOK, U!SoundsPlayable, U!SaveSounds, U!Saved, U!Unsaved
  <2>3. \A g \in Curators : U!At(g, "list")' => g # h /\ U!At(g, "list") /\ editing'[g] = editing[g]
    BY <1>2, <1>3 DEF U!At
  <2>4. \A g \in Curators \ {h} : U!At(g, "list") =>
          /\ editing[g].sound # x /\ editing[g].sound \in ((soundFiles \cup cut) \cap spent) \ sounds
          /\ \A k \in Curators \ {g} : U!At(k, "list") => editing[k].sound # editing[g].sound
    BY <1>1 DEF UserInv, SoundsOK
  <2>5. \A g \in Curators \ {h} : U!At(g, "list") =>
          editing[g].sound \in ((soundFiles' \cup cut') \cap spent') \ sounds'
    BY <2>4, <1>1
  <2> QED BY <2>2, <2>3, <2>4, <2>5 DEF SoundsOK
<1> QED BY <1>3, <1>4 DEF UserInv

\* A deletion takes a sound off the list with its file, and then saves the list.
LEMMA DeleteSoundKeeps ==
  ASSUME UserInv, NEW h \in Curators, NEW x, U!DeleteSound(h, x)
  PROVE  UserInv' /\ (\A j \in Records : Fate(j)) /\ ended \subseteq ended'
<1> DEFINE next == [pc |-> "unlisted"]
<1>1. /\ U!At(h, "idle") /\ x \in sounds /\ U!SoundsFree /\ U!Go(h, next)
      /\ sounds' = sounds \ {x} /\ soundFiles' = soundFiles \ {x}
      /\ UNCHANGED <<soundRows, cut, spent>>
      /\ UNCHANGED <<records, memoryRows, ended, cards, cardRows>>
      /\ UNCHANGED <<kept, keptRows, unsure>> /\ Steady(U!Sections) /\ Steady({"memory", "cards"})
  BY DEF U!DeleteSound, U!mem, U!named, Steady
<1>2. next.pc = "unlisted" OBVIOUS
<1> HIDE DEF next
<1>3. /\ Maps' /\ RecordsOK' /\ SavesOK' /\ (\A j \in Records : Fate(j)) /\ ended \subseteq ended'
      /\ editing'[h] = next /\ \A g \in Curators \ {h} : editing'[g] = editing[g]
  BY <1>1, <1>2, PlayTurns DEF U!At
<1>4. SoundsOK'
  <2>1. sounds' \cup soundRows' \subseteq spent' /\ U!SoundsPlayable'
    BY <1>1 DEF UserInv, SoundsOK, U!SoundsPlayable
  <2>2. ~U!SoundsFree' BY <1>2, <1>3 DEF U!SoundsFree, U!At
  <2>3. \A g \in Curators : U!At(g, "list")' => g # h /\ U!At(g, "list") /\ editing'[g] = editing[g]
    BY <1>2, <1>3 DEF U!At
  <2>4. \A g \in Curators \ {h} : U!At(g, "list") =>
          /\ editing[g].sound \in ((soundFiles' \cup cut') \cap spent') \ sounds'
          /\ \A k \in Curators \ {g} : U!At(k, "list") => editing[k].sound # editing[g].sound
    BY <1>1 DEF UserInv, SoundsOK
  <2> QED BY <2>1, <2>2, <2>3, <2>4 DEF SoundsOK
<1> QED BY <1>3, <1>4 DEF UserInv

\* The list is saved, or emptied with its table, or its files go.
LEMMA SoundSavesKeep ==
  ASSUME UserInv, NEW h \in Curators, U!PersistSounds(h) \/ U!ClearSounds(h) \/ U!ClearSoundFiles(h)
  PROVE  UserInv' /\ (\A j \in Records : Fate(j)) /\ ended \subseteq ended'
<1>1. PICK next : U!Go(h, next) /\ next.pc \in {"idle", "unlink"}
  <2>1. U!Idle.pc = "idle" /\ [pc |-> "unlink"].pc = "unlink" BY DEF U!Idle
  <2> QED BY <2>1 DEF U!PersistSounds, U!ClearSounds, U!ClearSoundFiles
<1>2. /\ editing[h].pc \in {"unlisted", "unlist", "unlink"} /\ UNCHANGED spent
      /\ UNCHANGED <<records, memoryRows, ended, cards, cardRows>>
      /\ UNCHANGED <<kept, keptRows>>
  BY DEF U!PersistSounds, U!ClearSounds, U!ClearSoundFiles, U!At, U!mem, U!named
<1>9. Steady(U!Sections) /\ Steady({"memory", "cards"})
  BY DEF U!PersistSounds, U!ClearSounds, U!ClearSoundFiles, U!SaveSounds, U!Saved, U!Unsaved, Steady,
         U!Sections
<1>3. /\ Maps' /\ RecordsOK' /\ SavesOK' /\ (\A j \in Records : Fate(j)) /\ ended \subseteq ended'
      /\ editing'[h] = next /\ \A g \in Curators \ {h} : editing'[g] = editing[g]
  BY <1>1, <1>2, <1>9, PlayTurns
<1>4. \A g \in Curators : U!At(g, "list") <=> U!At(g, "list")' BY <1>1, <1>2, <1>3 DEF U!At
<1>5. \A g \in Curators : U!At(g, "list") => editing'[g] = editing[g] BY <1>2, <1>3 DEF U!At
<1>6. \A g \in Curators : U!At(g, "list") =>
        /\ editing[g].sound \in ((soundFiles \cup cut) \cap spent) \ sounds
        /\ \A k \in Curators \ {g} : U!At(k, "list") => editing[k].sound # editing[g].sound
  BY DEF UserInv, SoundsOK
<1>7. /\ sounds' \cup soundRows' \subseteq spent' /\ U!SoundsPlayable' /\ sounds' \subseteq sounds
      /\ U!SoundsFree' /\ "sounds" \notin unsure' => soundRows' = sounds'
      /\ \A g \in Curators : U!At(g, "list") => editing[g].sound \in soundFiles' \cup cut'
  <2>1. CASE U!PersistSounds(h)
    BY <2>1, <1>6 DEF U!PersistSounds, U!SaveSounds, U!Saved, U!Unsaved, UserInv, SoundsOK, U!SoundsPlayable
  <2>2. CASE U!ClearSounds(h)
    BY <2>2, <1>6 DEF U!ClearSounds, U!SaveSounds, U!Saved, U!Unsaved, UserInv, SoundsOK, U!SoundsPlayable
  <2>3. CASE U!ClearSoundFiles(h)
    <3>1. U!SoundsFree' => U!SoundsFree BY <2>3, <1>3 DEF U!ClearSoundFiles, U!SoundsFree, U!At
    <3> QED BY <2>3, <3>1, <1>6 DEF U!ClearSoundFiles, UserInv, SoundsOK, U!SoundsPlayable
  <2> QED BY <2>1, <2>2, <2>3
<1>8. SoundsOK' BY <1>2, <1>4, <1>5, <1>6, <1>7 DEF SoundsOK
<1> QED BY <1>3, <1>8 DEF UserInv

-----------------------------------------------------------------------------
\* What a step does to the records, and a start after a save that failed.
Fated(j) ==
  \/ Fate(j) /\ ended \subseteq ended'
  \/ "memory" \in unsure /\ records'[j] = memoryRows[j]

\* A restart takes what the tables have, or starts a section empty.
LEMMA UserRestartKeeps ==
  ASSUME UserInv, U!Restart
  PROVE  UserInv' /\ \A j \in Records : Fated(j)
<1>1. \A h \in Curators : editing'[h] = U!Idle /\ editing'[h].pc = "idle" BY DEF U!Restart, U!Idle
<1>2. PICK unread \in SUBSET (U!Sections \cup U!Others) :
        /\ records' = IF "memory" \in unread THEN [i \in Records |-> U!Absent] ELSE memoryRows
        /\ cards' = IF "cards" \in unread THEN 0 ELSE cardRows
        /\ kept' = [s \in U!Sections |-> IF s \in unread THEN {} ELSE keptRows[s]]
        /\ sounds' = IF "sounds" \in unread THEN {} ELSE soundRows
        /\ ended' = IF "memory" \in unsure THEN ended \ U!Present(records)' ELSE ended
        /\ cut' = cut \cup (soundRows \ sounds) /\ unsure' = unread
        /\ UNCHANGED <<memoryRows, cardRows, keptRows, soundRows, soundFiles, spent>>
  BY DEF U!Restart, U!Present
<1>9. \A j \in Records :
        \/ "memory" \in unread /\ records'[j] = U!Absent
        \/ "memory" \notin unread /\ records'[j] = memoryRows[j]
  BY <1>2
<1>3. Maps'
  <2>1. editing' = [h \in Curators |-> editing'[h]] BY DEF U!Restart
  <2>2. records' = [j \in Records |-> records'[j]] BY <1>2 DEF UserInv, RecordsOK
  <2>3. kept' = [s \in U!Sections |-> kept'[s]] BY <1>2
  <2>4. keptRows' = [s \in U!Sections |-> keptRows'[s]] BY <1>2 DEF UserInv, Maps
  <2> QED BY <1>1, <2>1, <2>2, <2>3, <2>4 DEF Maps, U!Sections
<1>4. RecordsOK'
  <2>1. ("memory" \notin unsure' => memoryRows' = records') /\ ("cards" \notin unsure' => cardRows' = cards')
    BY <1>2
  <2>2. memoryRows' = [j \in Records |-> memoryRows'[j]] BY <1>2 DEF UserInv, RecordsOK
  <2>3. U!Present(records)' \subseteq U!Present(memoryRows) BY <1>9 DEF U!Present
  <2>4. (U!Present(records) \cup U!Present(memoryRows) \cup ended)' \subseteq spent'
    BY <1>2, <2>3 DEF UserInv, RecordsOK, U!Present
  <2>5. U!Present(records)' \cap ended' = {}
    <3>1. CASE "memory" \in unsure BY <3>1, <1>2
    <3>2. CASE "memory" \notin unsure BY <3>2, <1>2, <2>3 DEF UserInv, RecordsOK
    <3> QED BY <3>1, <3>2
  <2>6. \A j \in Records : memoryRows'[j] = U!Absent \/ memoryRows'[j].version \in Nat \ {0}
    BY <1>2 DEF UserInv, RecordsOK
  <2>7. \A j \in Records : records'[j] = U!Absent \/ records'[j].version \in Nat \ {0}
    BY <1>2, <1>9, <2>6
  <2>8. \A h \in Curators : Adds(h)' /\ Edits(h)' BY <1>1 DEF Adds, Edits, U!At
  <2> QED BY <2>1, <2>2, <2>4, <2>5, <2>6, <2>7, <2>8 DEF RecordsOK
<1>5. SavesOK' BY <1>1, <1>2 DEF SavesOK, SavingOK, U!At
<1>6. SoundsOK'
  <2>1. sounds' \cup soundRows' \subseteq spent' /\ U!SoundsPlayable'
    BY <1>2 DEF UserInv, SoundsOK, U!SoundsPlayable
  <2>2. "sounds" \notin unsure' => soundRows' = sounds' BY <1>2
  <2> QED BY <1>1, <2>1, <2>2 DEF SoundsOK, U!At
<1>7. ASSUME NEW j \in Records PROVE Fated(j)
  <2>1. CASE "memory" \notin unread /\ "memory" \in unsure BY <2>1, <1>9 DEF Fated
  <2>2. CASE "memory" \notin unread /\ "memory" \notin unsure
    BY <2>2, <1>2, <1>9 DEF Fated, Fate, UserInv, RecordsOK
  <2>3. CASE "memory" \in unread
    <3>1. records'[j] = U!Absent /\ U!Present(records)' = {} BY <2>3, <1>9 DEF U!Present
    <3>2. ended' = ended BY <3>1, <1>2
    <3> QED BY <3>1, <3>2 DEF Fated, Fate
  <2> QED BY <2>1, <2>2, <2>3
<1> QED BY <1>3, <1>4, <1>5, <1>6, <1>7 DEF UserInv

LEMMA QuietStepsKeep ==
  ASSUME UserInv, UNCHANGED <<records, memoryRows, cards, cardRows, kept, keptRows, sounds, soundRows,
                              soundFiles, editing, spent, ended, unsure, cut>>
  PROVE  UserInv' /\ (\A j \in Records : Fate(j)) /\ ended \subseteq ended'
<1>1. /\ Same({"add", "update", "remove"}) /\ Same({"copy", "write"}) /\ Same({"list", "unlisted"})
      /\ Steady({"memory", "cards"}) /\ Steady(U!Sections) /\ Steady({"sounds"})
  BY DEF Same, Steady
<1>2. RecordsOK' BY <1>1, SameRecords DEF UserInv
<1>3. SavesOK' BY <1>1, SameSaves DEF UserInv
<1>4. SoundsOK' BY <1>1, SameSounds DEF UserInv
<1>5. Maps' BY DEF UserInv, Maps, U!Sections
<1>6. \A j \in Records : Fate(j) BY DEF Fate
<1> QED BY <1>2, <1>3, <1>4, <1>5, <1>6 DEF UserInv

LEMMA UserInit == U!Init => UserInv
<1> SUFFICES ASSUME U!Init PROVE UserInv OBVIOUS
<1>1. \A h \in Curators : editing[h] = U!Idle /\ editing[h].pc = "idle" BY DEF U!Init, U!Idle
<1>2. Maps BY <1>1 DEF U!Init, Maps
<1>3. RecordsOK
  <2>1. \A i \in Records : records[i] = U!Absent BY DEF U!Init
  <2> QED BY <1>1, <2>1 DEF U!Init, RecordsOK, Adds, Edits, U!At, U!Present
<1>4. SavesOK BY <1>1 DEF U!Init, SavesOK, SavingOK, U!At
<1>5. SoundsOK BY <1>1 DEF U!Init, SoundsOK, U!SoundsPlayable, U!At
<1> QED BY <1>2, <1>3, <1>4, <1>5 DEF UserInv

LEMMA UserStepKeeps ==
  UserInv /\ [U!Next]_(U!vars) => UserInv' /\ \A j \in Records : Fated(j)
<1> SUFFICES ASSUME UserInv, [U!Next]_(U!vars) PROVE UserInv' /\ \A j \in Records : Fated(j)
  OBVIOUS
<1>1. ASSUME NEW h \in Curators, U!Curate(h)
      PROVE  UserInv' /\ (\A j \in Records : Fate(j)) /\ ended \subseteq ended'
  <2>1. ASSUME NEW i \in Records, NEW n,
               U!AskAdd(h, i, n) \/ \E verb \in {"update", "remove"} : U!AskChange(h, i, verb, n)
        PROVE  UserInv' /\ (\A j \in Records : Fate(j)) /\ ended \subseteq ended'
    <3>1. UNCHANGED <<records, ended>> BY <2>1 DEF U!AskAdd, U!AskChange, U!mem
    <3>2. \A j \in Records : Fate(j) BY <3>1 DEF Fate
    <3> QED BY <2>1, <3>1, <3>2, AskKeeps
  <2>2. CASE \/ U!AddMemory(h) \/ U!UpdateMemory(h) \/ U!RemoveMemory(h) \/ U!CleanMemory(h) \/ U!SubmitCard(h)
    BY <2>2, CurateKeeps
  <2> QED BY <1>1, <2>1, <2>2 DEF U!Curate
<1>2. ASSUME NEW h \in Curators, U!Save(h)
      PROVE  UserInv' /\ (\A j \in Records : Fate(j)) /\ ended \subseteq ended'
  <2>1. CASE \E ns \in SUBSET Names : U!ChangeFleet(h, ns) \/ U!ChangePrompt(h, ns)
    BY <2>1, NamesKeep
  <2>2. CASE U!Copy(h) \/ U!Write(h)
    <3>1. ended' = ended BY <2>2 DEF U!Copy, U!Write, U!mem
    <3> QED BY <2>2, <3>1, NamesSavedKeep
  <2> QED BY <1>2, <2>1, <2>2 DEF U!Save
<1>3. ASSUME NEW h \in Curators, U!Clear(h)
      PROVE  UserInv' /\ (\A j \in Records : Fate(j)) /\ ended \subseteq ended'
  BY <1>3, CurateKeeps, ClearSectionKeeps, SoundSavesKeep DEF U!Clear
<1>4. ASSUME NEW h \in Curators, U!Play(h)
      PROVE  UserInv' /\ (\A j \in Records : Fate(j)) /\ ended \subseteq ended'
  BY <1>4, UploadKeeps, AddSoundKeeps, DeleteSoundKeeps, SoundSavesKeep DEF U!Play
<1>5. CASE U!Restart BY <1>5, UserRestartKeeps
<1>6. CASE (\E v \in BOOLEAN : U!PutSettings(v)) \/ UNCHANGED U!vars
  <2>1. UNCHANGED <<records, memoryRows, cards, cardRows, kept, keptRows, sounds, soundRows,
                    soundFiles, editing, spent, ended, unsure, cut>>
    BY <1>6 DEF U!PutSettings, U!vars, U!mem, U!named, U!audio
  <2> QED BY <2>1, QuietStepsKeep DEF Fated
<1> QED BY <1>1, <1>2, <1>3, <1>4, <1>5, <1>6 DEF U!Next, Fated

LEMMA UserInvariant == U!Spec => []UserInv
<1>1. UserInv /\ [U!Next]_(U!vars) => UserInv' BY UserStepKeeps
<1> QED BY UserInit, <1>1, PTL DEF U!Spec

LEMMA SoundsArePlayable == U!Spec => []U!SoundsPlayable
<1>1. UserInv => U!SoundsPlayable BY DEF UserInv, SoundsOK
<1> QED BY UserInvariant, <1>1, PTL

LEMMA TablesFollow == U!Spec => []U!SavedWhenQuiet
<1>1. ASSUME UserInv PROVE U!SavedWhenQuiet
  <2> SUFFICES ASSUME \A h \in Curators : U!At(h, "idle")
               PROVE  /\ "memory" \notin unsure => memoryRows = records
                      /\ "cards" \notin unsure => cardRows = cards
                      /\ "sounds" \notin unsure => soundRows = sounds
                      /\ \A s \in U!Sections \ unsure : keptRows[s] = kept[s]
    BY DEF U!SavedWhenQuiet
  <2>1. U!SoundsFree /\ \A s : U!Saving(s) = {} BY DEF U!SoundsFree, U!Saving, U!At
  <2> QED BY <1>1, <2>1 DEF UserInv, RecordsOK, SavesOK, SoundsOK
<1>2. UserInv => U!SavedWhenQuiet BY <1>1
<1> QED BY UserInvariant, <1>2, PTL

LEMMA CuratorsKept == U!Spec => U!CurationKept
<1> DEFINE Curation(i) ==
       \/ /\ records'[i] \notin {records[i], U!Absent} /\ records[i] # U!Absent =>
                 \E h \in Curators : U!At(h, "update") /\ editing[h].id = i /\ editing[h].read = records[i]
          /\ i \in ended => records'[i] = U!Absent
       \/ "memory" \in unsure /\ records'[i] = memoryRows[i]
<1>1. ASSUME UserInv, [U!Next]_(U!vars), NEW i \in Records PROVE Curation(i)
  <2> SUFFICES ASSUME ~("memory" \in unsure /\ records'[i] = memoryRows[i]) PROVE Curation(i)
    OBVIOUS
  <2>1. UserInv' /\ Fate(i) /\ ended \subseteq ended' BY <1>1, UserStepKeeps DEF Fated
  <2>2. i \in ended => records'[i] = U!Absent BY <2>1 DEF UserInv, RecordsOK, U!Present
  <2>3. ASSUME records'[i] \notin {records[i], U!Absent}, records[i] # U!Absent
        PROVE \E h \in Curators : U!At(h, "update") /\ editing[h].id = i /\ editing[h].read = records[i]
    <3>1. ASSUME NEW h \in Curators, editing[h].id = i, U!At(h, "add") PROVE FALSE
      BY <1>1, <2>3, <3>1 DEF UserInv, RecordsOK, Adds, U!Present
    <3> QED BY <2>1, <2>3, <3>1 DEF Fate
  <2> QED BY <2>2, <2>3
<1>2. UserInv /\ [U!Next]_(U!vars) => [\A i \in Records : Curation(i)]_(U!vars) BY <1>1
<1> QED BY UserInvariant, <1>2, PTL DEF U!Spec, U!CurationKept

-----------------------------------------------------------------------------
\* Requests that a wait counter stands for, and sockets that are open.
Waiters(s) == {r \in Requests : telling[r].pc \in {"enter", "waiting", "leave"} /\ telling[r].scope = s}
Sockets == {r \in Requests : telling[r].pc \in {"hello", "socket"}}

Served ==
  /\ telling = [r \in Requests |-> telling[r]]
  /\ openWaits = [s \in Scopes |-> openWaits[s]] /\ shown = [s \in Scopes |-> shown[s]]
  /\ \A r \in Requests :
       /\ telling[r].pc \in {"open", "enter", "waiting", "leave", "left", "tell", "view"} =>
            telling[r].scope \in Scopes
       /\ telling[r].pc \in {"open", "enter", "waiting", "leave"} =>
            telling[r] = [pc |-> telling[r].pc, scope |-> telling[r].scope]
Counted ==
  /\ \A s \in Scopes : openWaits[s] = Cardinality(Waiters(s))
  /\ openWS = Cardinality(Sockets)

\* A broadcast that is not late says what is so.
Truthful(r, s) ==
  /\ P!At(r, "enter") => openWaits[s] > 0
  /\ P!At(r, "left") => ~(openWaits[s] > 0)
  /\ P!At(r, "tell") => (telling[r].waiting <=> openWaits[s] > 0)
  /\ P!At(r, "view") => telling[r].wide \/ (telling[r].waiting <=> openWaits[s] > 0)
Timely ==
  /\ late \subseteq {r \in Requests : telling[r].pc \in {"enter", "left", "tell", "view"}}
  /\ \A r \in Requests \ late : \A s \in Scopes : P!Telling(r, s) => Truthful(r, s)

ShownInv == Served /\ Counted /\ Timely /\ P!ListeningShown

\* What is known of the agent, and that who is about to wait was just seen.
Facts ==
  /\ age \in P!Ages /\ {known, prompt, swept, stirred} \subseteq BOOLEAN
  /\ told \in {"here", "gone"} /\ pending # "offline"
  /\ ~known => state = ""
  /\ known /\ (\E r \in Requests : P!At(r, "open")) => age = P!Fresh

\* What a sweep found holds until it acts, if the agent has not been seen since.
Looked ==
  sweep.pc = "look" /\ ~sweep.active /\ known /\ age >= P!Offline =>
    (\A s \in Scopes : openWaits[s] = 0) /\ \A r \in Sockets : P!At(r, "hello")

\* With sweeps more frequent than the stale window no agent ages from offline to
\* stale, and whatever brings it back is a sign of life.
Alternating ==
  prompt =>
    /\ told = "gone" => state = "offline"
    /\ state = "offline" => age # P!Stale /\ (age = P!Fresh => ~swept /\ stirred)
    /\ state = "offline" /\ (P!Active \/ (sweep.pc = "look" /\ sweep.active)) => stirred

AlertInv == Facts /\ Looked /\ Alternating

PresInv == ShownInv /\ AlertInv
RequestsFinite == IsFiniteSet(Requests)

-----------------------------------------------------------------------------
(* Counters. *)

\* One request more, or one less, is counted as one.
LEMMA OneMore ==
  ASSUME NEW A, IsFiniteSet(A), NEW r
  PROVE  /\ Cardinality(A) \in Nat /\ (Cardinality(A) = 0 <=> A = {})
         /\ r \notin A => Cardinality(A \cup {r}) = Cardinality(A) + 1
         /\ r \in A => Cardinality(A \ {r}) = Cardinality(A) - 1 /\ Cardinality(A) > 0
<1>1. Cardinality(A) \in Nat /\ (Cardinality(A) = 0 <=> A = {})
  BY FS_CardinalityType, FS_EmptySet
<1>2. r \notin A => Cardinality(A \cup {r}) = Cardinality(A) + 1 BY FS_AddElement
<1>3. r \in A => Cardinality(A \ {r}) = Cardinality(A) - 1 BY FS_RemoveElement
<1>4. r \in A => Cardinality(A) > 0 BY <1>1
<1> QED BY <1>1, <1>2, <1>3, <1>4

LEMMA Finite ==
  ASSUME RequestsFinite
  PROVE  IsFiniteSet(Sockets) /\ \A s : IsFiniteSet(Waiters(s))
BY FS_Subset DEF RequestsFinite, Sockets, Waiters

\* The counters are numbers, and a request they stand for shows in them.
LEMMA CountsShow ==
  ASSUME RequestsFinite, Counted
  PROVE  /\ openWS \in Nat /\ (openWS = 0 <=> Sockets = {})
         /\ \A s \in Scopes : openWaits[s] \in Nat /\ (openWaits[s] = 0 <=> Waiters(s) = {})
<1>1. openWS \in Nat /\ (openWS = 0 <=> Sockets = {}) BY Finite, OneMore DEF Counted
<1>2. ASSUME NEW s \in Scopes PROVE openWaits[s] \in Nat /\ (openWaits[s] = 0 <=> Waiters(s) = {})
  BY Finite, OneMore DEF Counted
<1> QED BY <1>1, <1>2

LEMMA Handled ==
  ASSUME Served, NEW r \in Requests, NEW next, P!Go(r, next)
  PROVE  /\ telling' = [q \in Requests |-> telling'[q]]
         /\ telling'[r] = next /\ \A q \in Requests \ {r} : telling'[q] = telling[q]
BY DEF Served, P!Go

\* What a request does next keeps the shape of the state, if its scope is one.
LEMMA ServedKeeps ==
  ASSUME Served, NEW r \in Requests, NEW next, P!Go(r, next),
         next.pc \in {"open", "enter", "waiting", "leave", "left", "tell", "view"} => next.scope \in Scopes,
         next.pc \in {"open", "enter", "waiting", "leave"} => next = [pc |-> next.pc, scope |-> next.scope],
         openWaits' = [s \in Scopes |-> openWaits'[s]], shown' = [s \in Scopes |-> shown'[s]]
  PROVE  Served'
BY Handled DEF Served

\* Counters that nobody leaves or joins.
LEMMA CountedKeeps ==
  ASSUME ShownInv, NEW r \in Requests, NEW next, P!Go(r, next), UNCHANGED <<openWaits, openWS>>,
         next.pc \in {"hello", "socket"} <=> telling[r].pc \in {"hello", "socket"},
         next.pc \in {"enter", "waiting", "leave"} <=> telling[r].pc \in {"enter", "waiting", "leave"},
         next.pc \in {"enter", "waiting", "leave"} => next.scope = telling[r].scope
  PROVE  Counted'
<1>1. telling'[r] = next /\ \A q \in Requests \ {r} : telling'[q] = telling[q]
  BY Handled DEF ShownInv
<1>2. Sockets' = Sockets BY <1>1 DEF Sockets
<1>3. \A s : Waiters(s)' = Waiters(s) BY <1>1 DEF Waiters
<1> QED BY <1>2, <1>3 DEF ShownInv, Counted

-----------------------------------------------------------------------------
(* What the interface shows. *)

\* Steps of the sweep, of time and of the registry.
LEMMA ElsewhereShows ==
  ASSUME ShownInv, UNCHANGED <<telling, openWaits, openWS, shown, late, crossed, wide>>
  PROVE  ShownInv'
<1>1. Served' BY DEF ShownInv, Served
<1>2. Counted' BY DEF ShownInv, Counted, Waiters, Sockets
<1>3. Timely' BY DEF ShownInv, Timely, Truthful, P!Telling, P!At
<1>4. P!ListeningShown' BY DEF ShownInv, P!ListeningShown, P!Told, P!Telling
<1> QED BY <1>1, <1>2, <1>3, <1>4 DEF ShownInv

\* A request that goes on without a broadcast to send, before or after.
LEMMA QuietTurnShows ==
  ASSUME ShownInv, NEW r \in Requests, NEW next, P!Go(r, next),
         UNCHANGED <<openWaits, shown, late, crossed, wide>>, Counted',
         telling[r].pc \notin {"enter", "left", "tell", "view"},
         next.pc \notin {"enter", "left", "tell", "view"},
         next.pc \in {"open", "waiting", "leave"} =>
           next.scope \in Scopes /\ next = [pc |-> next.pc, scope |-> next.scope]
  PROVE  ShownInv'
<1>1. telling'[r] = next /\ \A q \in Requests \ {r} : telling'[q] = telling[q]
  BY Handled DEF ShownInv
<1>2. Served'
  <2>1. openWaits' = [s \in Scopes |-> openWaits'[s]] /\ shown' = [s \in Scopes |-> shown'[s]]
    BY DEF ShownInv, Served
  <2> QED BY <2>1, ServedKeeps DEF ShownInv
<1>3. \A q \in Requests, s \in Scopes : P!Telling(q, s)' <=> P!Telling(q, s)
  BY <1>1 DEF P!Telling
<1>4. \A q \in Requests, s \in Scopes : P!Telling(q, s) => telling'[q] = telling[q]
  BY <1>1 DEF P!Telling
<1>5. Timely'
  <2>1. r \notin late /\ late' = late BY DEF ShownInv, Timely
  <2>2. late' \subseteq {q \in Requests : telling'[q].pc \in {"enter", "left", "tell", "view"}}
    BY <2>1, <1>1 DEF ShownInv, Timely
  <2>3. \A q \in Requests \ late : \A s \in Scopes : P!Telling(q, s)' => Truthful(q, s)'
    BY <1>3, <1>4 DEF ShownInv, Timely, Truthful, P!At
  <2> QED BY <2>1, <2>2, <2>3 DEF Timely
<1>6. P!ListeningShown' BY <1>3 DEF ShownInv, P!ListeningShown, P!Told
<1> QED BY <1>2, <1>5, <1>6 DEF ShownInv

\* A broadcast that is decided now is true now.
LEMMA BeginShows ==
  ASSUME ShownInv, NEW r \in Requests, NEW next, P!Go(r, next),
         UNCHANGED <<openWaits, openWS, shown, late, crossed, wide>>,
         telling[r].pc = "idle", next.pc \in {"tell", "view"}, next.scope \in Scopes,
         next.pc = "tell" => (next.waiting <=> openWaits[next.scope] > 0),
         next.pc = "view" => next.wide \/ (next.waiting <=> openWaits[next.scope] > 0)
  PROVE  ShownInv'
<1>1. telling'[r] = next /\ \A q \in Requests \ {r} : telling'[q] = telling[q]
  BY Handled DEF ShownInv
<1>2. Served'
  <2>1. openWaits' = [s \in Scopes |-> openWaits'[s]] /\ shown' = [s \in Scopes |-> shown'[s]]
    BY DEF ShownInv, Served
  <2> QED BY <2>1, ServedKeeps DEF ShownInv
<1>3. Counted' BY CountedKeeps
<1>4. Timely'
  <2>1. r \notin late /\ late' = late BY DEF ShownInv, Timely
  <2>2. late' \subseteq {q \in Requests : telling'[q].pc \in {"enter", "left", "tell", "view"}}
    BY <2>1, <1>1 DEF ShownInv, Timely
  <2>3. \A q \in Requests \ (late \cup {r}) : \A s \in Scopes : P!Telling(q, s)' => Truthful(q, s)'
    BY <1>1 DEF ShownInv, Timely, Truthful, P!At, P!Telling
  <2>4. \A s \in Scopes : P!Telling(r, s)' => Truthful(r, s)' BY <1>1 DEF Truthful, P!At, P!Telling
  <2> QED BY <2>1, <2>2, <2>3, <2>4 DEF Timely
<1>5. P!ListeningShown'
  <2> SUFFICES ASSUME NEW s \in Scopes \ wide, P!Told(s)' PROVE shown[s] <=> openWaits[s] > 0
    BY DEF P!ListeningShown
  <2>1. P!Told(s) BY <1>1 DEF P!Told, P!Telling
  <2> QED BY <2>1 DEF ShownInv, P!ListeningShown
<1> QED BY <1>2, <1>3, <1>4, <1>5 DEF ShownInv

\* A broadcast sets its scope to what it says, and whoever is late is remembered.
LEMMA SentShows ==
  ASSUME NEW r \in Requests, NEW next, NEW waiting, ShownInv, P!Go(r, next),
         telling[r].pc \in {"enter", "left", "tell", "view"},
         \/ next.pc = "idle" /\ telling[r].pc # "enter"
         \/ next = [pc |-> "waiting", scope |-> telling[r].scope] /\ telling[r].pc = "enter",
         P!Show(r, waiting),
         telling[r].pc = "enter" => waiting = TRUE,
         telling[r].pc = "left" => waiting = FALSE,
         telling[r].pc \in {"tell", "view"} => waiting = telling[r].waiting,
         wide' = wide \ {telling[r].scope} \/ wide' = wide \cup {telling[r].scope},
         telling[r].pc = "view" /\ telling[r].wide => wide' = wide \cup {telling[r].scope}
  PROVE  ShownInv'
<1> DEFINE s0 == telling[r].scope
<1>0. /\ shown' = [shown EXCEPT ![s0] = waiting] /\ late' = late \ {r}
      /\ crossed' = IF r \in late THEN crossed \cup {s0} ELSE crossed \ {s0}
      /\ UNCHANGED <<openWaits, openWS>>
      /\ s0 \in Scopes
  BY DEF P!Show, P!open, ShownInv, Served
<1>1. telling'[r] = next /\ \A q \in Requests \ {r} : telling'[q] = telling[q]
  BY Handled DEF ShownInv
<1>2. Served'
  <2>1. openWaits' = [s \in Scopes |-> openWaits'[s]] /\ shown' = [s \in Scopes |-> shown'[s]]
    BY <1>0 DEF ShownInv, Served
  <2>2. next.pc \in {"open", "enter", "waiting", "leave", "left", "tell", "view"} => next.scope \in Scopes
    BY <1>0
  <2>3. next.pc \in {"open", "enter", "waiting", "leave"} => next = [pc |-> next.pc, scope |-> next.scope]
    OBVIOUS
  <2> QED BY <2>1, <2>2, <2>3, ServedKeeps DEF ShownInv
<1>3. Counted' BY <1>0, CountedKeeps
<1>4. next.pc \notin {"enter", "left", "tell", "view"} OBVIOUS
<1>5. Timely'
  <2>1. late' \subseteq {q \in Requests : telling'[q].pc \in {"enter", "left", "tell", "view"}}
    BY <1>0, <1>1 DEF ShownInv, Timely
  <2>2. \A q \in Requests \ (late \cup {r}) : \A s \in Scopes : P!Telling(q, s)' => Truthful(q, s)'
    BY <1>0, <1>1 DEF ShownInv, Timely, Truthful, P!At, P!Telling
  <2>3. \A s : ~P!Telling(r, s)' BY <1>1, <1>4 DEF P!Telling
  <2> QED BY <1>0, <2>1, <2>2, <2>3 DEF Timely
<1>6. P!ListeningShown'
  <2> SUFFICES ASSUME NEW s \in Scopes \ wide', P!Told(s)' PROVE shown'[s] <=> openWaits'[s] > 0
    BY DEF P!ListeningShown
  <2>1. CASE s # s0
    <3>1. P!Told(s) BY <2>1, <1>0, <1>1 DEF P!Told, P!Telling
    <3>2. s \notin wide /\ shown'[s] = shown[s] BY <2>1, <1>0 DEF ShownInv, Served
    <3> QED BY <3>1, <3>2, <1>0 DEF ShownInv, P!ListeningShown
  <2>2. CASE s = s0
    <3>1. r \notin late BY <2>2, <1>0 DEF P!Told
    <3>2. P!Telling(r, s) BY <2>2 DEF P!Telling
    <3>3. Truthful(r, s) BY <3>1, <3>2 DEF ShownInv, Timely
    <3>4. shown'[s] = waiting BY <2>2, <1>0 DEF ShownInv, Served
    <3>5. ~(telling[r].pc = "view" /\ telling[r].wide) BY <2>2
    <3>6. waiting <=> openWaits[s] > 0 BY <3>3, <3>5 DEF Truthful, P!At
    <3> QED BY <3>4, <3>6, <1>0
  <2> QED BY <2>1, <2>2
<1> QED BY <1>2, <1>3, <1>5, <1>6 DEF ShownInv

\* A wait begins or ends: the broadcasts that were decided are late now.
LEMMA CountShows ==
  ASSUME RequestsFinite, ShownInv, NEW r \in Requests, NEW next, NEW n \in {1, -1}, P!Go(r, next),
         P!Count(telling[r].scope, n), UNCHANGED <<openWS, shown, crossed, wide>>,
         \/ /\ n = 1 /\ telling[r].pc = "open" /\ next = [pc |-> "enter", scope |-> telling[r].scope]
         \/ /\ n = -1 /\ telling[r].pc = "leave"
            /\ \/ openWaits[telling[r].scope] = 1 /\ next = [pc |-> "left", scope |-> telling[r].scope]
               \/ openWaits[telling[r].scope] # 1 /\ next.pc = "idle"
  PROVE  ShownInv'
<1>s. PICK s0 \in Scopes : s0 = telling[r].scope BY DEF ShownInv, Served
<1>0. /\ openWaits' = [openWaits EXCEPT ![s0] = @ + n]
      /\ late' = late \cup {q \in Requests : P!Telling(q, s0) \/ P!At(q, "view")}
  BY <1>s DEF P!Count
<1>1. telling'[r] = next /\ \A q \in Requests \ {r} : telling'[q] = telling[q]
  BY Handled DEF ShownInv
<1>2. /\ \A s \in Scopes : openWaits'[s] = IF s = s0 THEN openWaits[s] + n ELSE openWaits[s]
      /\ \A s \in Scopes : openWaits[s] \in Nat
  BY <1>0, CountsShow DEF ShownInv, Served
<1>3. Served'
  <2>1. openWaits' = [s \in Scopes |-> openWaits'[s]] /\ shown' = [s \in Scopes |-> shown'[s]]
    BY <1>0 DEF ShownInv, Served
  <2>2. next.pc \in {"open", "enter", "waiting", "leave", "left", "tell", "view"} => next.scope \in Scopes
    BY <1>s
  <2>3. next.pc \in {"open", "enter", "waiting", "leave"} => next = [pc |-> next.pc, scope |-> next.scope]
    OBVIOUS
  <2> QED BY <2>1, <2>2, <2>3, ServedKeeps DEF ShownInv
<1>4. Counted' /\ (n = -1 => openWaits[s0] > 0)
  <2>1. Sockets' = Sockets BY <1>1 DEF Sockets
  <2>2. \A s \in Scopes \ {s0} : Waiters(s)' = Waiters(s) BY <1>1, <1>s DEF Waiters
  <2>3. CASE n = 1
    <3>1. telling[r].pc = "open" /\ next.pc = "enter" /\ next.scope = s0 BY <2>3, <1>s
    <3>2. Waiters(s0)' = Waiters(s0) \cup {r} /\ r \notin Waiters(s0) BY <3>1, <1>1, <1>s DEF Waiters
    <3>3. Cardinality(Waiters(s0)') = Cardinality(Waiters(s0)) + 1 BY <3>2, Finite, OneMore
    <3>4. openWaits'[s0] = Cardinality(Waiters(s0)') BY <2>3, <3>3, <1>0, <1>2 DEF ShownInv, Counted
    <3>5. Counted' BY <2>1, <2>2, <3>4, <1>2 DEF ShownInv, Counted
    <3> QED BY <2>3, <3>5
  <2>4. CASE n = -1
    <3>1. telling[r].pc = "leave" /\ next.pc \in {"left", "idle"} BY <2>4
    <3>2. Waiters(s0)' = Waiters(s0) \ {r} /\ r \in Waiters(s0) BY <3>1, <1>1, <1>s DEF Waiters
    <3>3. Cardinality(Waiters(s0)') = Cardinality(Waiters(s0)) - 1 /\ Cardinality(Waiters(s0)) > 0
      BY <3>2, Finite, OneMore
    <3>4. openWaits'[s0] = Cardinality(Waiters(s0)') /\ openWaits[s0] > 0
      BY <2>4, <3>3, <1>0, <1>2 DEF ShownInv, Counted
    <3>5. Counted' BY <2>1, <2>2, <3>4, <1>2 DEF ShownInv, Counted
    <3> QED BY <3>4, <3>5
  <2> QED BY <2>3, <2>4
<1>5. Timely'
  <2>1. r \notin late /\ ~P!At(r, "view") /\ ~P!Telling(r, s0) BY DEF ShownInv, Timely, P!At, P!Telling
  <2>2. r \notin late' BY <2>1, <1>0
  <2>3. late' \subseteq {q \in Requests : telling'[q].pc \in {"enter", "left", "tell", "view"}}
    BY <2>1, <2>2, <1>0, <1>1 DEF ShownInv, Timely, P!Telling, P!At
  <2>4. ASSUME NEW q \in Requests \ (late' \cup {r}), NEW s \in Scopes, P!Telling(q, s)'
        PROVE  Truthful(q, s)'
    <3>1. telling'[q] = telling[q] /\ P!Telling(q, s) BY <2>4, <1>1 DEF P!Telling
    <3>2. q \notin late /\ s # s0 /\ ~P!At(q, "view") BY <3>1, <1>0
    <3>3. Truthful(q, s) BY <3>1, <3>2 DEF ShownInv, Timely
    <3>4. openWaits'[s] = openWaits[s] BY <3>2, <1>2
    <3> QED BY <3>1, <3>3, <3>4 DEF Truthful, P!At
  <2>5. ASSUME NEW s \in Scopes, P!Telling(r, s)' PROVE Truthful(r, s)'
    <3>1. s = s0 /\ next.scope = s0 BY <2>5, <1>1, <1>s DEF P!Telling
    <3>2. openWaits'[s] = openWaits[s0] + n BY <3>1, <1>2
    <3> QED BY <3>1, <3>2, <1>1, <1>2, <1>s DEF Truthful, P!At
  <2> QED BY <2>2, <2>3, <2>4, <2>5 DEF Timely
<1>6. P!ListeningShown'
  <2> SUFFICES ASSUME NEW s \in Scopes \ wide, P!Told(s)' PROVE shown[s] <=> openWaits'[s] > 0
    BY DEF P!ListeningShown
  <2>1. ~P!Telling(r, s)' BY DEF P!Told
  <2>2. P!Told(s) BY <1>1 DEF P!Told, P!Telling
  <2>3. shown[s] <=> openWaits[s] > 0 BY <2>2 DEF ShownInv, P!ListeningShown
  <2>4. CASE s # s0 BY <2>4, <2>3, <1>2
  <2>5. CASE s = s0
    <3>1. n = -1 /\ openWaits[s] # 1 BY <2>1, <2>5, <1>1, <1>s DEF P!Telling
    <3> QED BY <3>1, <2>3, <2>5, <1>2, <1>4
  <2> QED BY <2>4, <2>5
<1> QED BY <1>3, <1>4, <1>5, <1>6 DEF ShownInv

\* Requests that touch the agent, push its state or go on to the next step.
LEMMA TurnsShow ==
  ASSUME RequestsFinite, ShownInv, NEW r \in Requests,
         \/ \E s \in P!Activity \cup P!Lifecycle : P!SetAgentState(r, s)
         \/ P!Touch(r) \/ P!Woken(r) \/ P!Abandoned(r) \/ P!Greet(r)
         \/ \E s \in Scopes : P!Wait(r, s)
  PROVE  ShownInv'
<1>0. UNCHANGED <<openWaits, openWS, shown, late, crossed, wide>>
  BY DEF P!SetAgentState, P!Touch, P!Woken, P!Abandoned, P!Greet, P!Wait, P!open, P!history
<1> DEFINE TurnsTo(next) ==
       /\ P!Go(r, next)
       /\ next.pc \in {"hello", "socket"} <=> telling[r].pc \in {"hello", "socket"}
       /\ next.pc \in {"enter", "waiting", "leave"} <=> telling[r].pc \in {"enter", "waiting", "leave"}
       /\ next.pc \in {"enter", "waiting", "leave"} => next.scope = telling[r].scope
       /\ telling[r].pc \notin {"enter", "left", "tell", "view"}
       /\ next.pc \notin {"enter", "left", "tell", "view"}
       /\ next.pc \in {"open", "waiting", "leave"} =>
            next.scope \in Scopes /\ next = [pc |-> next.pc, scope |-> next.scope]
<1>1. ASSUME NEW next, TurnsTo(next) PROVE ShownInv'
  <2>1. Counted' BY <1>0, <1>1, CountedKeeps
  <2> QED BY <1>0, <1>1, <2>1, QuietTurnShows
<1>2. CASE (\E s \in P!Activity \cup P!Lifecycle : P!SetAgentState(r, s)) \/ P!Touch(r)
  <2>1. PICK next : P!Go(r, next) /\ next.pc \in {"idle", "touch"} /\ telling[r].pc \in {"idle", "touch"}
    <3>1. P!Idle.pc = "idle" /\ [pc |-> "touch"].pc = "touch" BY DEF P!Idle
    <3>2. CASE P!Touch(r) BY <3>1, <3>2 DEF P!Touch, P!At
    <3>3. ASSUME NEW s, P!SetAgentState(r, s)
          PROVE  P!At(r, "idle") /\ (P!Go(r, P!Idle) \/ P!Go(r, [pc |-> "touch"]))
      BY <3>3 DEF P!SetAgentState
    <3> QED BY <1>2, <3>1, <3>2, <3>3 DEF P!At
  <2>2. TurnsTo(next) BY <2>1
  <2> HIDE DEF TurnsTo
  <2> QED BY <2>2, <1>1
<1>3. CASE P!Woken(r) \/ P!Abandoned(r)
  <2>1. P!At(r, "waiting") /\ P!Go(r, [telling[r] EXCEPT !.pc = "leave"]) BY <1>3 DEF P!Woken, P!Abandoned
  <2>2. PICK s \in Scopes : telling[r] = [pc |-> "waiting", scope |-> s] BY <2>1 DEF P!At, ShownInv, Served
  <2>3. P!Go(r, [pc |-> "leave", scope |-> s]) BY <2>1, <2>2
  <2>4. TurnsTo([pc |-> "leave", scope |-> s]) BY <2>2, <2>3
  <2> HIDE DEF TurnsTo
  <2> QED BY <2>4, <1>1
<1>4. CASE P!Greet(r)
  <2>1. TurnsTo([pc |-> "socket"]) BY <1>4 DEF P!Greet, P!At
  <2> HIDE DEF TurnsTo
  <2> QED BY <2>1, <1>1
<1>5. ASSUME NEW s \in Scopes, P!Wait(r, s) PROVE ShownInv'
  <2>1. TurnsTo([pc |-> "open", scope |-> s]) BY <1>5 DEF P!Wait, P!At
  <2> HIDE DEF TurnsTo
  <2> QED BY <2>1, <1>1
<1> QED BY <1>2, <1>3, <1>4, <1>5

\* A socket that opens or closes.
LEMMA SocketsShow ==
  ASSUME RequestsFinite, ShownInv, NEW r \in Requests, P!Hello(r) \/ P!CloseWS(r)
  PROVE  ShownInv'
<1>0. UNCHANGED <<openWaits, shown, late, crossed, wide>> BY DEF P!Hello, P!CloseWS, P!history
<1>1. PICK next : /\ P!Go(r, next) /\ telling[r].pc \in {"idle", "socket"} /\ next.pc \in {"hello", "idle"}
                  /\ \/ telling[r].pc = "idle" /\ next.pc = "hello" /\ openWS' = openWS + 1
                     \/ telling[r].pc = "socket" /\ next.pc = "idle" /\ openWS' = openWS - 1
  <2>1. P!Idle.pc = "idle" /\ [pc |-> "hello"].pc = "hello" BY DEF P!Idle
  <2> QED BY <2>1 DEF P!Hello, P!CloseWS, P!At
<1>2. telling'[r] = next /\ \A q \in Requests \ {r} : telling'[q] = telling[q]
  BY <1>1, Handled DEF ShownInv
<1>3. \A s : Waiters(s)' = Waiters(s) BY <1>1, <1>2 DEF Waiters
<1>4. openWS' = Cardinality(Sockets)'
  <2>1. CASE openWS' = openWS + 1 /\ telling[r].pc = "idle" /\ next.pc = "hello"
    <3>1. Sockets' = Sockets \cup {r} /\ r \notin Sockets BY <2>1, <1>2 DEF Sockets
    <3> QED BY <2>1, <3>1, Finite, OneMore DEF ShownInv, Counted
  <2>2. CASE openWS' = openWS - 1 /\ telling[r].pc = "socket" /\ next.pc = "idle"
    <3>1. Sockets' = Sockets \ {r} /\ r \in Sockets BY <2>2, <1>2 DEF Sockets
    <3> QED BY <2>2, <3>1, Finite, OneMore DEF ShownInv, Counted
  <2> QED BY <1>1, <2>1, <2>2
<1>5. Counted' BY <1>0, <1>3, <1>4 DEF ShownInv, Counted
<1> QED BY <1>0, <1>1, <1>5, QuietTurnShows

\* Long polls, and what is told of them.
LEMMA WaitsShow ==
  ASSUME RequestsFinite, ShownInv, NEW r \in Requests,
         \/ P!EnterWait(r) \/ P!LeaveWait(r) \/ P!Entered(r) \/ P!Left(r) \/ P!Tell(r) \/ P!MergeRoomPresence(r)
         \/ \E s \in Scopes : P!ReadUpdate(r, s) \/ P!RoomPresence(r, s)
  PROVE  ShownInv'
<1> DEFINE s0 == telling[r].scope
<1>1. ASSUME telling[r].pc \in {"open", "enter", "waiting", "leave"}, NEW pc
      PROVE  [telling[r] EXCEPT !.pc = pc] = [pc |-> pc, scope |-> s0]
  <2>1. telling[r] = [pc |-> telling[r].pc, scope |-> s0] BY <1>1 DEF ShownInv, Served
  <2> QED BY <2>1
<1>2. CASE P!EnterWait(r)
  <2>1. /\ telling[r].pc = "open" /\ P!Count(s0, 1) /\ P!Go(r, [pc |-> "enter", scope |-> s0])
        /\ UNCHANGED <<openWS, shown, crossed, wide>>
    BY <1>2, <1>1 DEF P!EnterWait, P!At
  <2> QED BY <2>1, CountShows
<1>3. CASE P!LeaveWait(r)
  <2>1. /\ telling[r].pc = "leave" /\ P!Count(s0, -1)
        /\ P!Go(r, IF openWaits[s0] = 1 THEN [pc |-> "left", scope |-> s0] ELSE P!Idle)
        /\ UNCHANGED <<openWS, shown, crossed, wide>>
    BY <1>3, <1>1 DEF P!LeaveWait, P!At
  <2>2. CASE openWaits[s0] = 1
    <3>1. P!Go(r, [pc |-> "left", scope |-> s0]) BY <2>1, <2>2
    <3> QED BY <2>1, <2>2, <3>1, CountShows
  <2>3. CASE openWaits[s0] # 1
    <3>1. P!Go(r, P!Idle) /\ P!Idle.pc = "idle" BY <2>1, <2>3 DEF P!Idle
    <3> QED BY <2>1, <2>3, <3>1, CountShows
  <2> QED BY <2>2, <2>3
<1>4. CASE P!Entered(r)
  <2>1. /\ telling[r].pc = "enter" /\ P!Show(r, TRUE) /\ wide' = wide \ {s0}
        /\ P!Go(r, [pc |-> "waiting", scope |-> s0])
    BY <1>4, <1>1 DEF P!Entered, P!At, P!BroadcastPresence
  <2> QED BY <2>1, SentShows
<1>5. CASE P!Left(r)
  <2>1. telling[r].pc = "left" /\ P!Show(r, FALSE) /\ wide' = wide \ {s0} /\ P!Go(r, P!Idle) /\ P!Idle.pc = "idle"
    BY <1>5 DEF P!Left, P!At, P!BroadcastPresence, P!Idle
  <2>2. /\ telling[r].pc \in {"enter", "left", "tell", "view"} /\ telling[r].pc # "enter"
        /\ telling[r].pc = "enter" => FALSE = TRUE
        /\ telling[r].pc = "left" => FALSE = FALSE
        /\ telling[r].pc \in {"tell", "view"} => FALSE = telling[r].waiting
        /\ wide' = wide \ {s0} \/ wide' = wide \cup {s0}
        /\ telling[r].pc = "view" /\ telling[r].wide => wide' = wide \cup {s0}
    BY <2>1
  <2> QED BY <2>1, <2>2, SentShows
<1>6. CASE P!Tell(r)
  <2>1. /\ telling[r].pc = "tell" /\ P!Show(r, telling[r].waiting) /\ wide' = wide \ {s0}
        /\ P!Go(r, P!Idle) /\ P!Idle.pc = "idle"
    BY <1>6 DEF P!Tell, P!At, P!BroadcastPresence, P!Idle
  <2>2. /\ telling[r].pc \in {"enter", "left", "tell", "view"} /\ telling[r].pc # "enter"
        /\ telling[r].pc = "enter" => telling[r].waiting = TRUE
        /\ telling[r].pc = "left" => telling[r].waiting = FALSE
        /\ telling[r].pc \in {"tell", "view"} => telling[r].waiting = telling[r].waiting
        /\ wide' = wide \ {s0} \/ wide' = wide \cup {s0}
        /\ telling[r].pc = "view" /\ telling[r].wide => wide' = wide \cup {s0}
    BY <2>1
  <2> QED BY <2>1, <2>2, SentShows
<1>7. CASE P!MergeRoomPresence(r)
  <2>1. /\ telling[r].pc = "view" /\ P!Show(r, telling[r].waiting)
        /\ wide' = IF telling[r].wide THEN wide \cup {s0} ELSE wide \ {s0}
        /\ P!Go(r, P!Idle) /\ P!Idle.pc = "idle"
    BY <1>7 DEF P!MergeRoomPresence, P!At, P!Idle
  <2>2. /\ telling[r].pc \in {"enter", "left", "tell", "view"} /\ telling[r].pc # "enter"
        /\ telling[r].pc = "enter" => telling[r].waiting = TRUE
        /\ telling[r].pc = "left" => telling[r].waiting = FALSE
        /\ telling[r].pc \in {"tell", "view"} => telling[r].waiting = telling[r].waiting
        /\ wide' = wide \ {s0} \/ wide' = wide \cup {s0}
        /\ telling[r].pc = "view" /\ telling[r].wide => wide' = wide \cup {s0}
    BY <2>1
  <2> QED BY <2>1, <2>2, SentShows
<1>8. ASSUME NEW s \in Scopes, P!ReadUpdate(r, s) PROVE ShownInv'
  <2> DEFINE next == [pc |-> "tell", scope |-> s, waiting |-> openWaits[s] > 0]
  <2>1. /\ telling[r].pc = "idle" /\ P!Go(r, next)
        /\ UNCHANGED <<openWaits, openWS, shown, late, crossed, wide>>
    BY <1>8 DEF P!ReadUpdate, P!At, P!open, P!history
  <2>2. next.pc = "tell" /\ next.scope = s /\ (next.waiting <=> openWaits[s] > 0) OBVIOUS
  <2> HIDE DEF next
  <2> QED BY <2>1, <2>2, BeginShows
<1>9. ASSUME NEW s \in Scopes, P!RoomPresence(r, s) PROVE ShownInv'
  <2> DEFINE next == [pc |-> "view", scope |-> s, wide |-> openWaits[s] = 0 /\ openWaits[Anywhere] > 0,
                      waiting |-> openWaits[s] > 0 \/ openWaits[Anywhere] > 0]
  <2>1. /\ telling[r].pc = "idle" /\ P!Go(r, next)
        /\ UNCHANGED <<openWaits, openWS, shown, late, crossed, wide>>
    BY <1>9 DEF P!RoomPresence, P!At, P!open, P!history
  <2>2. /\ next.pc = "view" /\ next.scope = s
        /\ next.wide <=> openWaits[s] = 0 /\ openWaits[Anywhere] > 0
        /\ next.waiting <=> openWaits[s] > 0 \/ openWaits[Anywhere] > 0
    OBVIOUS
  <2> HIDE DEF next
  <2>3. openWaits[s] \in Nat BY CountsShow DEF ShownInv
  <2>4. next.wide \/ (next.waiting <=> openWaits[s] > 0) BY <2>2, <2>3
  <2> QED BY <2>1, <2>2, <2>4, BeginShows
<1> QED BY <1>2, <1>3, <1>4, <1>5, <1>6, <1>7, <1>8, <1>9

LEMMA RestartShows ==
  ASSUME P!Restart
  PROVE  ShownInv'
<1>1. /\ telling' = [r \in Requests |-> P!Idle] /\ openWaits' = [s \in Scopes |-> 0] /\ openWS' = 0
      /\ shown' = [s \in Scopes |-> FALSE] /\ late' = {} /\ crossed' = {} /\ wide' = {}
  BY DEF P!Restart
<1>2. \A r \in Requests : telling'[r].pc = "idle" BY <1>1 DEF P!Idle
<1>3. Sockets' = {} /\ \A s : Waiters(s)' = {} BY <1>2 DEF Sockets, Waiters
<1>4. Served' BY <1>1, <1>2 DEF Served
<1>5. Counted' BY <1>1, <1>3, FS_EmptySet DEF Counted
<1>6. Timely' BY <1>1, <1>2 DEF Timely, P!Telling
<1>7. P!ListeningShown' BY <1>1 DEF P!ListeningShown
<1> QED BY <1>4, <1>5, <1>6, <1>7 DEF ShownInv

LEMMA InitShows == P!Init => ShownInv
<1> SUFFICES ASSUME P!Init PROVE ShownInv OBVIOUS
<1>1. /\ telling = [r \in Requests |-> P!Idle] /\ openWaits = [s \in Scopes |-> 0] /\ openWS = 0
      /\ shown = [s \in Scopes |-> FALSE] /\ late = {} /\ crossed = {} /\ wide = {}
  BY DEF P!Init
<1>2. \A r \in Requests : telling[r].pc = "idle" BY <1>1 DEF P!Idle
<1>3. Sockets = {} /\ \A s : Waiters(s) = {} BY <1>2 DEF Sockets, Waiters
<1>4. Served BY <1>1, <1>2 DEF Served
<1>5. Counted BY <1>1, <1>3, FS_EmptySet DEF Counted
<1>6. Timely BY <1>1, <1>2 DEF Timely, P!Telling
<1>7. P!ListeningShown BY <1>1 DEF P!ListeningShown
<1> QED BY <1>4, <1>5, <1>6, <1>7 DEF ShownInv

LEMMA ShownStep ==
  ASSUME RequestsFinite, ShownInv, [P!Next]_(P!vars)
  PROVE  ShownInv'
<1>1. CASE \/ P!Heartbeat \/ P!Register \/ P!Deregister \/ P!ActiveAgentIDs \/ P!SweepAgentLiveness
           \/ P!CleanupStaleAgents \/ P!Tick \/ UNCHANGED P!vars
  <2>1. UNCHANGED <<telling, openWaits, openWS, shown, late, crossed, wide>>
    BY <1>1 DEF P!Heartbeat, P!Register, P!Deregister, P!ActiveAgentIDs, P!SweepAgentLiveness,
                P!CleanupStaleAgents, P!Tick, P!vars, P!open, P!history
  <2> QED BY <2>1, ElsewhereShows
<1>2. CASE P!Serve BY <1>2, TurnsShow, SocketsShow, WaitsShow DEF P!Serve
<1>3. CASE P!Restart BY <1>3, RestartShows
<1> QED BY <1>1, <1>2, <1>3 DEF P!Next

-----------------------------------------------------------------------------
(* What the rooms are told. *)

\* What AlertsDeserved and AlertsAlternate say of a step.
Edges ==
  /\ P!Gone => /\ \A s \in Scopes : openWaits[s] = 0
               /\ openWS = Cardinality({r \in Requests : P!At(r, "hello")})
  /\ prompt => (P!Gone => told = "here") /\ (P!Back => stirred)

LEMMA AgeNumbers ==
  /\ {P!Fresh, P!Stale, P!Offline, P!Forgotten} \subseteq P!Ages
  /\ P!Fresh # P!Stale /\ ~(P!Fresh >= P!Offline)
  /\ \A n \in P!Ages : n \in Int /\ (n < P!Forgotten => n + 1 \in P!Ages)
BY DEF P!Ages, P!Fresh, P!Stale, P!Offline, P!Forgotten

LEMMA NoEdges ==
  ASSUME state' = state \/ state' # "offline", told' = told \/ ~known' \/ state' = "", told # "gone" \/ told # "here"
  PROVE  Edges
BY DEF Edges, P!Gone, P!Back

\* A step that shows the agent alive, if it is registered.
LEMMA TouchAlerts ==
  ASSUME AlertInv, P!TouchAgent, UNCHANGED <<known, state, pending, told, prompt, sweep, openWaits, openWS>>,
         \A r \in Requests : P!At(r, "open")' => known \/ age' = age
  PROVE  AlertInv' /\ Edges
<1>1. /\ known => age' = P!Fresh /\ ~swept' /\ stirred'
      /\ ~known => age' = age /\ (swept' <=> swept) /\ (stirred' <=> stirred)
  BY DEF P!TouchAgent
<1>2. age' \in P!Ages /\ {known, prompt, swept, stirred}' \subseteq BOOLEAN
  <2>1. age' \in P!Ages BY <1>1, AgeNumbers DEF AlertInv, Facts
  <2>2. swept' \in BOOLEAN /\ stirred' \in BOOLEAN BY DEF P!TouchAgent
  <2> QED BY <2>1, <2>2 DEF AlertInv, Facts
<1>3. Facts' BY <1>1, <1>2 DEF AlertInv, Facts
<1>4. Looked'
  <2>1. CASE known BY <2>1, <1>1 DEF Looked, P!Fresh, P!Offline
  <2>2. CASE ~known BY <2>2 DEF Looked
  <2> QED BY <2>1, <2>2
<1>5. Alternating'
  <2>1. CASE known BY <2>1, <1>1 DEF AlertInv, Alternating, P!Fresh, P!Stale
  <2>2. CASE ~known BY <2>2, <1>1 DEF AlertInv, Facts, Alternating
  <2> QED BY <2>1, <2>2
<1> QED BY <1>3, <1>4, <1>5, NoEdges DEF AlertInv

\* A step of a request that changes nothing of the agent but its activity.
LEMMA ActivityAlerts ==
  ASSUME AlertInv, UNCHANGED <<known, age, told, prompt, swept, stirred, sweep, openWaits, openWS>>,
         UNCHANGED <<state, pending>>
           \/ (known /\ state' # "offline" /\ pending' # "offline" /\ state # "offline")
           \/ (known /\ state' = state /\ pending' # "offline"),
         \A r \in Requests : telling'[r].pc \in {"open", "hello", "socket"} => telling'[r].pc = telling[r].pc
  PROVE  AlertInv' /\ Edges
<1>1. Facts' BY DEF AlertInv, Facts, P!At
<1>2. Looked' BY DEF AlertInv, Looked, Sockets, P!At
<1>3. Alternating' BY DEF AlertInv, Alternating, P!Active
<1> QED BY <1>1, <1>2, <1>3, NoEdges DEF AlertInv

\* Waits and sockets come and go.
LEMMA WaitAlerts ==
  ASSUME RequestsFinite, ShownInv, AlertInv, NEW r \in Requests, P!EnterWait(r) \/ P!LeaveWait(r)
  PROVE  AlertInv' /\ Edges
<1>0. UNCHANGED <<known, state, pending, age, openWS, sweep, prompt, swept, told, stirred>>
  BY DEF P!EnterWait, P!LeaveWait, P!agent
<1>1. PICK s0 \in Scopes : s0 = telling[r].scope /\ telling[r].pc \in {"open", "leave"}
  BY DEF P!EnterWait, P!LeaveWait, P!At, ShownInv, Served
<1>2. PICK n \in {1, -1} : /\ openWaits' = [openWaits EXCEPT ![s0] = @ + n]
                           /\ n = 1 => P!At(r, "open")
                           /\ n = -1 => P!At(r, "leave")
  BY <1>1 DEF P!EnterWait, P!LeaveWait, P!Count
<1>3. \A s \in Scopes : openWaits[s] \in Nat /\ openWaits'[s] = IF s = s0 THEN openWaits[s] + n ELSE openWaits[s]
  BY <1>2, CountsShow DEF ShownInv, Served
<1>4. P!At(r, "leave") => openWaits[s0] > 0
  <2>1. P!At(r, "leave") => r \in Waiters(s0) BY <1>1 DEF P!At, Waiters
  <2> QED BY <2>1, CountsShow DEF ShownInv
<1>5. \A q \in Requests : telling'[q].pc \in {"open", "hello", "socket"} => telling'[q].pc = telling[q].pc
  <2>1. PICK next : P!Go(r, next) /\ next.pc \in {"enter", "left", "idle"}
    <3>1. telling[r] = [pc |-> telling[r].pc, scope |-> telling[r].scope]
      BY <1>1 DEF ShownInv, Served
    <3>2. P!Go(r, [pc |-> "enter", scope |-> s0]) \/ P!Go(r, [pc |-> "left", scope |-> s0]) \/ P!Go(r, P!Idle)
      BY <3>1, <1>1 DEF P!EnterWait, P!LeaveWait
    <3>3. P!Idle.pc = "idle" BY DEF P!Idle
    <3> QED BY <3>2, <3>3
  <2> QED BY <2>1, Handled DEF ShownInv
<1>6. known /\ P!At(r, "open") => age = P!Fresh BY DEF AlertInv, Facts
<1>7. Facts' BY <1>0, <1>5 DEF AlertInv, Facts, P!At
<1>8. Looked'
  <2> SUFFICES ASSUME sweep.pc = "look", ~sweep.active, known, age >= P!Offline
               PROVE  (\A s \in Scopes : openWaits'[s] = 0) /\ \A q \in Sockets' : P!At(q, "hello")'
    BY <1>0 DEF Looked
  <2>1. FALSE
    <3>1. \A s \in Scopes : openWaits[s] = 0 BY DEF AlertInv, Looked
    <3> QED BY <3>1, <1>1, <1>2, <1>4, <1>6 DEF P!Fresh, P!Offline
  <2> QED BY <2>1
<1>9. Alternating'
  <2>1. P!Active' => P!Active \/ P!At(r, "open")
    <3>1. \A s \in Scopes : openWaits'[s] > 0 => openWaits[s] > 0 \/ P!At(r, "open") BY <1>2, <1>3
    <3> QED BY <3>1, <1>0 DEF P!Active
  <2> QED BY <2>1, <1>0, <1>6 DEF AlertInv, Facts, Alternating
<1> QED BY <1>0, <1>7, <1>8, <1>9, NoEdges DEF AlertInv

LEMMA SocketAlerts ==
  ASSUME RequestsFinite, ShownInv, AlertInv, NEW r \in Requests, P!Hello(r) \/ P!CloseWS(r)
  PROVE  AlertInv' /\ Edges
<1>0. UNCHANGED <<known, state, pending, age, openWaits, sweep, prompt, swept, told>>
  BY DEF P!Hello, P!CloseWS, P!agent, P!history
<1>1. PICK next : /\ P!Go(r, next)
                  /\ \/ next.pc = "hello" /\ stirred' = TRUE
                     \/ P!At(r, "socket") /\ next.pc = "idle" /\ stirred' = stirred /\ openWS' = openWS - 1
  <2>1. P!Idle.pc = "idle" /\ [pc |-> "hello"].pc = "hello" BY DEF P!Idle
  <2> QED BY <2>1 DEF P!Hello, P!CloseWS, P!history
<1>2. telling'[r] = next /\ \A q \in Requests \ {r} : telling'[q] = telling[q]
  BY <1>1, Handled DEF ShownInv
<1>3. Facts' BY <1>0, <1>1, <1>2 DEF AlertInv, Facts, P!At
<1>4. Looked' BY <1>0, <1>1, <1>2 DEF AlertInv, Looked, Sockets, P!At
<1>5. Alternating'
  <2>1. CASE stirred' = TRUE BY <2>1, <1>0 DEF AlertInv, Alternating
  <2>2. CASE stirred' = stirred /\ openWS' = openWS - 1
    <3>1. openWS \in Nat BY CountsShow DEF ShownInv
    <3>2. P!Active' => P!Active BY <2>2, <3>1, <1>0 DEF P!Active
    <3> QED BY <2>2, <3>2, <1>0 DEF AlertInv, Alternating
  <2> QED BY <1>1, <2>1, <2>2
<1> QED BY <1>0, <1>3, <1>4, <1>5, NoEdges DEF AlertInv

\* Registered, deregistered, forgotten, or the server starts anew.
LEMMA RegistryAlerts ==
  ASSUME AlertInv, P!Register \/ P!Deregister \/ P!CleanupStaleAgents \/ P!Restart
  PROVE  AlertInv' /\ Edges
<1>1. CASE P!Register
  <2>1. /\ known' /\ age' = P!Fresh /\ ~swept' /\ stirred' /\ UNCHANGED <<telling, sweep, prompt>>
        /\ \/ UNCHANGED <<state, pending, told>>
           \/ state' = "" /\ pending' = "" /\ told' = "here"
    BY <1>1 DEF P!Register
  <2>0. /\ age' \in P!Ages /\ {known, prompt, swept, stirred}' \subseteq BOOLEAN
        /\ told' \in {"here", "gone"} /\ pending' # "offline"
    <3>1. age' \in P!Ages BY <2>1, AgeNumbers
    <3>2. {known, prompt, swept, stirred}' \subseteq BOOLEAN
      BY <1>1 DEF P!Register, AlertInv, Facts
    <3> QED BY <2>1, <3>1, <3>2 DEF AlertInv, Facts
  <2>2. Facts' BY <2>0, <2>1 DEF Facts
  <2>3. Looked' BY <2>1, AgeNumbers DEF Looked
  <2>4. Alternating' BY <2>1, AgeNumbers DEF AlertInv, Alternating
  <2>5. Edges BY <2>1, NoEdges
  <2> QED BY <2>2, <2>3, <2>4, <2>5 DEF AlertInv
<1>2. CASE P!Deregister \/ P!CleanupStaleAgents
  <2>1. /\ ~known' /\ state' = "" /\ pending' = "" /\ told' = "here" /\ UNCHANGED <<age, telling, sweep>>
        /\ known' = FALSE /\ UNCHANGED <<prompt, swept, stirred>>
    BY <1>2 DEF P!Deregister, P!CleanupStaleAgents
  <2>2. Facts' BY <2>1 DEF AlertInv, Facts
  <2>3. Looked' BY <2>1 DEF Looked
  <2>4. Alternating' BY <2>1 DEF Alternating
  <2>5. Edges BY <2>1, NoEdges
  <2> QED BY <2>2, <2>3, <2>4, <2>5 DEF AlertInv
<1>3. CASE P!Restart
  <2>1. /\ state' = "" /\ pending' = "" /\ told' = "here" /\ sweep' = P!SweepIdle /\ age' = age
        /\ telling' = [r \in Requests |-> P!Idle]
    BY <1>3 DEF P!Restart
  <2>0. /\ known' \in BOOLEAN /\ UNCHANGED <<prompt, swept, stirred>>
        /\ ~\E r \in Requests : P!At(r, "open")'
    <3>1. known' \in BOOLEAN /\ UNCHANGED <<prompt, swept, stirred>> BY <1>3 DEF P!Restart
    <3>2. \A r \in Requests : telling'[r].pc = "idle" BY <2>1 DEF P!Idle
    <3> QED BY <3>1, <3>2 DEF P!At
  <2>2. Facts' BY <2>0, <2>1 DEF AlertInv, Facts
  <2>3. Looked' BY <2>1 DEF Looked, P!SweepIdle
  <2>4. Alternating' BY <2>1 DEF Alternating
  <2>5. Edges BY <2>1, NoEdges
  <2> QED BY <2>2, <2>3, <2>4, <2>5 DEF AlertInv
<1> QED BY <1>1, <1>2, <1>3

LEMMA TickAlerts ==
  ASSUME AlertInv, P!Tick
  PROVE  AlertInv' /\ Edges
<1>1. /\ age < P!Forgotten /\ age' = age + 1 /\ sweep.pc = "idle" /\ (prompt => swept) /\ ~swept'
      /\ \A r \in Requests : telling[r].pc \in {"idle", "waiting", "socket"}
      /\ UNCHANGED <<known, state, pending, openWaits, openWS, telling, sweep, prompt, told, stirred>>
  BY DEF P!Tick, P!open, P!history
<1>0. age' \in P!Ages /\ {known, prompt, swept, stirred}' \subseteq BOOLEAN
  <2>1. age' \in P!Ages BY <1>1, AgeNumbers DEF AlertInv, Facts
  <2>2. swept' \in BOOLEAN BY DEF P!Tick
  <2> QED BY <1>1, <2>1, <2>2 DEF AlertInv, Facts
<1>2. Facts'
  <2>1. ~\E r \in Requests : P!At(r, "open")' BY <1>1 DEF P!At
  <2> QED BY <1>0, <1>1, <2>1 DEF AlertInv, Facts
<1>3. Looked' BY <1>1 DEF Looked
<1>4. Alternating'
  <2> SUFFICES ASSUME prompt PROVE Alternating' BY <1>1 DEF Alternating
  <2>1. swept /\ ~swept' BY <1>1
  <2>2. state = "offline" => age \in {P!Offline, P!Forgotten}
    BY <2>1 DEF AlertInv, Facts, Alternating, P!Ages, P!Fresh, P!Stale, P!Offline, P!Forgotten
  <2>3. state = "offline" => age' # P!Stale /\ age' # P!Fresh
    BY <1>1, <2>2 DEF P!Fresh, P!Stale, P!Offline, P!Forgotten
  <2>4. P!Active' <=> P!Active BY <1>1 DEF P!Active
  <2> QED BY <1>1, <2>3, <2>4 DEF AlertInv, Alternating
<1> QED BY <1>1, <1>2, <1>3, <1>4, NoEdges DEF AlertInv

\* The sweep takes its snapshot of waits and sockets ...
LEMMA SnapshotAlerts ==
  ASSUME RequestsFinite, ShownInv, AlertInv, P!ActiveAgentIDs
  PROVE  AlertInv' /\ Edges
<1>1. /\ sweep' = [pc |-> "look", active |-> P!Active]
      /\ UNCHANGED <<known, state, pending, age, openWaits, openWS, telling, prompt, swept, told, stirred>>
  BY DEF P!ActiveAgentIDs, P!agent, P!open, P!history
<1>2. sweep'.active <=> P!Active BY <1>1
<1>3. Facts' BY <1>1 DEF AlertInv, Facts, P!At
<1>4. Looked'
  <2>1. ~P!Active => (\A s \in Scopes : openWaits[s] = 0) /\ Sockets = {}
    BY CountsShow DEF ShownInv, P!Active
  <2> QED BY <2>1, <1>1, <1>2 DEF Looked, Sockets
<1>5. Alternating' BY <1>1, <1>2 DEF AlertInv, Alternating, P!Active
<1> QED BY <1>1, <1>3, <1>4, <1>5, NoEdges DEF AlertInv

\* ... and acts on it.
LEMMA SweepAlerts ==
  ASSUME RequestsFinite, ShownInv, AlertInv, P!SweepAgentLiveness
  PROVE  AlertInv' /\ Edges
<1>1. /\ sweep.pc = "look" /\ sweep' = P!SweepIdle /\ swept' = TRUE
      /\ UNCHANGED <<known, age, openWaits, openWS, telling, prompt>>
  BY DEF P!SweepAgentLiveness, P!open
<1>2. sweep'.pc = "idle" BY <1>1 DEF P!SweepIdle
<1>3. age \in 0..3 BY DEF AlertInv, Facts, P!Ages, P!Fresh, P!Forgotten
<1>4. P!Derived = "offline" /\ state # "offline" => ~sweep.active /\ age >= P!Offline
  BY <1>3 DEF P!Derived, P!Offline, P!Stale
<1>5. ~known \/ P!Derived = state \/ P!Derived # "offline" \/ (~sweep.active /\ age >= P!Offline)
  BY <1>4
<1>6. /\ P!Active' <=> P!Active
      /\ (\E r \in Requests : P!At(r, "open")') <=> (\E r \in Requests : P!At(r, "open"))
  BY <1>1 DEF P!Active, P!At
<1>7. Looked' BY <1>2 DEF Looked
<1>8. CASE ~known \/ P!Derived = state
  <2>1. UNCHANGED <<state, pending, told, stirred>> BY <1>8 DEF P!SweepAgentLiveness
  <2>2. Facts' BY <1>1, <1>6, <2>1 DEF AlertInv, Facts
  <2>3. state = "offline" /\ known /\ prompt => age # P!Fresh
    BY <1>3, <1>8 DEF P!Derived, AlertInv, Alternating, P!Fresh, P!Stale, P!Offline
  <2>4. Alternating' BY <1>1, <1>2, <1>6, <2>1, <2>3 DEF AlertInv, Facts, Alternating
  <2> QED BY <1>7, <2>1, <2>2, <2>4, NoEdges DEF AlertInv
<1>9. CASE known /\ P!Derived # state /\ P!Derived = "offline"
  <2>1. /\ state # "offline" /\ state' = "offline" /\ pending' = pending /\ told' = "gone"
        /\ (stirred' <=> P!Active)
    BY <1>9 DEF P!SweepAgentLiveness
  <2>0. stirred' \in BOOLEAN BY <2>1, <1>9 DEF P!Active, P!SweepAgentLiveness
  <2>2. Facts' BY <1>1, <1>6, <2>0, <2>1, <1>9 DEF AlertInv, Facts
  <2>3. age >= P!Offline /\ ~sweep.active BY <1>4, <1>9
  <2>4. Alternating' BY <1>1, <1>2, <1>3, <1>6, <2>1, <2>3 DEF Alternating, P!Fresh, P!Stale, P!Offline
  <2>5. (\A s \in Scopes : openWaits[s] = 0) /\ \A r \in Sockets : P!At(r, "hello")
    BY <1>1, <1>9, <2>3 DEF AlertInv, Looked
  <2>6. Sockets = {r \in Requests : P!At(r, "hello")} BY <2>5 DEF Sockets, P!At
  <2>7. openWS = Cardinality({r \in Requests : P!At(r, "hello")})
    BY <2>6 DEF ShownInv, Counted
  <2>8. prompt => told = "here" BY <2>1 DEF AlertInv, Facts, Alternating
  <2>9. Edges BY <2>1, <2>5, <2>7, <2>8 DEF Edges, P!Back
  <2> QED BY <1>7, <2>2, <2>4, <2>9 DEF AlertInv
<1>10. CASE known /\ P!Derived # state /\ P!Derived # "offline"
  <2>1. /\ state' # "offline" /\ pending' # "offline" /\ stirred' = stirred
        /\ told' = told \/ told' = "here"
        /\ state = "offline" /\ P!Derived = "idle" => told' = "here"
    BY <1>10 DEF P!SweepAgentLiveness, AlertInv, Facts
  <2>2. Facts' BY <1>1, <1>6, <2>1, <1>10 DEF AlertInv, Facts
  <2>3. prompt /\ state = "offline" => P!Derived = "idle" /\ stirred
    BY <1>1, <1>3, <1>10 DEF P!Derived, AlertInv, Alternating, P!Fresh, P!Stale, P!Offline
  <2>4. prompt => told' = "here" BY <2>1, <2>3 DEF AlertInv, Facts, Alternating
  <2>5. Alternating' BY <1>1, <2>1, <2>4 DEF Alternating
  <2>6. Edges BY <2>1, <2>3, <2>4 DEF Edges, P!Gone, P!Back, AlertInv, Alternating
  <2> QED BY <1>7, <2>2, <2>5, <2>6 DEF AlertInv
<1> QED BY <1>8, <1>9, <1>10

LEMMA AlertStep ==
  ASSUME RequestsFinite, ShownInv, AlertInv, [P!Next]_(P!vars)
  PROVE  AlertInv' /\ Edges
<1>1. CASE UNCHANGED P!vars
  <2>1. UNCHANGED <<known, age, told, prompt, swept, stirred, sweep, openWaits, openWS, state, pending, telling>>
    BY <1>1 DEF P!vars, P!agent, P!open, P!history
  <2> QED BY <2>1, ActivityAlerts
<1>2. ASSUME NEW r \in Requests, P!Touch(r) \/ P!Woken(r) \/ P!Greet(r) \/ \E s \in Scopes : P!Wait(r, s)
      PROVE  AlertInv' /\ Edges
  <2>1. P!TouchAgent /\ UNCHANGED <<known, state, pending, told, prompt, sweep, openWaits, openWS>>
    BY <1>2 DEF P!Touch, P!Woken, P!Greet, P!Wait, P!open
  <2>2. known \/ age' = age BY <2>1 DEF P!TouchAgent
  <2> QED BY <2>1, <2>2, TouchAlerts
<1>3. CASE P!Heartbeat
  <2>1. P!TouchAgent /\ UNCHANGED <<known, state, pending, told, prompt, sweep, openWaits, openWS>> /\ known
    BY <1>3 DEF P!Heartbeat, P!open
  <2> QED BY <2>1, TouchAlerts
<1>4. ASSUME NEW r \in Requests, NEW next, P!Go(r, next), next.pc \notin {"open", "hello", "socket"},
             UNCHANGED <<known, age, told, prompt, swept, stirred, sweep, openWaits, openWS>>,
             UNCHANGED <<state, pending>>
               \/ (known /\ state' # "offline" /\ pending' # "offline" /\ state # "offline")
               \/ (known /\ state' = state /\ pending' # "offline")
      PROVE  AlertInv' /\ Edges
  <2>1. \A q \in Requests : telling'[q].pc \in {"open", "hello", "socket"} => telling'[q].pc = telling[q].pc
    BY <1>4, Handled DEF ShownInv
  <2> QED BY <1>4, <2>1, ActivityAlerts
<1>5. ASSUME NEW r \in Requests, NEW s \in P!Activity \cup P!Lifecycle, P!SetAgentState(r, s)
      PROVE  AlertInv' /\ Edges
  <2>1. /\ known /\ UNCHANGED <<known, age, told, prompt, swept, stirred, sweep, openWaits, openWS>>
        /\ \/ state = "offline" /\ state' = state /\ pending' \in {s, pending}
           \/ state # "offline" /\ state' = s /\ pending' = pending
    BY <1>5 DEF P!SetAgentState, P!open, P!history
  <2>2. s # "offline" /\ pending # "offline" BY DEF P!Activity, P!Lifecycle, AlertInv, Facts
  <2>3. PICK next : P!Go(r, next) /\ next.pc \in {"touch", "idle"}
    <3>1. P!Idle.pc = "idle" /\ [pc |-> "touch"].pc = "touch" BY DEF P!Idle
    <3> QED BY <3>1, <1>5 DEF P!SetAgentState
  <2> QED BY <2>1, <2>2, <2>3, <1>4
<1>6. ASSUME NEW r \in Requests,
             \/ P!Abandoned(r) \/ P!Entered(r) \/ P!Left(r) \/ P!Tell(r) \/ P!MergeRoomPresence(r)
             \/ \E s \in Scopes : P!ReadUpdate(r, s) \/ P!RoomPresence(r, s)
      PROVE  AlertInv' /\ Edges
  <2>1. /\ UNCHANGED <<known, age, told, prompt, swept, stirred, sweep, openWaits, openWS>>
        /\ UNCHANGED <<state, pending>>
    BY <1>6 DEF P!Abandoned, P!Entered, P!Left, P!Tell, P!MergeRoomPresence, P!BroadcastPresence, P!Show, P!ReadUpdate,
                P!RoomPresence, P!agent, P!open, P!history
  <2>2. PICK next : P!Go(r, next) /\ next.pc \notin {"open", "hello", "socket"}
    <3>1. CASE P!Abandoned(r) \/ P!Entered(r)
      <4>1. PICK s : telling[r] = [pc |-> telling[r].pc, scope |-> s]
        BY <3>1 DEF P!Abandoned, P!Entered, P!At, ShownInv, Served
      <4>2. \/ telling' = [telling EXCEPT ![r] = [[pc |-> telling[r].pc, scope |-> s] EXCEPT !.pc = "leave"]]
            \/ telling' = [telling EXCEPT ![r] = [[pc |-> telling[r].pc, scope |-> s] EXCEPT !.pc = "waiting"]]
        BY <3>1, <4>1 DEF P!Abandoned, P!Entered, P!Go
      <4>3. P!Go(r, [pc |-> "leave", scope |-> s]) \/ P!Go(r, [pc |-> "waiting", scope |-> s])
        BY <4>2 DEF P!Go
      <4> QED BY <4>3
    <3>2. CASE P!Left(r) \/ P!Tell(r) \/ P!MergeRoomPresence(r)
      <4>1. P!Go(r, P!Idle) /\ P!Idle.pc = "idle" BY <3>2 DEF P!Left, P!Tell, P!MergeRoomPresence, P!Idle
      <4> QED BY <4>1
    <3>3. ASSUME NEW s \in Scopes, P!ReadUpdate(r, s) \/ P!RoomPresence(r, s)
          PROVE  \E next : P!Go(r, next) /\ next.pc \notin {"open", "hello", "socket"}
      <4>1. CASE P!ReadUpdate(r, s)
        <5>1. PICK next : P!Go(r, next) /\ next = [pc |-> "tell", scope |-> s, waiting |-> openWaits[s] > 0]
          BY <4>1 DEF P!ReadUpdate
        <5> QED BY <5>1
      <4>2. CASE P!RoomPresence(r, s)
        <5>1. PICK w, v : P!Go(r, [pc |-> "view", scope |-> s, wide |-> w, waiting |-> v])
          BY <4>2 DEF P!RoomPresence
        <5> QED BY <5>1
      <4> QED BY <3>3, <4>1, <4>2
    <3> QED BY <1>6, <3>1, <3>2, <3>3
  <2> QED BY <2>1, <2>2, <1>4
<1>7. CASE P!Serve BY <1>7, <1>2, <1>5, <1>6, WaitAlerts, SocketAlerts DEF P!Serve
<1> QED BY <1>1, <1>3, <1>7, RegistryAlerts, TickAlerts, SnapshotAlerts, SweepAlerts DEF P!Next

LEMMA AlertInit == P!Init => AlertInv
<1> SUFFICES ASSUME P!Init PROVE AlertInv OBVIOUS
<1>1. Facts
  <2>1. age \in P!Ages
    <3>1. age = P!Fresh BY DEF P!Init
    <3> QED BY <3>1, AgeNumbers
  <2>2. told \in {"here", "gone"} /\ pending # "offline" BY DEF P!Init
  <2> QED BY <2>1, <2>2 DEF P!Init, Facts
<1>2. Looked BY DEF P!Init, Looked, P!SweepIdle
<1>3. Alternating BY DEF P!Init, Alternating
<1> QED BY <1>1, <1>2, <1>3 DEF AlertInv

LEMMA PresenceInvariant ==
  ASSUME RequestsFinite
  PROVE  P!Spec => []PresInv
<1>1. P!Init => PresInv BY InitShows, AlertInit DEF PresInv
<1>2. PresInv /\ [P!Next]_(P!vars) => PresInv' BY ShownStep, AlertStep DEF PresInv
<1> QED BY <1>1, <1>2, PTL DEF P!Spec

LEMMA PShown ==
  ASSUME RequestsFinite
  PROVE  P!Spec => []P!ListeningShown
<1>1. PresInv => P!ListeningShown BY DEF PresInv, ShownInv
<1> QED BY <1>1, PresenceInvariant, PTL

\* The counting that Presence brings with it is the library's.
LEMMA SameCount ==
  ASSUME NEW A
  PROVE  P!Cardinality(A) = Cardinality(A)
BY DEF P!Cardinality, Cardinality

LEMMA PEdges ==
  ASSUME RequestsFinite
  PROVE  P!Spec => P!AlertsAlternate /\ P!AlertsDeserved
<1>1. PresInv /\ [P!Next]_(P!vars) => Edges BY AlertStep DEF PresInv
<1>2. Edges => (prompt => (P!Gone => told = "here") /\ (P!Back => stirred)) BY DEF Edges
<1>3. Edges => (P!Gone => /\ \A s \in Scopes : openWaits[s] = 0
                          /\ openWS = P!Cardinality({r \in Requests : P!At(r, "hello")}))
  BY SameCount DEF Edges
<1> QED BY <1>1, <1>2, <1>3, PresenceInvariant, PTL DEF P!Spec, P!AlertsAlternate, P!AlertsDeserved

-----------------------------------------------------------------------------
\* The composition: a behaviour takes the steps of one part, and none of the others.

LEMMA PartsAreData == PartsSpec => D!Spec
<1>1. PartsInit => D!Init BY DEF PartsInit
<1>2. [PartsNext]_partsVars => [D!Next]_(D!vars)
  <2>1. UNCHANGED dataVars => UNCHANGED D!vars BY DEF dataVars, D!vars, D!memory, D!rows
  <2> QED BY <2>1 DEF PartsNext, DataStep, partsVars
<1> QED BY <1>1, <1>2, PTL DEF PartsSpec, D!Spec

LEMMA PartsAreUser == PartsSpec => U!Spec
<1>1. PartsInit => U!Init BY DEF PartsInit
<1>2. [PartsNext]_partsVars => [U!Next]_(U!vars)
  <2>1. UserStep => U!Next
    <3> SUFFICES ASSUME UserStep PROVE U!Next OBVIOUS
    <3>1. \/ \E v \in BOOLEAN : U!PutSettings(v)
          \/ \E h \in Curators : U!Curate(h) \/ U!Save(h) \/ U!Play(h) \/ U!SubmitCard(h) \/ U!Clear(h)
          \/ U!Restart
      BY DEF UserStep
    <3>2. \A h \in Curators : U!SubmitCard(h) => U!Curate(h) BY DEF U!Curate
    <3> QED BY <3>1, <3>2 DEF U!Next
  <2>2. UNCHANGED userVars => UNCHANGED U!vars
    BY DEF userVars, U!vars
  <2> QED BY <2>1, <2>2 DEF PartsNext, partsVars
<1> QED BY <1>1, <1>2, PTL DEF PartsSpec, U!Spec

LEMMA PartsAreStorage == PartsSpec => S!Spec
<1>1. PartsInit => S!Init BY DEF PartsInit
<1>2. [PartsNext]_partsVars => [S!Next]_(S!vars)
  <2>1. UNCHANGED storageVars => UNCHANGED S!vars
    BY DEF storageVars, S!vars, S!disk
  <2> QED BY <2>1 DEF PartsNext, partsVars
<1> QED BY <1>1, <1>2, PTL DEF PartsSpec, S!Spec

LEMMA PartsArePresence == PartsSpec => P!Spec
<1>1. PartsInit => P!Init BY DEF PartsInit
<1>2. [PartsNext]_partsVars => [P!Next]_(P!vars)
  <2>1. UNCHANGED presenceVars => UNCHANGED P!vars
    BY DEF presenceVars, P!vars, P!agent, P!open, P!history
  <2> QED BY <2>1 DEF PartsNext, partsVars
<1> QED BY <1>1, <1>2, PTL DEF PartsSpec, P!Spec

\* For any number of posts, handlers, rooms deleted and restarts: a reaction looked up
\* under one lock and stored under another is shown on the message it was given to, or
\* on none (store_messages.go:575).
THEOREM ReactionsStayTheirs ==
  ASSUME PostsBounded
  PROVE  PartsSpec => []ReactionsTheirs
<1>1. DataInv => ReactionsTheirs BY DataTheirs
<1> QED BY <1>1, DataInvariant, PartsAreData, PTL

\* A reaction stays on its message until its author takes it back, through deletions of
\* rooms, sweeps and restarts, unless the message was stored while a sweep ran
\* (store_messages.go:575).
THEOREM ReactionsStay ==
  ASSUME PostsBounded
  PROVE  PartsSpec => ReactionsKept
BY KeptByAll, PartsAreData, PTL DEF ReactionsKept

\* The image a stored message refers to can be fetched, through deletions, sweeps by
\* any number of workers and restarts, but for those whose deletion overtook the
\* message or was cut short (store_attachments.go:257).
THEOREM ImagesStay ==
  ASSUME PostsBounded
  PROVE  PartsSpec => []ImagesServed
BY ImagesServedByAll, PartsAreData, PTL

\* However often a start is cut short between import, archive and index removal, a
\* server that runs knows every change that a section was told to keep (sqlite.go:25).
THEOREM StartsKnowLatest == PartsSpec => []StartsWithLatest
BY StartsKnow, PartsAreStorage, PTL DEF StartsWithLatest

\* With any number of curators: an update replaces what its author read, and nothing
\* brings back a record that was removed (memory.go:535).
THEOREM CuratorsAreKept == PartsSpec => CurationKept
BY CuratorsKept, PartsAreUser, PTL DEF CurationKept

\* When no request is served the tables hold what the server uses, but for named
\* sections whose last saves crossed (memory.go:535).
THEOREM TablesFollowMemory == PartsSpec => []SavedWhenQuiet
BY TablesFollow, PartsAreUser, PTL DEF SavedWhenQuiet

\* A sound that is listed can be played, whatever uploads, deletions, clearings and
\* restarts there are, but for deletions a kill cut short (store_sounds.go:153).
THEOREM ListedSoundsPlay == PartsSpec => []SoundsPlayable
BY SoundsArePlayable, PartsAreUser, PTL DEF SoundsPlayable

\* However many polls and sockets an agent holds, open, loses and closes: when no
\* broadcast of a room is on its way the interface shows the agent as listening there
\* exactly if it is, but for broadcasts that were late and fetches that counted an
\* agent-wide wait (store_agents.go:820).
THEOREM ListenersAreShown ==
  ASSUME RequestsFinite
  PROVE  PartsSpec => []ListeningShown
BY PShown, PartsArePresence, PTL DEF ListeningShown

\* Where sweeps are more frequent than the stale window, an agent's rooms are told in
\* turn that it went and came back, the second never without a sign of life
\* (store_agents.go:482).
THEOREM DeparturesAlternate ==
  ASSUME RequestsFinite
  PROVE  PartsSpec => AlertsAlternate
BY PEdges, PartsArePresence, PTL DEF AlertsAlternate

\* No room is told that an agent went while it holds a poll open, or a socket whose
\* hello is complete (store_agents.go:482).
THEOREM DeparturesAreReal ==
  ASSUME RequestsFinite
  PROVE  PartsSpec => AlertsDeserved
BY PEdges, PartsArePresence, PTL DEF AlertsDeserved
=============================================================================
