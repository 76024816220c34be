---------------------------- MODULE RolesProofs -----------------------------
(***************************************************************************)
(* What holds of roles and of the two parts checked beside them, for any    *)
(* set of keys, agents, rooms, payloads, profiles, terminals and concurrent  *)
(* requests.                                                               *)
(*                                                                         *)
(* Roles keeps its types, and a built-in singleton role that no client     *)
(* redefines is held at most once per room: every place a definition can   *)
(* come from, the maps, the tables, a payload or a copy on its way to the   *)
(* tables, calls such a role a singleton, and an assignment about to commit *)
(* has read so.  With one request at a time the roles that are held exist   *)
(* and the tables follow memory, but for what a failed write or read set    *)
(* back.  Sessions of McpShim keep their names apart, and the fetches of    *)
(* Polling file a profile's own numbers and ask for each once.              *)
(***************************************************************************)
EXTENDS MCRolesRaces, TLAPS

-----------------------------------------------------------------------------
(* Partial maps of definitions.                                            *)

LEMMA DefinitionsType ==
  ASSUME NEW ks, NEW d \in Definitions(ks)
  PROVE  DOMAIN d \subseteq ks /\ \A k \in DOMAIN d : d[k] \in Entry
BY DEF Definitions

LEMMA DefinitionsIntro ==
  ASSUME NEW ks, NEW D \in SUBSET ks, NEW d \in [D -> Entry]
  PROVE  d \in Definitions(ks)
BY DEF Definitions

LEMMA NothingType ==
  ASSUME NEW ks PROVE Nothing \in Definitions(ks) /\ DOMAIN Nothing = {}
<1>1. Nothing \in [{} -> Entry] BY DEF Nothing
<1>2. QED BY <1>1, DefinitionsIntro DEF Nothing

LEMMA WithoutType ==
  ASSUME NEW ks, NEW d \in Definitions(ks), NEW k
  PROVE  Without(d, k) \in Definitions(ks)
<1>1. DOMAIN d \subseteq ks /\ \A j \in DOMAIN d : d[j] \in Entry BY DefinitionsType
<1>2. Without(d, k) \in [DOMAIN d \ {k} -> Entry] BY <1>1 DEF Without
<1>3. DOMAIN d \ {k} \in SUBSET ks BY <1>1
<1>4. QED BY <1>2, <1>3, DefinitionsIntro

LEMMA OnlyType ==
  ASSUME NEW ks, NEW js, NEW d \in Definitions(ks)
  PROVE  Only(d, js) \in Definitions(js)
<1>1. DOMAIN d \subseteq ks /\ \A j \in DOMAIN d : d[j] \in Entry BY DefinitionsType
<1>2. Only(d, js) \in [DOMAIN d \cap js -> Entry] BY <1>1 DEF Only
<1>3. DOMAIN d \cap js \in SUBSET js OBVIOUS
<1>4. QED BY <1>2, <1>3, DefinitionsIntro

LEMMA CardinalityType ==
  ASSUME RolesAssumption, TypeOK, NEW k \in Keys
  PROVE  CardinalityOf(k) \in Cardinalities
<1>1. \A j \in DOMAIN overrides : overrides[j] \in Entry
  BY DefinitionsType DEF TypeOK
<1>2. \A j \in DOMAIN custom : custom[j] \in Entry
  BY DefinitionsType DEF TypeOK
<1>3. QED BY <1>1, <1>2 DEF CardinalityOf, Cardinalities, Entry, RolesAssumption

-----------------------------------------------------------------------------
(* Requests.                                                               *)

LEMMA IdleType == RolesAssumption => Idle \in Request
BY NothingType DEF Idle, Request, Cardinalities

\* A handler moves on to a request that is well typed.
LEMMA ServeType ==
  ASSUME NEW h \in Handlers, NEW req \in Request, serving \in [Handlers -> Request],
         Serve(h, req)
  PROVE  serving' \in [Handlers -> Request]
BY DEF Serve

LEMMA GoToType ==
  ASSUME RolesAssumption, NEW h \in Handlers, serving \in [Handlers -> Request],
         NEW pc \in {"idle", "reset", "save", "clear_roles"},
         Serve(h, [Idle EXCEPT !.pc = pc])
  PROVE  serving' \in [Handlers -> Request]
<1>1. Idle \in Request BY IdleType
<1>2. [Idle EXCEPT !.pc = pc] \in Request BY <1>1 DEF Request
<1>3. QED BY <1>2, ServeType

LEMMA DoneType ==
  ASSUME RolesAssumption, NEW h \in Handlers, serving \in [Handlers -> Request], Done(h)
  PROVE  serving' \in [Handlers -> Request]
BY IdleType, ServeType DEF Done

\* The two ways on from a removal: to the next one, or to the rooms to clear.
LEMMA MoveType ==
  ASSUME NEW req \in Request, NEW ks \in SUBSET Keys, NEW left \in SUBSET RoomIDs,
         NEW pc \in {"remove", "cascade", "swap"}, NEW key \in Keys
  PROVE  /\ [req EXCEPT !.todo = ks, !.pc = pc] \in Request
         /\ [req EXCEPT !.todo = ks, !.pc = pc, !.key = key, !.left = left] \in Request
BY DEF Request

LEMMA AcceptedType ==
  ASSUME NEW req \in Request, NEW pc \in {"snapshot", "check"}, NEW p \in Definitions(Keys),
         NEW force \in BOOLEAN, NEW ks \in SUBSET Keys
  PROVE  [req EXCEPT !.pc = pc, !.payload = p, !.force = force, !.todo = ks] \in Request
BY DEF Request

-----------------------------------------------------------------------------
(* Type correctness.                                                       *)

LEMMA TypeInit == RolesAssumption /\ Init => TypeOK
BY IdleType, NothingType DEF Init, TypeOK

LEMMA TypeDefine ==
  ASSUME RolesAssumption, TypeOK, NEW h \in Handlers, Define(h)
  PROVE  TypeOK'
<1> USE DEF TypeOK
<1>t. serving[h] \in Request OBVIOUS
<1>n. ASSUME NEW ks PROVE NextRemoval(ks) \in {"swap", "remove"}
  BY DEF NextRemoval
<1>1. ASSUME NEW p \in Payloads, NEW force \in BOOLEAN, ReplaceRoles(h, p, force)
      PROVE  TypeOK'
  <2>1. p \in Definitions(Keys) /\ DOMAIN p \in SUBSET Keys
    BY DefinitionsType DEF RolesAssumption
  <2>2. ASSUME NEW pc \in {"snapshot", "check"}
        PROVE  [Idle EXCEPT !.pc = pc, !.payload = p, !.force = force, !.todo = DOMAIN p]
                 \in Request
    BY <2>1, <2>2, IdleType, AcceptedType
  <2>3. serving' \in [Handlers -> Request]
    BY <1>1, <2>2, ServeType DEF ReplaceRoles
  <2>4. QED BY <1>1, <2>3 DEF ReplaceRoles, people, definitions, tables
<1>2. ASSUME NEW k \in Keys, NEW force \in BOOLEAN, DeleteRole(h, k, force)
      PROVE  TypeOK'
  <2>1. [Idle EXCEPT !.pc = "find", !.key = k, !.force = force] \in Request
    BY IdleType DEF Request
  <2>2. serving' \in [Handlers -> Request] BY <1>2, <2>1, ServeType DEF DeleteRole
  <2>3. QED BY <1>2, <2>2 DEF DeleteRole, people, definitions, tables
<1>3. ASSUME NEW force \in BOOLEAN, DeleteAll(h, force) PROVE TypeOK'
  <2>1. serving' \in [Handlers -> Request] BY <1>3, GoToType DEF DeleteAll, GoTo
  <2>2. QED BY <1>3, <2>1 DEF DeleteAll, definitions, tables
<1>4. CASE CheckEntry(h)
  <2>1. PICK k \in serving[h].todo :
          \/ Serve(h, [serving[h] EXCEPT !.todo = serving[h].todo \ {k},
                 !.pc = IF serving[h].todo = {k} THEN "snapshot" ELSE "check"])
          \/ Done(h)
    BY <1>4 DEF CheckEntry
  <2>2. serving[h].todo \ {k} \in SUBSET Keys BY <1>t DEF Request
  <2> DEFINE to == IF serving[h].todo = {k} THEN "snapshot" ELSE "check"
             left == serving[h].todo \ {k}
             req == [serving[h] EXCEPT !.todo = left, !.pc = to]
  <2>a. to \in {"snapshot", "check"} OBVIOUS
  <2>b. Serve(h, req) \/ Done(h) BY <2>1
  <2>c. req \in Request
    <3> HIDE DEF to, left
    <3>1. left \in SUBSET Keys BY <2>2 DEF left
    <3>2. QED BY <1>t, <2>a, <3>1 DEF Request
  <2>3. serving' \in [Handlers -> Request]
    <3> HIDE DEF req
    <3>1. QED BY <2>b, <2>c, ServeType, DoneType
  <2>4. QED BY <1>4, <2>3 DEF CheckEntry, people, definitions, tables
<1>5. CASE Snapshot(h)
  <2> DEFINE gone == (DOMAIN overrides \cup DOMAIN custom) \ DOMAIN serving[h].payload
  <2>1. gone \in SUBSET Keys BY DefinitionsType DEF Keys
  <2>2. Serve(h, [serving[h] EXCEPT !.todo = gone, !.pc = NextRemoval(gone)])
    BY <1>5 DEF Snapshot
  <2>3. serving' \in [Handlers -> Request]
    <3> HIDE DEF gone
    <3>1. NextRemoval(gone) \in {"swap", "remove"} BY <1>n
    <3>2. [serving[h] EXCEPT !.todo = gone, !.pc = NextRemoval(gone)] \in Request
      BY <1>t, <2>1, <3>1 DEF Request
    <3>3. QED BY <3>2, <2>2, ServeType
  <2>4. QED BY <1>5, <2>3 DEF Snapshot, people, definitions, tables
<1>6. CASE RemoveKey(h)
  <2>1. PICK k \in serving[h].todo :
          \/ Serve(h, [serving[h] EXCEPT !.todo = serving[h].todo \ {k},
                                       !.pc = NextRemoval(serving[h].todo \ {k})])
          \/ Serve(h, [serving[h] EXCEPT !.todo = serving[h].todo \ {k}, !.pc = "cascade",
                                       !.key = k, !.left = RoomsWithRole(k)])
          \/ Done(h)
    BY <1>6 DEF RemoveKey
  <2>2. serving[h].todo \ {k} \in SUBSET Keys /\ k \in Keys BY <1>t DEF Request
  <2>3. RoomsWithRole(k) \in SUBSET RoomIDs BY DEF RoomsWithRole
  <2>4. /\ [serving[h] EXCEPT !.todo = serving[h].todo \ {k},
                             !.pc = NextRemoval(serving[h].todo \ {k})] \in Request
        /\ [serving[h] EXCEPT !.todo = serving[h].todo \ {k}, !.pc = "cascade",
                             !.key = k, !.left = RoomsWithRole(k)] \in Request
    BY <1>t, <1>n, <2>2, <2>3, MoveType
  <2>5. serving' \in [Handlers -> Request] BY <2>1, <2>4, ServeType, DoneType
  <2>6. QED BY <1>6, <2>5 DEF RemoveKey, people, definitions, tables
<1>7. CASE CascadeRoom(h)
  <2>1. PICK r \in serving[h].left :
          /\ holding' = Unassigned(r, serving[h].key)
          /\ Serve(h, [serving[h] EXCEPT !.left = @ \ {r},
                     !.pc = IF serving[h].left # {r} THEN @
                            ELSE IF @ = "unseat" THEN "drop"
                            ELSE NextRemoval(serving[h].todo)])
    BY <1>7 DEF CascadeRoom
  <2>2. serving[h].left \ {r} \in SUBSET RoomIDs /\ r \in RoomIDs BY <1>t DEF Request
  <2>3. holding' \in [RoomIDs -> [Agents -> Keys \cup {NoKey}]]
    BY <2>1, <2>2 DEF Unassigned
  <2>4. serving' \in [Handlers -> Request]
    <3>1. serving[h].pc \in {"cascade", "unseat"} BY <1>7 DEF CascadeRoom
    <3> DEFINE to == IF serving[h].left # {r} THEN serving[h].pc
                     ELSE IF serving[h].pc = "unseat" THEN "drop"
                     ELSE NextRemoval(serving[h].todo)
    <3>2. to \in {"cascade", "unseat", "drop", "swap", "remove"} BY <3>1, <1>n
    <3>3. Serve(h, [serving[h] EXCEPT !.left = serving[h].left \ {r}, !.pc = to]) BY <2>1
    <3> HIDE DEF to
    <3>4. [serving[h] EXCEPT !.left = serving[h].left \ {r}, !.pc = to] \in Request
      BY <1>t, <2>2, <3>2 DEF Request
    <3>5. QED BY <3>3, <3>4, ServeType
  <2>5. QED BY <1>7, <2>3, <2>4 DEF CascadeRoom, definitions, tables
<1>8. CASE Swap(h)
  <2>1. serving[h].payload \in Definitions(Keys) BY <1>t DEF Request
  <2>2. overrides' \in Definitions(Catalog) /\ custom' \in Definitions(CustomKeys)
    BY <1>8, <2>1, OnlyType DEF Swap
  <2>3. serving' \in [Handlers -> Request] BY <1>8, GoToType DEF Swap, GoTo
  <2>4. QED BY <1>8, <2>2, <2>3 DEF Swap, people, tables
<1>9. CASE Find(h)
  <2>1. RoomsWithRole(serving[h].key) \in SUBSET RoomIDs BY DEF RoomsWithRole
  <2>2. \/ Serve(h, [serving[h] EXCEPT !.pc = "drop"])
        \/ Serve(h, [serving[h] EXCEPT !.pc = "unseat", !.left = RoomsWithRole(serving[h].key)])
        \/ Done(h)
    BY <1>9 DEF Find
  <2>3. /\ [serving[h] EXCEPT !.pc = "drop"] \in Request
        /\ [serving[h] EXCEPT !.pc = "unseat", !.left = RoomsWithRole(serving[h].key)] \in Request
    BY <1>t, <2>1 DEF Request
  <2>4. serving' \in [Handlers -> Request] BY <2>2, <2>3, ServeType, DoneType
  <2>5. QED BY <1>9, <2>4 DEF Find, people, definitions, tables
<1>10. CASE Drop(h)
  <2>1. overrides' \in Definitions(Catalog) /\ custom' \in Definitions(CustomKeys)
    BY <1>10, WithoutType DEF Drop
  <2>2. serving' \in [Handlers -> Request] BY <1>10, GoToType DEF Drop, GoTo
  <2>3. QED BY <1>10, <2>1, <2>2 DEF Drop, people, tables
<1>11. CASE Reset(h)
  <2>1. serving' \in [Handlers -> Request] BY <1>11, GoToType DEF Reset, GoTo
  <2>2. QED BY <1>11, <2>1, NothingType DEF Reset, people, tables
<1>12. CASE CopyForSave(h)
  <2>1. [Idle EXCEPT !.pc = "write_overrides", !.copy = <<overrides, custom>>] \in Request
    BY IdleType DEF Request
  <2>2. serving' \in [Handlers -> Request] BY <1>12, <2>1, ServeType DEF CopyForSave
  <2>3. QED BY <1>12, <2>2 DEF CopyForSave, people, definitions, tables
<1>13. CASE WriteOverrides(h)
  <2>1. serving[h].copy[1] \in Definitions(Catalog) BY <1>t DEF Request
  <2>2. [serving[h] EXCEPT !.pc = "write_custom"] \in Request BY <1>t DEF Request
  <2>3. serving' \in [Handlers -> Request] BY <1>13, <2>2, ServeType DEF WriteOverrides
  <2>4. QED BY <1>13, <2>1, <2>3 DEF WriteOverrides, Saved, Unsaved, people, definitions
<1>14. CASE WriteCustom(h)
  <2>1. serving[h].copy[2] \in Definitions(CustomKeys) BY <1>t DEF Request
  <2>2. serving' \in [Handlers -> Request] BY <1>14, DoneType DEF WriteCustom
  <2>3. QED BY <1>14, <2>1, <2>2 DEF WriteCustom, Saved, Unsaved, people, definitions
<1>15. QED
  BY <1>1, <1>2, <1>3, <1>4, <1>5, <1>6, <1>7, <1>8, <1>9, <1>10, <1>11, <1>12, <1>13,
     <1>14 DEF Define

LEMMA TypeAssign ==
  ASSUME RolesAssumption, TypeOK, NEW h \in Handlers, Assign(h)
  PROVE  TypeOK'
<1> USE DEF TypeOK
<1>t. serving[h] \in Request OBVIOUS
<1>1. ASSUME NEW a \in Agents, NEW r \in RoomIDs, UnassignRole(h, a, r) PROVE TypeOK'
  BY <1>1 DEF UnassignRole, definitions, tables
<1>2. ASSUME NEW a \in Agents, NEW r \in RoomIDs, NEW k \in Keys, AssignRole(h, a, r, k)
      PROVE  TypeOK'
  <2>1. [Idle EXCEPT !.pc = "look_up", !.agent = a, !.room = r, !.key = k] \in Request
    BY IdleType DEF Request
  <2>2. serving' \in [Handlers -> Request] BY <1>2, <2>1, ServeType DEF AssignRole
  <2>3. QED BY <1>2, <2>2 DEF AssignRole, people, definitions, tables
<1>3. CASE LookUpCardinality(h)
  <2>1. CardinalityOf(serving[h].key) \in Cardinalities
    <3>1. CASE serving[h].key \in Keys BY <3>1, CardinalityType
    <3>2. CASE serving[h].key \notin Keys
      <4>1. DOMAIN overrides \subseteq Catalog /\ DOMAIN custom \subseteq CustomKeys
        BY DefinitionsType
      <4>2. QED BY <3>2, <4>1 DEF CardinalityOf, Keys, Cardinalities
    <3>3. QED BY <3>1, <3>2
  <2>2. [serving[h] EXCEPT !.pc = "commit", !.cardinality = CardinalityOf(serving[h].key)]
          \in Request
    BY <1>t, <2>1 DEF Request
  <2>3. serving' \in [Handlers -> Request] BY <1>3, <2>2, ServeType DEF LookUpCardinality
  <2>4. QED BY <1>3, <2>3 DEF LookUpCardinality, people, definitions, tables
<1>4. CASE CommitAssignment(h)
  <2>1. serving[h].key \in Keys \cup {NoKey} BY <1>t DEF Request
  <2>2. holding' \in [RoomIDs -> [Agents -> Keys \cup {NoKey}]]
    BY <1>4, <2>1 DEF CommitAssignment
  <2>3. serving' \in [Handlers -> Request] BY <1>4, DoneType DEF CommitAssignment
  <2>4. QED BY <1>4, <2>2, <2>3 DEF CommitAssignment, definitions, tables
<1>5. QED BY <1>1, <1>2, <1>3, <1>4 DEF Assign

LEMMA TypeEnrol ==
  ASSUME RolesAssumption, TypeOK, NEW h \in Handlers, Enrol(h)
  PROVE  TypeOK'
<1> USE DEF TypeOK
<1>1. ASSUME NEW a \in Agents, Register(h, a) PROVE TypeOK'
  BY <1>1 DEF Register, definitions, tables
<1>2. ASSUME NEW a \in Agents, Deregister(h, a) PROVE TypeOK'
  BY <1>2 DEF Deregister, definitions, tables
<1>3. CASE ClearAll(h)
  <2>1. serving' \in [Handlers -> Request] BY <1>3, GoToType DEF ClearAll, GoTo
  <2>2. QED BY <1>3, <2>1 DEF ClearAll, definitions, tables
<1>4. CASE ClearRoles(h)
  <2>1. serving' \in [Handlers -> Request] BY <1>4, DoneType DEF ClearRoles
  <2>2. /\ savedOverrides' \in {savedOverrides, Nothing} /\ savedCustom' \in {savedCustom, Nothing}
        /\ failed' \subseteq {"overrides", "custom"}
    BY <1>4 DEF ClearRoles
  <2>3. QED BY <1>4, <2>1, <2>2, NothingType DEF ClearRoles, people
<1>5. QED BY <1>1, <1>2, <1>3, <1>4 DEF Enrol

LEMMA TypeStep == RolesAssumption /\ TypeOK /\ [Next]_vars => TypeOK'
<1> SUFFICES ASSUME RolesAssumption, TypeOK, [Next]_vars PROVE TypeOK' OBVIOUS
<1>1. CASE Restart
  <2>1. overrides' \in {savedOverrides, Nothing} /\ custom' \in {savedCustom, Nothing}
    BY <1>1 DEF Restart
  <2>2. failed' \subseteq {"overrides", "custom"} /\ setBack' \subseteq CustomKeys
    BY <1>1 DEF Restart, TypeOK
  <2>3. QED BY <1>1, <2>1, <2>2, IdleType, NothingType DEF Restart, TypeOK, people
<1>2. CASE UNCHANGED vars
  BY <1>2 DEF vars, people, definitions, tables, TypeOK
<1>3. QED BY <1>1, <1>2, TypeDefine, TypeAssign, TypeEnrol DEF Next

\* Every reachable state of the role store is well typed; in particular a custom
\* map never holds a built-in key, and an override no custom one.
THEOREM TypeCorrect == Spec => []TypeOK
<1>1. RolesAssumption BY RolesAssumption
<1>2. QED BY <1>1, TypeInit, TypeStep, PTL DEF Spec

-----------------------------------------------------------------------------
(* A built-in singleton that no client redefines is held once per room.    *)

\* Wherever definitions are kept, such a role is a singleton.
Says(d, k) == k \in DOMAIN d => d[k].cardinality = "singleton"
Honest(req, k) ==
  /\ Says(req.payload, k) /\ Says(req.copy[1], k)
  /\ req.pc = "commit" /\ req.key = k => req.cardinality = "singleton"
Agreed ==
  \A k \in FixedSingletons :
    /\ Says(overrides, k) /\ Says(savedOverrides, k)
    /\ \A h \in Handlers : Honest(serving[h], k)

SingletonInv == TypeOK /\ Agreed /\ SingletonHeld

LEMMA NothingSays == ASSUME NEW k PROVE Says(Nothing, k)
BY NothingType DEF Says

LEMMA IdleHonest == ASSUME NEW k PROVE Honest(Idle, k)
BY NothingSays DEF Honest, Idle

LEMMA ServeHonest ==
  ASSUME NEW k, NEW h \in Handlers, NEW req, Serve(h, req), Honest(req, k),
         serving \in [Handlers -> Request], \A g \in Handlers : Honest(serving[g], k)
  PROVE  \A g \in Handlers : Honest(serving'[g], k)
BY DEF Serve

LEMMA AgreedInit == RolesAssumption /\ Init => Agreed /\ SingletonHeld
<1> SUFFICES ASSUME RolesAssumption, Init PROVE Agreed /\ SingletonHeld OBVIOUS
<1>1. Agreed BY NothingSays, IdleHonest DEF Init, Agreed
<1>2. SingletonHeld BY DEF Init, SingletonHeld, FixedSingletons, RolesAssumption, Keys
<1>3. QED BY <1>1, <1>2

LEMMA AgreedDefine ==
  ASSUME RolesAssumption, TypeOK, Agreed, NEW h \in Handlers, Define(h)
  PROVE  Agreed'
<1> SUFFICES ASSUME NEW k \in FixedSingletons
             PROVE  /\ Says(overrides, k)' /\ Says(savedOverrides, k)'
                    /\ \A g \in Handlers : Honest(serving'[g], k)
  BY DEF Agreed, FixedSingletons
<1>t. serving \in [Handlers -> Request] /\ serving[h] \in Request BY DEF TypeOK
<1>s. k \in Catalog BY DEF FixedSingletons
<1>a. /\ Says(overrides, k) /\ Says(savedOverrides, k)
      /\ \A g \in Handlers : Honest(serving[g], k)
  BY DEF Agreed
<1>i. Idle \in Request /\ Honest(Idle, k) BY IdleType, IdleHonest
<1>d. ASSUME Done(h) PROVE \A g \in Handlers : Honest(serving'[g], k)
  BY <1>d, <1>i, <1>a, <1>t, ServeHonest DEF Done
<1>g. ASSUME NEW pc \in {"save", "reset"}, GoTo(h, pc)
      PROVE  \A g \in Handlers : Honest(serving'[g], k)
  <2>1. [Idle EXCEPT !.pc = pc].payload = Idle.payload
        /\ [Idle EXCEPT !.pc = pc].copy = Idle.copy
        /\ [Idle EXCEPT !.pc = pc].pc # "commit"
    BY DEF Idle
  <2>2. Honest([Idle EXCEPT !.pc = pc], k) BY <2>1, <1>i DEF Honest
  <2>3. QED BY <1>g, <2>2, <1>a, <1>t, ServeHonest DEF GoTo
\* The steps of a request that change neither its payload nor its copy.
<1>m. ASSUME NEW req, Serve(h, req), req.payload = serving[h].payload,
             req.copy = serving[h].copy, req.pc # "commit"
      PROVE  \A g \in Handlers : Honest(serving'[g], k)
  <2>1. Honest(req, k) BY <1>m, <1>a DEF Honest
  <2>2. QED BY <1>m, <2>1, <1>a, <1>t, ServeHonest
<1>n. ASSUME NEW ks PROVE NextRemoval(ks) \in {"swap", "remove"}
  BY DEF NextRemoval
<1>1. ASSUME NEW p \in Payloads, NEW force \in BOOLEAN, ReplaceRoles(h, p, force)
      PROVE  /\ Says(overrides, k)' /\ Says(savedOverrides, k)'
             /\ \A g \in Handlers : Honest(serving'[g], k)
  <2>1. Says(p, k) BY DEF FixedSingletons, Says
  <2>2. ASSUME NEW pc \in {"snapshot", "check"}
        PROVE  Honest([Idle EXCEPT !.pc = pc, !.payload = p, !.force = force,
                                   !.todo = DOMAIN p], k)
    BY <2>1, <1>i DEF Honest, Idle
  <2>3. \A g \in Handlers : Honest(serving'[g], k)
    BY <1>1, <2>2, <1>a, <1>t, ServeHonest DEF ReplaceRoles
  <2>4. QED BY <1>1, <2>3, <1>a DEF ReplaceRoles, definitions, tables, Says
<1>2. ASSUME NEW j \in Keys, NEW force \in BOOLEAN, DeleteRole(h, j, force)
      PROVE  /\ Says(overrides, k)' /\ Says(savedOverrides, k)'
             /\ \A g \in Handlers : Honest(serving'[g], k)
  <2>1. Honest([Idle EXCEPT !.pc = "find", !.key = j, !.force = force], k)
    BY <1>i DEF Honest, Idle
  <2>2. \A g \in Handlers : Honest(serving'[g], k)
    BY <1>2, <2>1, <1>a, <1>t, ServeHonest DEF DeleteRole
  <2>3. QED BY <1>2, <2>2, <1>a DEF DeleteRole, definitions, tables, Says
<1>3. ASSUME NEW force \in BOOLEAN, DeleteAll(h, force)
      PROVE  /\ Says(overrides, k)' /\ Says(savedOverrides, k)'
             /\ \A g \in Handlers : Honest(serving'[g], k)
  BY <1>3, <1>g, <1>a DEF DeleteAll, definitions, tables, Says
<1>4. CASE CheckEntry(h)
  <2>1. (\A g \in Handlers : Honest(serving'[g], k))
    <3>1. CASE Done(h) BY <3>1, <1>d
    <3>2. CASE ~Done(h)
      <4>1. PICK j : Serve(h, [serving[h] EXCEPT !.todo = serving[h].todo \ {j},
                          !.pc = IF serving[h].todo = {j} THEN "snapshot" ELSE "check"])
        BY <1>4, <3>2 DEF CheckEntry
      <4> DEFINE req == [serving[h] EXCEPT !.todo = serving[h].todo \ {j},
                          !.pc = IF serving[h].todo = {j} THEN "snapshot" ELSE "check"]
      <4>2. req.payload = serving[h].payload /\ req.copy = serving[h].copy /\ req.pc # "commit"
        BY <1>t DEF Request
      <4>3. Serve(h, req) BY <4>1
      <4> HIDE DEF req
      <4>4. QED BY <4>2, <4>3, <1>m
    <3>3. QED BY <3>1, <3>2
  <2>2. QED BY <1>4, <2>1, <1>a DEF CheckEntry, definitions, tables, Says
<1>5. CASE Snapshot(h)
  <2>1. PICK gone : Serve(h, [serving[h] EXCEPT !.todo = gone, !.pc = NextRemoval(gone)])
    BY <1>5 DEF Snapshot
  <2> DEFINE req == [serving[h] EXCEPT !.todo = gone, !.pc = NextRemoval(gone)]
  <2>2. req.payload = serving[h].payload /\ req.copy = serving[h].copy /\ req.pc # "commit"
    BY <1>t, <1>n DEF Request
  <2>3. Serve(h, req) BY <2>1
  <2>4. \A g \in Handlers : Honest(serving'[g], k)
    <3> HIDE DEF req
    <3>1. QED BY <2>2, <2>3, <1>m
  <2>5. QED BY <1>5, <2>4, <1>a DEF Snapshot, definitions, tables, Says
<1>6. CASE RemoveKey(h)
  <2>1. PICK j, left :
          \/ Serve(h, [serving[h] EXCEPT !.todo = left, !.pc = NextRemoval(left)])
          \/ Serve(h, [serving[h] EXCEPT !.todo = left, !.pc = "cascade",
                                       !.key = j, !.left = RoomsWithRole(j)])
          \/ Done(h)
    BY <1>6 DEF RemoveKey
  <2> DEFINE pass == [serving[h] EXCEPT !.todo = left, !.pc = NextRemoval(left)]
             take == [serving[h] EXCEPT !.todo = left, !.pc = "cascade",
                                        !.key = j, !.left = RoomsWithRole(j)]
  <2>2. pass.payload = serving[h].payload /\ pass.copy = serving[h].copy /\ pass.pc # "commit"
    BY <1>t, <1>n DEF Request
  <2>3. take.payload = serving[h].payload /\ take.copy = serving[h].copy /\ take.pc # "commit"
    BY <1>t DEF Request
  <2>4. Serve(h, pass) \/ Serve(h, take) \/ Done(h) BY <2>1
  <2>5. \A g \in Handlers : Honest(serving'[g], k)
    <3> HIDE DEF pass, take
    <3>1. QED BY <2>2, <2>3, <2>4, <1>m, <1>d
  <2>6. QED BY <1>6, <2>5, <1>a DEF RemoveKey, definitions, tables, Says
<1>7. CASE CascadeRoom(h)
  <2>1. PICK r \in serving[h].left :
          Serve(h, [serving[h] EXCEPT !.left = serving[h].left \ {r},
                     !.pc = IF serving[h].left # {r} THEN serving[h].pc
                            ELSE IF serving[h].pc = "unseat" THEN "drop"
                            ELSE NextRemoval(serving[h].todo)])
    BY <1>7 DEF CascadeRoom
  <2> DEFINE req == [serving[h] EXCEPT !.left = serving[h].left \ {r},
                       !.pc = IF serving[h].left # {r} THEN serving[h].pc
                              ELSE IF serving[h].pc = "unseat" THEN "drop"
                              ELSE NextRemoval(serving[h].todo)]
  <2>2. serving[h].pc \in {"cascade", "unseat"} BY <1>7 DEF CascadeRoom
  <2>3. req.payload = serving[h].payload /\ req.copy = serving[h].copy /\ req.pc # "commit"
    BY <1>t, <1>n, <2>2 DEF Request
  <2>4. Serve(h, req) BY <2>1
  <2>5. \A g \in Handlers : Honest(serving'[g], k)
    <3> HIDE DEF req
    <3>1. QED BY <2>3, <2>4, <1>m
  <2>6. QED BY <1>7, <2>5, <1>a DEF CascadeRoom, definitions, tables, Says
<1>8. CASE Swap(h)
  <2>1. Says(serving[h].payload, k) BY <1>a DEF Honest
  <2>2. Says(overrides, k)' BY <1>8, <2>1, <1>s DEF Swap, Only, Says
  <2>3. QED BY <1>8, <2>2, <1>g, <1>a DEF Swap, tables, Says
<1>9. CASE Find(h)
  <2>1. PICK left : \/ Serve(h, [serving[h] EXCEPT !.pc = "drop"])
                    \/ Serve(h, [serving[h] EXCEPT !.pc = "unseat", !.left = left])
                    \/ Done(h)
    BY <1>9 DEF Find
  <2> DEFINE drop == [serving[h] EXCEPT !.pc = "drop"]
             take == [serving[h] EXCEPT !.pc = "unseat", !.left = left]
  <2>2. /\ drop.payload = serving[h].payload /\ drop.copy = serving[h].copy /\ drop.pc # "commit"
        /\ take.payload = serving[h].payload /\ take.copy = serving[h].copy /\ take.pc # "commit"
    BY <1>t DEF Request
  <2>3. Serve(h, drop) \/ Serve(h, take) \/ Done(h) BY <2>1
  <2>4. \A g \in Handlers : Honest(serving'[g], k)
    <3> HIDE DEF drop, take
    <3>1. QED BY <2>2, <2>3, <1>m, <1>d
  <2>5. QED BY <1>9, <2>4, <1>a DEF Find, definitions, tables, Says
<1>10. CASE Drop(h)
  <2>1. Says(overrides, k)' BY <1>10, <1>a DEF Drop, Without, Says
  <2>2. QED BY <1>10, <2>1, <1>g, <1>a DEF Drop, tables, Says
<1>11. CASE Reset(h)
  <2>1. Says(overrides, k)' BY <1>11, NothingSays DEF Reset
  <2>2. QED BY <1>11, <2>1, <1>g, <1>a DEF Reset, tables, Says
<1>12. CASE CopyForSave(h)
  <2>1. Honest([Idle EXCEPT !.pc = "write_overrides", !.copy = <<overrides, custom>>], k)
    BY <1>i, <1>a DEF Honest, Idle
  <2>2. \A g \in Handlers : Honest(serving'[g], k)
    BY <1>12, <2>1, <1>a, <1>t, ServeHonest DEF CopyForSave
  <2>3. QED BY <1>12, <2>2, <1>a DEF CopyForSave, definitions, tables, Says
<1>13. CASE WriteOverrides(h)
  <2> DEFINE req == [serving[h] EXCEPT !.pc = "write_custom"]
  <2>1. req.payload = serving[h].payload /\ req.copy = serving[h].copy /\ req.pc # "commit"
    BY <1>t DEF Request
  <2>2. Serve(h, req) BY <1>13 DEF WriteOverrides
  <2>3. \A g \in Handlers : Honest(serving'[g], k)
    <3> HIDE DEF req
    <3>1. QED BY <2>1, <2>2, <1>m
  <2>4. Says(savedOverrides, k)' BY <1>13, <1>a DEF WriteOverrides, Saved, Unsaved, Honest, Says
  <2>5. QED BY <1>13, <2>3, <2>4, <1>a DEF WriteOverrides, definitions, Says
<1>14. CASE WriteCustom(h) BY <1>14, <1>d, <1>a DEF WriteCustom, definitions, Says
<1>15. QED
  BY <1>1, <1>2, <1>3, <1>4, <1>5, <1>6, <1>7, <1>8, <1>9, <1>10, <1>11, <1>12, <1>13,
     <1>14 DEF Define

LEMMA AgreedAssign ==
  ASSUME RolesAssumption, TypeOK, Agreed, NEW h \in Handlers, Assign(h)
  PROVE  Agreed'
<1> SUFFICES ASSUME NEW k \in FixedSingletons
             PROVE  /\ Says(overrides, k)' /\ Says(savedOverrides, k)'
                    /\ \A g \in Handlers : Honest(serving'[g], k)
  BY DEF Agreed, FixedSingletons
<1>t. serving \in [Handlers -> Request] /\ serving[h] \in Request BY DEF TypeOK
<1>a. /\ Says(overrides, k) /\ Says(savedOverrides, k)
      /\ \A g \in Handlers : Honest(serving[g], k)
  BY DEF Agreed
<1>i. Idle \in Request /\ Honest(Idle, k) BY IdleType, IdleHonest
<1>h. ASSUME NEW req, Serve(h, req), Honest(req, k)
      PROVE  \A g \in Handlers : Honest(serving'[g], k)
  BY <1>h, <1>a, <1>t, ServeHonest
<1>1. UNCHANGED <<overrides, savedOverrides>>
  BY DEF Assign, UnassignRole, AssignRole, LookUpCardinality, CommitAssignment,
         definitions, tables
<1>2. ASSUME NEW a \in Agents, NEW r \in RoomIDs, UnassignRole(h, a, r)
      PROVE  \A g \in Handlers : Honest(serving'[g], k)
  BY <1>2, <1>a DEF UnassignRole
<1>3. ASSUME NEW a \in Agents, NEW r \in RoomIDs, NEW j \in Keys, AssignRole(h, a, r, j)
      PROVE  \A g \in Handlers : Honest(serving'[g], k)
  <2>1. Honest([Idle EXCEPT !.pc = "look_up", !.agent = a, !.room = r, !.key = j], k)
    BY <1>i DEF Honest, Idle
  <2>2. QED BY <1>3, <2>1, <1>a, <1>t, ServeHonest DEF AssignRole
<1>4. ASSUME LookUpCardinality(h) PROVE \A g \in Handlers : Honest(serving'[g], k)
  <2> DEFINE card == CardinalityOf(serving[h].key)
             req == [serving[h] EXCEPT !.pc = "commit", !.cardinality = card]
  \* What is looked up is the override, which agrees, or the catalog's own entry.
  <2>1. serving[h].key = k => card = "singleton"
    <3>1. k \in Catalog /\ Default[k].cardinality = "singleton" BY DEF FixedSingletons
    <3>2. k \notin DOMAIN custom
      BY <3>1, DefinitionsType DEF TypeOK, RolesAssumption
    <3>3. QED BY <3>1, <3>2, <1>a DEF CardinalityOf, Says
  <2> HIDE DEF card
  <2>2. Honest(req, k)
    <3>1. /\ req.payload = serving[h].payload /\ req.copy = serving[h].copy
          /\ req.key = serving[h].key /\ req.cardinality = card
      BY <1>t DEF Request
    <3>2. QED BY <3>1, <2>1, <1>a DEF Honest
  <2>3. Serve(h, req) BY <1>4 DEF LookUpCardinality, card
  <2>4. QED
    <3> HIDE DEF req
    <3>1. QED BY <2>2, <2>3, <1>h
<1>5. ASSUME CommitAssignment(h) PROVE \A g \in Handlers : Honest(serving'[g], k)
  <2>1. Serve(h, Idle) BY <1>5 DEF CommitAssignment, Done
  <2>2. QED BY <2>1, <1>i, <1>h
<1>6. \A g \in Handlers : Honest(serving'[g], k)
  BY <1>2, <1>3, <1>4, <1>5 DEF Assign
<1>7. QED BY <1>1, <1>6, <1>a DEF Says

LEMMA AgreedEnrol ==
  ASSUME RolesAssumption, TypeOK, Agreed, NEW h \in Handlers, Enrol(h)
  PROVE  Agreed'
<1> SUFFICES ASSUME NEW k \in FixedSingletons
             PROVE  /\ Says(overrides, k)' /\ Says(savedOverrides, k)'
                    /\ \A g \in Handlers : Honest(serving'[g], k)
  BY DEF Agreed, FixedSingletons
<1>t. serving \in [Handlers -> Request] BY DEF TypeOK
<1>a. /\ Says(overrides, k) /\ Says(savedOverrides, k)
      /\ \A g \in Handlers : Honest(serving[g], k)
  BY DEF Agreed
<1>1. ASSUME NEW a \in Agents, Register(h, a) \/ Deregister(h, a)
      PROVE  /\ Says(overrides, k)' /\ Says(savedOverrides, k)'
             /\ \A g \in Handlers : Honest(serving'[g], k)
  BY <1>1, <1>a DEF Register, Deregister, definitions, tables, Says
<1>2. CASE ClearAll(h)
  <2>1. Honest([Idle EXCEPT !.pc = "clear_roles"], k) BY IdleHonest DEF Honest, Idle
  <2>2. \A g \in Handlers : Honest(serving'[g], k)
    BY <1>2, <2>1, <1>a, <1>t, ServeHonest DEF ClearAll, GoTo
  <2>3. QED BY <1>2, <2>2, <1>a DEF ClearAll, definitions, tables, Says
<1>3. CASE ClearRoles(h)
  <2>1. \A g \in Handlers : Honest(serving'[g], k)
    BY <1>3, IdleHonest, <1>a, <1>t, ServeHonest DEF ClearRoles, Done
  <2>2. overrides' = Nothing /\ savedOverrides' \in {savedOverrides, Nothing}
    BY <1>3 DEF ClearRoles
  <2>3. QED BY <2>1, <2>2, <1>a, NothingSays DEF Says
<1>4. QED BY <1>1, <1>2, <1>3 DEF Enrol

\* Every step but a commit leaves roles where they are or takes them away.
LEMMA OnlyTakenAway ==
  ASSUME RolesAssumption, TypeOK, SingletonHeld,
         \A r \in RoomIDs, a \in Agents :
           holding'[r][a] = holding[r][a] \/ holding'[r][a] = NoKey
  PROVE  SingletonHeld'
BY DEF SingletonHeld, FixedSingletons, RolesAssumption, Keys

\* A commit of a fixed singleton has read so, and finds nobody else holding it.
LEMMA CommitHeld ==
  ASSUME RolesAssumption, SingletonInv, NEW h \in Handlers, CommitAssignment(h)
  PROVE  SingletonHeld'
<1> SUFFICES ASSUME NEW k \in FixedSingletons, NEW r \in RoomIDs,
                    NEW a \in Agents, NEW b \in Agents,
                    holding'[r][a] = k, holding'[r][b] = k
             PROVE  a = b
  BY DEF SingletonHeld, FixedSingletons
<1>1. holding \in [RoomIDs -> [Agents -> Keys \cup {NoKey}]] BY DEF SingletonInv, TypeOK
<1>2. CASE UNCHANGED holding BY <1>2 DEF SingletonInv, SingletonHeld
<1>3. CASE /\ ~Taken(serving[h])
           /\ holding' = [holding EXCEPT ![serving[h].room][serving[h].agent] = serving[h].key]
  <2>1. serving[h].key = k => \A c \in Agents \ {serving[h].agent} :
                                holding[serving[h].room][c] # k
    BY <1>3 DEF SingletonInv, Agreed, Honest, Taken, CommitAssignment
  <2>2. \A c \in Agents : holding'[r][c] = k =>
          \/ holding[r][c] = k
          \/ r = serving[h].room /\ c = serving[h].agent /\ serving[h].key = k
    BY <1>1, <1>3
  <2>3. \A c, d \in Agents : holding[r][c] = k /\ holding[r][d] = k => c = d
    BY DEF SingletonInv, SingletonHeld
  <2>4. QED BY <2>1, <2>2, <2>3
<1>4. QED BY <1>2, <1>3 DEF CommitAssignment

LEMMA HeldStep ==
  ASSUME RolesAssumption, SingletonInv, Next
  PROVE  SingletonHeld'
<1>0. holding \in [RoomIDs -> [Agents -> Keys \cup {NoKey}]]
  BY DEF SingletonInv, TypeOK
<1>1. CASE Restart BY <1>1 DEF Restart, people, SingletonInv, SingletonHeld
<1>2. ASSUME NEW h \in Handlers, Define(h) PROVE SingletonHeld'
  <2>1. CASE CascadeRoom(h)
    <3>1. PICK r \in serving[h].left : holding' = Unassigned(r, serving[h].key)
      BY <2>1 DEF CascadeRoom
    <3>2. QED BY <1>0, <3>1, OnlyTakenAway DEF Unassigned, SingletonInv
  <2>2. CASE \E force \in BOOLEAN : DeleteAll(h, force)
    BY <2>2, OnlyTakenAway DEF DeleteAll, SingletonInv
  <2>3. CASE UNCHANGED holding BY <2>3 DEF SingletonInv, SingletonHeld
  <2>4. QED
    BY <1>2, <2>1, <2>2, <2>3
    DEF Define, ReplaceRoles, DeleteRole, CheckEntry, Snapshot, RemoveKey, Swap, Find,
        Drop, Reset, CopyForSave, WriteOverrides, WriteCustom, people
<1>3. ASSUME NEW h \in Handlers, Assign(h) PROVE SingletonHeld'
  <2>1. CASE CommitAssignment(h) BY <2>1, CommitHeld
  <2>2. CASE \E a \in Agents, r \in RoomIDs : UnassignRole(h, a, r)
    BY <1>0, <2>2, OnlyTakenAway DEF UnassignRole, SingletonInv
  <2>3. CASE UNCHANGED holding BY <2>3 DEF SingletonInv, SingletonHeld
  <2>4. QED BY <1>3, <2>1, <2>2, <2>3 DEF Assign, AssignRole, LookUpCardinality, people
<1>4. ASSUME NEW h \in Handlers, Enrol(h) PROVE SingletonHeld'
  <2>1. CASE \E a \in Agents : Deregister(h, a)
    BY <1>0, <2>1, OnlyTakenAway DEF Deregister, SingletonInv
  <2>2. CASE ClearAll(h) BY <2>2, OnlyTakenAway DEF ClearAll, SingletonInv
  <2>3. CASE UNCHANGED holding BY <2>3 DEF SingletonInv, SingletonHeld
  <2>4. QED BY <1>4, <2>1, <2>2, <2>3 DEF Enrol, Register, ClearRoles, people
<1>5. QED BY <1>1, <1>2, <1>3, <1>4 DEF Next

LEMMA SingletonStep == RolesAssumption /\ SingletonInv /\ [Next]_vars => SingletonInv'
<1> SUFFICES ASSUME RolesAssumption, SingletonInv, [Next]_vars PROVE SingletonInv'
  OBVIOUS
<1>1. TypeOK' BY TypeStep DEF SingletonInv
<1>2. CASE UNCHANGED vars
  <2>1. UNCHANGED <<overrides, savedOverrides, serving, holding>>
    BY <1>2 DEF vars, people, definitions, tables
  <2>2. Agreed' /\ SingletonHeld'
    BY <2>1 DEF SingletonInv, Agreed, SingletonHeld, Says
  <2>3. QED BY <1>1, <2>2 DEF SingletonInv
<1>3. CASE Next
  <2>1. SingletonHeld' BY <1>3, HeldStep
  <2>2. CASE Restart
    <3>1. ASSUME NEW k \in FixedSingletons
          PROVE  /\ Says(overrides, k)' /\ Says(savedOverrides, k)'
                 /\ \A g \in Handlers : Honest(serving'[g], k)
      <4>1. UNCHANGED savedOverrides /\ overrides' \in {savedOverrides, Nothing}
        BY <2>2 DEF Restart
      <4>2. \A g \in Handlers : serving'[g] = Idle BY <2>2 DEF Restart
      <4>3. Says(savedOverrides, k) BY DEF SingletonInv, Agreed
      <4>4. QED BY <4>1, <4>2, <4>3, IdleHonest, NothingSays DEF Says
    <3>2. Agreed' BY <3>1 DEF Agreed, FixedSingletons
    <3>3. QED BY <1>1, <2>1, <3>2 DEF SingletonInv
  <2>3. CASE ~Restart
    <3>1. Agreed' BY <1>3, <2>3, AgreedDefine, AgreedAssign, AgreedEnrol DEF Next, SingletonInv
    <3>2. QED BY <1>1, <2>1, <3>1 DEF SingletonInv
  <2>4. QED BY <2>2, <2>3
<1>4. QED BY <1>2, <1>3

\* However assignments, replacements, deletions and restarts interleave, a
\* built-in singleton role that no client redefines has one holder per room.
THEOREM LeaderIsAlone == Spec => []SingletonHeld
<1>1. RolesAssumption BY RolesAssumption
<1>2. RolesAssumption /\ Init => SingletonInv BY TypeInit, AgreedInit DEF SingletonInv
<1>3. SingletonInv => SingletonHeld BY DEF SingletonInv
<1>4. QED BY <1>1, <1>2, <1>3, SingletonStep, PTL DEF Spec

-----------------------------------------------------------------------------
(* One request at a time: the roles that are held exist, agents and roles    *)
(* have different names, and a table follows memory unless its last write or  *)
(* read failed.                                                              *)

Saving == {"save", "write_overrides", "write_custom"}

Unnamed(p, unchecked) == \A k \in (DOMAIN p \cap CustomKeys) \ unchecked : ~AgentNameExists(k)
HeldWithin(ks) == \A r \in RoomIDs, a \in Agents : holding[r][a] \in ks \cup setBack \cup {NoKey}
HeldOnlyIn(k, rs) == \A r \in RoomIDs \ rs, a \in Agents : holding[r][a] # k

\* What the request of a handler has established for its next steps.
Ready(h) ==
  LET req == serving[h] IN
  /\ req.pc = "check" => Unnamed(req.payload, req.todo)
  /\ req.pc \in {"snapshot", "remove", "cascade", "swap"} => Unnamed(req.payload, {})
  /\ req.pc = "remove" => HeldWithin(Catalog \cup DOMAIN req.payload \cup req.todo)
  /\ req.pc = "cascade" =>
       HeldWithin(Catalog \cup DOMAIN req.payload \cup req.todo \cup {req.key})
  /\ req.pc = "swap" => HeldWithin(Catalog \cup DOMAIN req.payload)
  /\ req.pc \in {"find", "cascade", "unseat"} => req.key \in Keys
  /\ req.pc \in {"cascade", "unseat"} => HeldOnlyIn(req.key, req.left)
  /\ req.pc = "drop" => req.key \in Catalog \/ HeldOnlyIn(req.key, {})
  /\ req.pc \in {"reset", "clear_roles"} => HeldWithin({})
  /\ req.pc \in {"look_up", "commit"} => RoleExists(req.key)
  /\ req.pc \in {"write_overrides", "write_custom"} => req.copy = definitions
  /\ req.pc = "write_custom" => "overrides" \in failed \/ savedOverrides = overrides

\* The custom keys a start brings, as far as that can be told before it.
Stored == IF "custom" \in failed THEN DOMAIN custom ELSE DOMAIN savedCustom

\* What holds between the requests, and while one of them is half done: a role that is
\* held survives a restart, and an agent's name is no role's, saved or not, but for the
\* keys that a start after a failure has set back.
Kept ==
  /\ HeldWithin(Catalog \cup (DOMAIN custom \cap Stored))
  /\ \A a \in registered : NameOf[a] \notin Catalog \cup ((DOMAIN custom \cup Stored) \ setBack)
Even ==
  /\ "overrides" \in failed \/ savedOverrides = overrides
  /\ "custom" \in failed \/ savedCustom = custom
Solo == \A g, h \in Handlers : serving[g].pc # "idle" /\ serving[h].pc # "idle" => g = h
Synced == Even \/ \E h \in Handlers : serving[h].pc \in Saving
AloneInv == Kept /\ Solo /\ Synced /\ \A h \in Handlers : serving[h].pc = "idle" \/ Ready(h)

LEMMA KeptStill ==
  ASSUME Kept, UNCHANGED <<registered, holding, custom, savedCustom, setBack>>,
         "custom" \in failed' <=> "custom" \in failed
  PROVE  Kept'
BY DEF Kept, HeldWithin, Stored

\* A handler moves on, all others being idle.
LEMMA Moves ==
  ASSUME TypeOK, NEW h \in Handlers, \A g \in Handlers \ {h} : serving[g].pc = "idle",
         NEW req, Serve(h, req), Kept', req.pc = "idle" \/ Ready(h)',
         Even' \/ req.pc \in Saving
  PROVE  AloneInv'
<1>1. serving'[h] = req /\ \A g \in Handlers \ {h} : serving'[g].pc = "idle"
  BY DEF Serve, TypeOK
<1>2. Solo' BY <1>1 DEF Solo
<1>3. Synced' BY <1>1 DEF Synced
<1>4. \A g \in Handlers : serving'[g].pc = "idle" \/ Ready(g)' BY <1>1
<1>5. QED BY <1>2, <1>3, <1>4 DEF AloneInv

LEMMA MovesOn ==
  ASSUME TypeOK, AloneInv, NEW h \in Handlers,
         \A g \in Handlers \ {h} : serving[g].pc = "idle",
         serving[h].pc \notin Saving, UNCHANGED <<people, definitions, tables>>,
         NEW req, Serve(h, req), req.pc = "idle" \/ Ready(h)'
  PROVE  AloneInv'
<1>1. Even BY DEF AloneInv, Synced, Saving
<1>2. Even' BY <1>1 DEF Even, definitions, tables
<1>3. Kept' BY KeptStill DEF AloneInv, people, definitions, tables
<1>4. QED BY <1>2, <1>3, Moves

LEMMA Ends ==
  ASSUME TypeOK, AloneInv, NEW h \in Handlers,
         \A g \in Handlers \ {h} : serving[g].pc = "idle",
         serving[h].pc \notin Saving, UNCHANGED <<people, definitions, tables>>, Done(h)
  PROVE  AloneInv'
BY MovesOn DEF Done, Idle

\* PUT /roles, up to the swap of the maps.
LEMMA AloneReplace ==
  ASSUME RolesAssumption, TypeOK, AloneInv, NEW h \in Handlers,
         \A g \in Handlers \ {h} : serving[g].pc = "idle",
         \/ \E p \in Payloads, force \in BOOLEAN : ReplaceRoles(h, p, force)
         \/ CheckEntry(h) \/ Snapshot(h) \/ RemoveKey(h)
  PROVE  AloneInv'
<1>t. serving[h] \in Request BY DEF TypeOK
<1>s. /\ UNCHANGED <<people, definitions, tables>>
      /\ UNCHANGED <<registered, holding, custom, setBack>>
  BY DEF ReplaceRoles, CheckEntry, Snapshot, RemoveKey, people, definitions, tables
<1>r. serving[h].pc = "idle" \/ Ready(h) BY DEF AloneInv
<1>p. serving[h].pc \in {"idle", "check", "snapshot", "remove"}
  BY DEF ReplaceRoles, CheckEntry, Snapshot, RemoveKey, Free
<1>q. serving[h].pc \notin Saving BY <1>p DEF Saving
<1>d. ASSUME NEW req, Serve(h, req) PROVE serving'[h] = req
  BY <1>d DEF Serve, TypeOK
<1>1. ASSUME NEW p \in Payloads, NEW force \in BOOLEAN, ReplaceRoles(h, p, force)
      PROVE  AloneInv'
  <2> DEFINE to == IF DOMAIN p = {} THEN "snapshot" ELSE "check"
             req == [Idle EXCEPT !.pc = to, !.payload = p, !.force = force, !.todo = DOMAIN p]
  <2>1. Serve(h, req) BY <1>1 DEF ReplaceRoles
  <2>2. req.pc = to /\ req.payload = p /\ req.todo = DOMAIN p BY DEF Idle
  <2> HIDE DEF req
  <2>3. Ready(h)' BY <2>1, <2>2, <1>d DEF Ready, Unnamed
  <2>4. QED BY <2>1, <2>3, <1>s, <1>q, MovesOn
<1>2. CASE CheckEntry(h)
  <2>1. PICK k \in serving[h].todo :
          IF EntryAllowed(serving[h].payload, k)
          THEN Serve(h, [serving[h] EXCEPT !.todo = serving[h].todo \ {k},
                 !.pc = IF serving[h].todo = {k} THEN "snapshot" ELSE "check"])
          ELSE Done(h)
    BY <1>2 DEF CheckEntry
  <2>2. CASE Done(h) BY <2>2, <1>s, <1>q, Ends
  <2>3. CASE ~Done(h)
    <3> DEFINE to == IF serving[h].todo = {k} THEN "snapshot" ELSE "check"
               rest == serving[h].todo \ {k}
               req == [serving[h] EXCEPT !.todo = rest, !.pc = to]
    <3>1. Serve(h, req) /\ EntryAllowed(serving[h].payload, k) BY <2>1, <2>3
    <3>2. req.pc = to /\ req.payload = serving[h].payload /\ req.todo = rest
      BY <1>t DEF Request
    <3>3. Unnamed(serving[h].payload, serving[h].todo)
      BY <1>2, <1>r DEF CheckEntry, Ready
    <3>4. \A j \in (DOMAIN serving[h].payload \cap CustomKeys) \ rest : ~AgentNameExists(j)
      BY <3>1, <3>3 DEF EntryAllowed, Unnamed
    <3>5. to \in {"snapshot", "check"} /\ (to = "snapshot" => rest = {}) OBVIOUS
    <3> HIDE DEF req, to, rest
    <3>7. \A j \in (DOMAIN serving[h].payload \cap CustomKeys) \ rest : ~(AgentNameExists(j)')
      BY <3>4, <1>s DEF AgentNameExists
    <3>8. serving'[h] = req BY <3>1, <1>d
    <3>9. Ready(h)' BY <3>2, <3>5, <3>7, <3>8 DEF Ready, Unnamed
    <3>10. QED BY <3>1, <3>9, <1>s, <1>q, MovesOn
  <2>4. QED BY <2>2, <2>3
<1>3. CASE Snapshot(h)
  <2> DEFINE gone == (DOMAIN overrides \cup DOMAIN custom) \ DOMAIN serving[h].payload
             to == NextRemoval(gone)
             req == [serving[h] EXCEPT !.todo = gone, !.pc = to]
  <2>1. Serve(h, req) BY <1>3 DEF Snapshot
  <2>2. req.pc = to /\ req.payload = serving[h].payload /\ req.todo = gone
    BY <1>t DEF Request
  <2>3. Unnamed(serving[h].payload, {}) BY <1>3, <1>r DEF Snapshot, Ready
  <2>4. HeldWithin(Catalog \cup DOMAIN serving[h].payload \cup gone)
    BY DEF AloneInv, Kept, HeldWithin
  <2>5. to \in {"swap", "remove"} /\ (to = "swap" => gone = {}) BY DEF NextRemoval
  <2> HIDE DEF req, to, gone
  <2>6. serving'[h] = req BY <2>1, <1>d
  <2>7. Ready(h)'
    BY <2>2, <2>3, <2>4, <2>5, <2>6, <1>s DEF Ready, Unnamed, HeldWithin, AgentNameExists
  <2>8. QED BY <2>1, <2>7, <1>s, <1>q, MovesOn
<1>4. CASE RemoveKey(h)
  <2>1. PICK k \in serving[h].todo :
          IF k \in Catalog \/ RoomsWithRole(k) = {}
          THEN Serve(h, [serving[h] EXCEPT !.todo = serving[h].todo \ {k},
                                       !.pc = NextRemoval(serving[h].todo \ {k})])
          ELSE IF serving[h].force
          THEN Serve(h, [serving[h] EXCEPT !.todo = serving[h].todo \ {k}, !.pc = "cascade",
                                       !.key = k, !.left = RoomsWithRole(k)])
          ELSE Done(h)
    BY <1>4 DEF RemoveKey
  <2> DEFINE rest == serving[h].todo \ {k}
  <2>2. /\ Unnamed(serving[h].payload, {})
        /\ HeldWithin(Catalog \cup DOMAIN serving[h].payload \cup serving[h].todo)
    BY <1>4, <1>r DEF RemoveKey, Ready
  <2>3. k \in Keys BY <1>t DEF Request
  <2>4. CASE k \in Catalog \/ RoomsWithRole(k) = {}
    <3> DEFINE to == NextRemoval(rest)
               req == [serving[h] EXCEPT !.todo = rest, !.pc = to]
    <3>1. Serve(h, req) BY <2>1, <2>4
    <3>2. req.pc = to /\ req.payload = serving[h].payload /\ req.todo = rest
      BY <1>t DEF Request
    <3>3. HeldWithin(Catalog \cup DOMAIN serving[h].payload \cup rest)
      BY <2>2, <2>4 DEF HeldWithin, RoomsWithRole
    <3>4. to \in {"swap", "remove"} /\ (to = "swap" => rest = {}) BY DEF NextRemoval
    <3> HIDE DEF req, to, rest
    <3>5. serving'[h] = req BY <3>1, <1>d
    <3>6. Ready(h)'
      BY <2>2, <3>2, <3>3, <3>4, <3>5, <1>s DEF Ready, Unnamed, HeldWithin, AgentNameExists
    <3>7. QED BY <3>1, <3>6, <1>s, <1>q, MovesOn
  <2>5. CASE ~(k \in Catalog \/ RoomsWithRole(k) = {}) /\ serving[h].force
    <3> DEFINE rs == RoomsWithRole(k)
               req == [serving[h] EXCEPT !.todo = rest, !.pc = "cascade", !.key = k, !.left = rs]
    <3>1. Serve(h, req) BY <2>1, <2>5
    <3>2. /\ req.pc = "cascade" /\ req.payload = serving[h].payload /\ req.todo = rest
          /\ req.key = k /\ req.left = rs
      BY <1>t DEF Request
    <3>3. HeldOnlyIn(k, rs) BY DEF HeldOnlyIn, RoomsWithRole
    <3>4. HeldWithin(Catalog \cup DOMAIN serving[h].payload \cup rest \cup {k})
      BY <2>2 DEF HeldWithin
    <3> HIDE DEF req, rs, rest
    <3>5. serving'[h] = req BY <3>1, <1>d
    <3>6. Ready(h)'
      BY <2>2, <2>3, <3>2, <3>3, <3>4, <3>5, <1>s
      DEF Ready, Unnamed, HeldWithin, HeldOnlyIn, AgentNameExists
    <3>7. QED BY <3>1, <3>6, <1>s, <1>q, MovesOn
  <2>6. CASE Done(h) BY <2>6, <1>s, <1>q, Ends
  <2>7. QED BY <2>1, <2>4, <2>5, <2>6
<1>5. QED BY <1>1, <1>2, <1>3, <1>4

\* A room less to clear, for a replacement or a deletion.
LEMMA AloneCascade ==
  ASSUME RolesAssumption, TypeOK, AloneInv, NEW h \in Handlers,
         \A g \in Handlers \ {h} : serving[g].pc = "idle", CascadeRoom(h)
  PROVE  AloneInv'
<1>t. /\ serving[h] \in Request /\ NoKey \notin Keys
      /\ holding \in [RoomIDs -> [Agents -> Keys \cup {NoKey}]]
  BY DEF TypeOK, RolesAssumption
<1>p. serving[h].pc \in {"cascade", "unseat"} /\ Ready(h)
  BY DEF CascadeRoom, AloneInv
<1>1. PICK r \in serving[h].left :
        /\ holding' = Unassigned(r, serving[h].key)
        /\ Serve(h, [serving[h] EXCEPT !.left = serving[h].left \ {r},
                   !.pc = IF serving[h].left # {r} THEN serving[h].pc
                          ELSE IF serving[h].pc = "unseat" THEN "drop"
                          ELSE NextRemoval(serving[h].todo)])
  BY DEF CascadeRoom
<1> DEFINE to == IF serving[h].left # {r} THEN serving[h].pc
                 ELSE IF serving[h].pc = "unseat" THEN "drop"
                 ELSE NextRemoval(serving[h].todo)
           rest == serving[h].left \ {r}
           req == [serving[h] EXCEPT !.left = rest, !.pc = to]
<1>2. Serve(h, req) BY <1>1
<1>3. /\ req.pc = to /\ req.payload = serving[h].payload /\ req.todo = serving[h].todo
      /\ req.key = serving[h].key /\ req.left = rest
  BY <1>t DEF Request
<1>4. /\ to \in {"cascade", "unseat", "drop", "remove", "swap"}
      /\ to \in {"cascade", "unseat"} => to = serving[h].pc
      /\ to \in {"drop", "remove", "swap"} => rest = {}
      /\ to = "drop" => serving[h].pc = "unseat"
      /\ to \in {"remove", "swap"} => serving[h].pc = "cascade"
      /\ to = "swap" => serving[h].todo = {}
  BY <1>p DEF NextRemoval
<1>5. serving'[h] = req BY <1>2 DEF Serve, TypeOK
<1>6. \A q \in RoomIDs, a \in Agents :
        holding'[q][a] = IF q = r /\ holding[q][a] = serving[h].key THEN NoKey ELSE holding[q][a]
  BY <1>1, <1>t DEF Unassigned
<1>7. serving[h].key \in Keys /\ HeldOnlyIn(serving[h].key, serving[h].left)
  BY <1>p DEF Ready
<1>8. \A q \in RoomIDs \ rest, a \in Agents : holding'[q][a] # serving[h].key
  BY <1>6, <1>7, <1>t DEF HeldOnlyIn
<1>9. ASSUME NEW ks, HeldWithin(ks)
      PROVE  \A q \in RoomIDs, a \in Agents : holding'[q][a] \in ks \cup setBack \cup {NoKey}
  BY <1>9, <1>6 DEF HeldWithin
<1>s. UNCHANGED <<registered, overrides, custom, savedOverrides, savedCustom, failed, setBack>>
  BY DEF CascadeRoom, definitions, tables
<1>10. Kept'
  <2> DEFINE ks == Catalog \cup (DOMAIN custom \cap Stored)
  <2>1. HeldWithin(ks) BY DEF AloneInv, Kept
  <2>2. \A q \in RoomIDs, a \in Agents : holding'[q][a] \in ks \cup setBack \cup {NoKey}
    BY <2>1, <1>9
  <2>3. UNCHANGED Stored BY <1>s DEF Stored
  <2>4. QED BY <2>2, <2>3, <1>s DEF AloneInv, Kept, HeldWithin
<1>11. serving[h].pc = "cascade" =>
         /\ Unnamed(serving[h].payload, {})
         /\ \A q \in RoomIDs, a \in Agents :
              holding'[q][a] \in Catalog \cup DOMAIN serving[h].payload \cup serving[h].todo
                                   \cup {serving[h].key} \cup setBack \cup {NoKey}
  <2>1. serving[h].pc = "cascade" =>
          /\ Unnamed(serving[h].payload, {})
          /\ HeldWithin(Catalog \cup DOMAIN serving[h].payload \cup serving[h].todo
                          \cup {serving[h].key})
    BY <1>p DEF Ready
  <2>2. QED BY <2>1, <1>9
<1> HIDE DEF req, to, rest
<1>12. Ready(h)'
  BY <1>3, <1>4, <1>5, <1>7, <1>8, <1>11, <1>s
  DEF Ready, HeldWithin, HeldOnlyIn, Unnamed, AgentNameExists
<1>13. Even'
  BY <1>p, <1>s DEF AloneInv, Synced, Saving, Even
<1>14. QED BY <1>2, <1>10, <1>12, <1>13, Moves

\* The maps change in memory, and are about to be saved.
LEMMA AloneChange ==
  ASSUME RolesAssumption, TypeOK, AloneInv, NEW h \in Handlers,
         \A g \in Handlers \ {h} : serving[g].pc = "idle",
         Swap(h) \/ Drop(h) \/ Reset(h)
  PROVE  AloneInv'
<1>t. /\ serving[h] \in Request /\ holding \in [RoomIDs -> [Agents -> Keys \cup {NoKey}]]
      /\ DOMAIN custom \subseteq CustomKeys /\ Catalog \cap CustomKeys = {}
      /\ NoKey \notin Keys /\ registered \subseteq Agents
  BY DefinitionsType DEF TypeOK, RolesAssumption
<1>d. Ready(h) /\ serving[h].pc \in {"swap", "drop", "reset"}
  BY DEF Swap, Drop, Reset, AloneInv
<1>s. UNCHANGED <<registered, holding, savedCustom, failed, setBack>> /\ GoTo(h, "save")
  BY DEF Swap, Drop, Reset, people, tables
<1>c. "custom" \in failed \/ custom = savedCustom
  BY <1>d DEF AloneInv, Synced, Saving, Even
<1>k. /\ \A r \in RoomIDs, a \in Agents :
           holding[r][a] \in Catalog \cup DOMAIN custom \cup setBack \cup {NoKey}
      /\ \A a \in registered : NameOf[a] \notin Catalog \cup (DOMAIN custom \ setBack)
  BY DEF AloneInv, Kept, HeldWithin
<1>1. /\ \A r \in RoomIDs, a \in Agents :
           holding[r][a] \in Catalog \cup DOMAIN custom' \cup setBack \cup {NoKey}
      /\ \A a \in registered : NameOf[a] \notin DOMAIN custom' \ setBack
  <2>1. CASE Swap(h)
    <3>1. DOMAIN custom' = DOMAIN serving[h].payload \cap CustomKeys BY <2>1 DEF Swap, Only
    <3>2. /\ HeldWithin(Catalog \cup DOMAIN serving[h].payload)
          /\ Unnamed(serving[h].payload, {})
      BY <2>1, <1>d DEF Swap, Ready
    <3>3. QED BY <3>1, <3>2, <1>t, <1>k DEF HeldWithin, Unnamed, AgentNameExists
  <2>2. CASE Drop(h)
    <3>1. DOMAIN custom' = DOMAIN custom \ {serving[h].key} BY <2>2 DEF Drop, Without
    <3>2. serving[h].key \in Catalog \/ HeldOnlyIn(serving[h].key, {})
      BY <2>2, <1>d DEF Drop, Ready
    <3>3. QED BY <3>1, <3>2, <1>t, <1>k DEF HeldOnlyIn
  <2>3. CASE Reset(h)
    <3>1. HeldWithin({}) BY <2>3, <1>d DEF Reset, Ready
    <3>2. QED BY <2>3, <3>1, NothingType DEF Reset, HeldWithin
  <2>4. QED BY <2>1, <2>2, <2>3
<1>2. Kept'
  <2>1. CASE "custom" \in failed
    <3>1. Stored' = DOMAIN custom' BY <2>1, <1>s DEF Stored
    <3>2. QED BY <3>1, <1>1, <1>k, <1>s DEF Kept, HeldWithin
  <2>2. CASE "custom" \notin failed
    <3>1. Stored' = DOMAIN custom BY <2>2, <1>s, <1>c DEF Stored
    <3>2. QED BY <3>1, <1>1, <1>k, <1>s DEF Kept, HeldWithin
  <2>3. QED BY <2>1, <2>2
<1> DEFINE req == [Idle EXCEPT !.pc = "save"]
<1>3. Serve(h, req) /\ req.pc = "save" BY <1>s DEF GoTo, Idle
<1> HIDE DEF req
<1>4. serving'[h] = req BY <1>3 DEF Serve, TypeOK
<1>5. Ready(h)' BY <1>3, <1>4 DEF Ready
<1>6. req.pc \in Saving BY <1>3 DEF Saving
<1>7. QED BY <1>2, <1>3, <1>5, <1>6, Moves

\* saveRoles.
LEMMA AloneSave ==
  ASSUME RolesAssumption, TypeOK, AloneInv, NEW h \in Handlers,
         \A g \in Handlers \ {h} : serving[g].pc = "idle",
         CopyForSave(h) \/ WriteOverrides(h) \/ WriteCustom(h)
  PROVE  AloneInv'
<1>t. serving[h] \in Request BY DEF TypeOK
<1>d. Ready(h) BY DEF CopyForSave, WriteOverrides, WriteCustom, AloneInv
<1>s. UNCHANGED <<registered, holding, overrides, custom>>
  BY DEF CopyForSave, WriteOverrides, WriteCustom, people, definitions
<1>1. CASE CopyForSave(h)
  <2> DEFINE req == [Idle EXCEPT !.pc = "write_overrides", !.copy = <<overrides, custom>>]
  <2>1. Serve(h, req) BY <1>1 DEF CopyForSave
  <2>2. req.pc = "write_overrides" /\ req.copy = <<overrides, custom>> BY DEF Idle
  <2> HIDE DEF req
  <2>3. serving'[h] = req BY <2>1 DEF Serve, TypeOK
  <2>4. Ready(h)' BY <2>2, <2>3, <1>s DEF Ready, definitions
  <2>5. Kept' BY <1>1, <1>s, KeptStill DEF CopyForSave, tables, AloneInv
  <2>6. QED BY <2>1, <2>2, <2>4, <2>5, Moves DEF Saving
<1>2. CASE WriteOverrides(h)
  <2> DEFINE req == [serving[h] EXCEPT !.pc = "write_custom"]
  <2>1. Serve(h, req) BY <1>2 DEF WriteOverrides
  <2>2. req.pc = "write_custom" /\ req.copy = serving[h].copy BY <1>t DEF Request
  <2>3. serving[h].copy = <<overrides, custom>>
    BY <1>2, <1>d DEF WriteOverrides, Ready, definitions
  <2> HIDE DEF req
  <2>4. serving'[h] = req BY <2>1 DEF Serve, TypeOK
  <2>5. "overrides" \in failed' \/ savedOverrides' = overrides
    BY <1>2, <2>3 DEF WriteOverrides, Saved, Unsaved
  <2>6. Ready(h)' BY <2>2, <2>3, <2>4, <2>5, <1>s DEF Ready, definitions
  <2>7. UNCHANGED <<savedCustom, setBack>> /\ ("custom" \in failed' <=> "custom" \in failed)
    BY <1>2 DEF WriteOverrides, Saved, Unsaved
  <2>8. Kept' BY <2>7, <1>s, KeptStill DEF AloneInv
  <2>9. QED BY <2>1, <2>2, <2>6, <2>8, Moves DEF Saving
<1>3. CASE WriteCustom(h)
  <2>1. /\ serving[h].copy = <<overrides, custom>>
        /\ "overrides" \in failed \/ savedOverrides = overrides
    BY <1>3, <1>d DEF WriteCustom, Ready, definitions
  <2>2. /\ UNCHANGED <<savedOverrides, setBack>>
        /\ "overrides" \in failed' <=> "overrides" \in failed
        /\ "custom" \in failed' \/ savedCustom' = custom
    BY <1>3, <2>1 DEF WriteCustom, Saved, Unsaved
  <2>3. Even' BY <2>1, <2>2, <1>s DEF Even
  <2>4. Kept'
    <3>1. Stored' = DOMAIN custom BY <2>2, <1>s DEF Stored
    <3>2. QED BY <3>1, <2>2, <1>s DEF AloneInv, Kept, HeldWithin
  <2>5. Serve(h, Idle) /\ Idle.pc = "idle" BY <1>3 DEF WriteCustom, Done, Idle
  <2>6. QED BY <2>3, <2>4, <2>5, Moves
<1>4. QED BY <1>1, <1>2, <1>3

\* Deletions, up to the change of the maps.
LEMMA AloneDelete ==
  ASSUME RolesAssumption, TypeOK, AloneInv, NEW h \in Handlers,
         \A g \in Handlers \ {h} : serving[g].pc = "idle",
         \/ \E k \in Keys, force \in BOOLEAN : DeleteRole(h, k, force)
         \/ Find(h)
         \/ \E force \in BOOLEAN : DeleteAll(h, force)
  PROVE  AloneInv'
<1>t. serving[h] \in Request BY DEF TypeOK
<1>r. serving[h].pc = "idle" \/ Ready(h) BY DEF AloneInv
<1>p. serving[h].pc \in {"idle", "find"} BY DEF DeleteRole, Find, DeleteAll, Free
<1>q. serving[h].pc \notin Saving BY <1>p DEF Saving
<1>d. ASSUME NEW req, Serve(h, req) PROVE serving'[h] = req
  BY <1>d DEF Serve, TypeOK
<1>1. ASSUME NEW k \in Keys, NEW force \in BOOLEAN, DeleteRole(h, k, force) PROVE AloneInv'
  <2> DEFINE req == [Idle EXCEPT !.pc = "find", !.key = k, !.force = force]
  <2>1. Serve(h, req) /\ UNCHANGED <<people, definitions, tables>> BY <1>1 DEF DeleteRole
  <2>2. req.pc = "find" /\ req.key = k BY DEF Idle
  <2> HIDE DEF req
  <2>3. Ready(h)' BY <2>1, <2>2, <1>d DEF Ready
  <2>4. QED BY <2>1, <2>3, <1>q, MovesOn
<1>2. CASE Find(h)
  <2>s. UNCHANGED <<people, definitions, tables>> BY <1>2 DEF Find
  <2>k. serving[h].key \in Keys BY <1>2, <1>r DEF Find, Ready
  <2> DEFINE rs == RoomsWithRole(serving[h].key)
             drop == [serving[h] EXCEPT !.pc = "drop"]
             take == [serving[h] EXCEPT !.pc = "unseat", !.left = rs]
  <2>1. IF serving[h].key \in Catalog \/ rs = {} THEN Serve(h, drop)
        ELSE IF serving[h].force THEN Serve(h, take) ELSE Done(h)
    BY <1>2 DEF Find
  <2>2. /\ drop.pc = "drop" /\ drop.key = serving[h].key
        /\ take.pc = "unseat" /\ take.key = serving[h].key /\ take.left = rs
    BY <1>t DEF Request
  <2>3. \A r \in RoomIDs \ rs, a \in Agents : holding[r][a] # serving[h].key
    BY DEF RoomsWithRole
  <2> HIDE DEF drop, take, rs
  <2>4. CASE Serve(h, drop) /\ (serving[h].key \in Catalog \/ rs = {})
    <3>1. Ready(h)' BY <2>2, <2>3, <2>4, <2>s, <1>d DEF Ready, HeldOnlyIn, people
    <3>2. QED BY <2>4, <3>1, <2>s, <1>q, MovesOn
  <2>5. CASE Serve(h, take)
    <3>1. Ready(h)' BY <2>2, <2>3, <2>5, <2>k, <2>s, <1>d DEF Ready, HeldOnlyIn, people
    <3>2. QED BY <2>5, <3>1, <2>s, <1>q, MovesOn
  <2>6. CASE Done(h) BY <2>6, <2>s, <1>q, Ends
  <2>7. QED BY <2>1, <2>4, <2>5, <2>6
<1>3. ASSUME NEW force \in BOOLEAN, DeleteAll(h, force) PROVE AloneInv'
  <2>1. /\ \A r \in RoomIDs, a \in Agents : holding'[r][a] = NoKey
        /\ UNCHANGED <<registered, definitions, tables>> /\ GoTo(h, "reset")
    BY <1>3 DEF DeleteAll
  <2> DEFINE req == [Idle EXCEPT !.pc = "reset"]
  <2>2. Serve(h, req) /\ req.pc = "reset" BY <2>1 DEF GoTo, Idle
  <2> HIDE DEF req
  <2>3. Ready(h)' BY <2>1, <2>2, <1>d DEF Ready, HeldWithin
  <2>4. UNCHANGED <<custom, savedCustom, failed, setBack>> BY <2>1 DEF definitions, tables
  <2>5. Kept' BY <2>1, <2>4 DEF AloneInv, Kept, HeldWithin, Stored
  <2>6. Even' BY <2>1, <1>q DEF AloneInv, Synced, Saving, Even, definitions, tables
  <2>7. QED BY <2>2, <2>3, <2>5, <2>6, Moves
<1>4. QED BY <1>1, <1>2, <1>3

LEMMA AloneDefine ==
  ASSUME RolesAssumption, TypeOK, AloneInv, NEW h \in Handlers,
         \A g \in Handlers \ {h} : serving[g].pc = "idle", Define(h)
  PROVE  AloneInv'
BY AloneReplace, AloneCascade, AloneChange, AloneSave, AloneDelete DEF Define

LEMMA AloneAssign ==
  ASSUME RolesAssumption, TypeOK, AloneInv, NEW h \in Handlers,
         \A g \in Handlers \ {h} : serving[g].pc = "idle", Assign(h)
  PROVE  AloneInv'
<1>t. serving[h] \in Request /\ holding \in [RoomIDs -> [Agents -> Keys \cup {NoKey}]]
  BY DEF TypeOK
<1>r. serving[h].pc = "idle" \/ Ready(h) BY DEF AloneInv
<1>p. serving[h].pc \in {"idle", "look_up", "commit"}
  BY DEF Assign, AssignRole, UnassignRole, LookUpCardinality, CommitAssignment, Free
<1>q. Even /\ serving[h].pc \notin Saving
  BY <1>p DEF AloneInv, Synced, Saving
<1>d. ASSUME NEW req, Serve(h, req) PROVE serving'[h] = req
  BY <1>d DEF Serve, TypeOK
<1>s. /\ UNCHANGED <<registered, definitions, tables>>
      /\ UNCHANGED <<overrides, custom, savedOverrides, savedCustom, failed, setBack>>
  BY DEF Assign, AssignRole, UnassignRole, LookUpCardinality, CommitAssignment, people,
         definitions, tables
<1>k. Kept /\ Even' /\ UNCHANGED Stored BY <1>q, <1>s DEF AloneInv, Even, Stored
<1>1. ASSUME NEW a \in Agents, NEW r \in RoomIDs, UnassignRole(h, a, r) PROVE AloneInv'
  <2>1. UNCHANGED serving /\ serving[h].pc = "idle" BY <1>1 DEF UnassignRole, Free
  <2>2. \A q \in RoomIDs, b \in Agents : holding'[q][b] \in {holding[q][b], NoKey}
    BY <1>1, <1>t DEF UnassignRole
  <2>3. Kept' BY <2>2, <1>k, <1>s DEF Kept, HeldWithin
  <2>4. Solo' /\ \A g \in Handlers : serving'[g].pc = "idle" BY <2>1 DEF Solo
  <2>5. QED BY <2>3, <2>4, <1>k DEF AloneInv, Synced
<1>2. ASSUME NEW a \in Agents, NEW r \in RoomIDs, NEW k \in Keys, AssignRole(h, a, r, k)
      PROVE  AloneInv'
  <2> DEFINE req == [Idle EXCEPT !.pc = "look_up", !.agent = a, !.room = r, !.key = k]
  <2>1. /\ Serve(h, req) /\ RoleExists(k) /\ UNCHANGED <<people, definitions, tables>>
    BY <1>2 DEF AssignRole
  <2>2. req.pc = "look_up" /\ req.key = k BY DEF Idle
  <2> HIDE DEF req
  <2>3. Ready(h)' BY <2>1, <2>2, <1>d, <1>s DEF Ready, RoleExists
  <2>4. QED BY <2>1, <2>3, <1>q, MovesOn
<1>3. CASE LookUpCardinality(h)
  <2> DEFINE card == CardinalityOf(serving[h].key)
             req == [serving[h] EXCEPT !.pc = "commit", !.cardinality = card]
  <2>1. Serve(h, req) /\ UNCHANGED <<people, definitions, tables>>
    BY <1>3 DEF LookUpCardinality
  <2> HIDE DEF card
  <2>2. req.pc = "commit" /\ req.key = serving[h].key BY <1>t DEF Request
  <2>3. RoleExists(serving[h].key) BY <1>3, <1>r DEF LookUpCardinality, Ready
  <2> HIDE DEF req
  <2>4. Ready(h)' BY <2>1, <2>2, <2>3, <1>d, <1>s DEF Ready, RoleExists
  <2>5. QED BY <2>1, <2>4, <1>q, MovesOn
<1>4. CASE CommitAssignment(h)
  <2>1. RoleExists(serving[h].key) BY <1>4, <1>r DEF CommitAssignment, Ready
  <2>2. \A q \in RoomIDs, b \in Agents : holding'[q][b] \in {holding[q][b], serving[h].key}
    BY <1>4, <1>t DEF CommitAssignment
  <2>3. Stored = DOMAIN custom BY <1>q DEF Even, Stored
  <2>4. Kept' BY <2>1, <2>2, <2>3, <1>k, <1>s DEF Kept, HeldWithin, RoleExists
  <2>5. Serve(h, Idle) /\ Idle.pc = "idle" BY <1>4 DEF CommitAssignment, Done, Idle
  <2>6. QED BY <2>4, <2>5, <1>k, Moves
<1>5. QED BY <1>1, <1>2, <1>3, <1>4 DEF Assign

LEMMA AloneEnrol ==
  ASSUME RolesAssumption, TypeOK, AloneInv, NEW h \in Handlers,
         \A g \in Handlers \ {h} : serving[g].pc = "idle", Enrol(h)
  PROVE  AloneInv'
<1>t. holding \in [RoomIDs -> [Agents -> Keys \cup {NoKey}]] BY DEF TypeOK
<1>q. serving[h].pc \in {"idle", "clear_roles"} /\ Even
  BY DEF Enrol, Register, Deregister, ClearAll, ClearRoles, Free, AloneInv, Synced, Saving
<1>c. Stored = DOMAIN custom BY <1>q DEF Even, Stored
<1>k. Kept BY DEF AloneInv
<1>1. ASSUME NEW a \in Agents, Register(h, a) \/ Deregister(h, a) PROVE AloneInv'
  <2>1. /\ UNCHANGED <<serving, overrides, custom, savedOverrides, savedCustom, failed, setBack>>
        /\ serving[h].pc = "idle"
    BY <1>1 DEF Register, Deregister, Free, definitions, tables
  <2>2. \A q \in RoomIDs, b \in Agents : holding'[q][b] \in {holding[q][b], NoKey}
    BY <1>1, <1>t DEF Register, Deregister
  <2>3. \A b \in registered' : b \in registered \/ NameOf[b] \notin Catalog \cup DOMAIN custom
    BY <1>1 DEF Register, Deregister, RoleExists
  <2>4. Kept' BY <2>1, <2>2, <2>3, <1>k, <1>c DEF Kept, HeldWithin, Stored
  <2>5. Solo' /\ \A g \in Handlers : serving'[g].pc = "idle" BY <2>1 DEF Solo
  <2>6. Even' BY <2>1, <1>q DEF Even
  <2>7. QED BY <2>4, <2>5, <2>6 DEF AloneInv, Synced
<1>2. CASE ClearAll(h)
  <2>1. /\ \A r \in RoomIDs, a \in Agents : holding'[r][a] = NoKey
        /\ registered' = {} /\ UNCHANGED <<definitions, tables>> /\ GoTo(h, "clear_roles")
    BY <1>2 DEF ClearAll
  <2> DEFINE req == [Idle EXCEPT !.pc = "clear_roles"]
  <2>2. Serve(h, req) /\ req.pc = "clear_roles" BY <2>1 DEF GoTo, Idle
  <2> HIDE DEF req
  <2>3. serving'[h] = req BY <2>2 DEF Serve, TypeOK
  <2>4. Ready(h)' BY <2>1, <2>2, <2>3 DEF Ready, HeldWithin
  <2>5. Kept' BY <2>1 DEF Kept, HeldWithin
  <2>6. Even' BY <2>1, <1>q DEF Even, definitions, tables
  <2>7. QED BY <2>2, <2>4, <2>5, <2>6, Moves
<1>3. CASE ClearRoles(h)
  <2>1. HeldWithin({}) BY <1>3 DEF ClearRoles, AloneInv, Ready
  <2>2. /\ UNCHANGED <<registered, holding, setBack>> /\ Done(h)
        /\ overrides' = Nothing /\ custom' = Nothing
        /\ "overrides" \in failed' \/ savedOverrides' = Nothing
        /\ "custom" \in failed' \/ savedCustom' = Nothing
    BY <1>3 DEF ClearRoles, people
  <2>3. DOMAIN custom' = {} /\ Stored' = {} BY <2>2, NothingType DEF Stored
  <2>4. Kept' BY <2>1, <2>2, <2>3, <1>k DEF Kept, HeldWithin
  <2>5. Even' BY <2>2 DEF Even
  <2>6. Serve(h, Idle) /\ Idle.pc = "idle" BY <2>2 DEF Done, Idle
  <2>7. QED BY <2>4, <2>5, <2>6, Moves
<1>4. QED BY <1>1, <1>2, <1>3 DEF Enrol

\* What a start takes or brings back after a failure is set back, and after none the
\* tables hold what is held.
LEMMA AloneRestart ==
  ASSUME TypeOK, AloneInv, Restart
  PROVE  AloneInv'
<1>1. /\ UNCHANGED <<registered, holding, savedOverrides, savedCustom>>
      /\ \A h \in Handlers : serving'[h].pc = "idle"
  BY DEF Restart, people, Idle
<1>2. /\ setBack \subseteq setBack'
      /\ "custom" \in failed \cup failed' =>
           \A k \in CustomKeys : (k \in DOMAIN custom) # (k \in DOMAIN custom') => k \in setBack'
  BY DEF Restart
<1>3. /\ \/ custom' = savedCustom /\ failed' = {}
         \/ DOMAIN custom' = {} /\ "custom" \in failed'
      /\ "overrides" \in failed' \/ overrides' = savedOverrides
  BY NothingType DEF Restart
<1>4. DOMAIN custom \subseteq CustomKeys /\ DOMAIN savedCustom \subseteq CustomKeys
  BY DefinitionsType DEF TypeOK
<1>5. Kept
  BY DEF AloneInv
<1>6. Stored' = DOMAIN custom' BY <1>1, <1>3 DEF Stored
<1>7. \A k : k \in DOMAIN custom \cap Stored => k \in DOMAIN custom' \cup setBack'
  BY <1>2, <1>3, <1>4 DEF Stored
<1>8. \A k \in DOMAIN custom' \ setBack' : k \in (DOMAIN custom \cup Stored) \ setBack
  BY <1>2, <1>3, <1>4 DEF Stored
<1>9. Kept' BY <1>1, <1>2, <1>5, <1>6, <1>7, <1>8 DEF Kept, HeldWithin
<1>10. Even' BY <1>1, <1>3 DEF Even
<1>11. QED BY <1>1, <1>9, <1>10 DEF AloneInv, Solo, Synced

-----------------------------------------------------------------------------
(* The three parts of MCRolesRaces.                                        *)

\* The role store beside the others, which leave it alone.
OneClientInv == TypeOK /\ (Alone => AloneInv)

LEMMA OneClientInit == RolesAssumption /\ RacesInit => OneClientInv
<1> SUFFICES ASSUME RolesAssumption, RacesInit PROVE OneClientInv OBVIOUS
<1>1. Init /\ TypeOK BY TypeInit DEF RacesInit
<1>2. /\ Even /\ registered = {}
      /\ \A h \in Handlers : serving[h].pc = "idle"
      /\ \A r \in RoomIDs, a \in Agents : holding[r][a] = NoKey
  BY <1>1 DEF Init, Even, Idle
<1>3. QED BY <1>1, <1>2 DEF OneClientInv, AloneInv, Kept, Solo, Synced, HeldWithin

LEMMA OneClientStep == RolesAssumption /\ OneClientInv /\ [RacesNext]_racesVars => OneClientInv'
<1> SUFFICES ASSUME RolesAssumption, OneClientInv, [RacesNext]_racesVars PROVE OneClientInv'
  OBVIOUS
<1>m. UNCHANGED mode BY DEF RacesNext, racesVars
<1>1. CASE Change
  <2>1. Next BY <1>1 DEF Change, Next
  <2>2. TypeOK' BY <2>1, TypeStep DEF OneClientInv
  <2>3. ASSUME Alone PROVE AloneInv'
    <3>1. CASE Restart BY <3>1, <2>3, AloneRestart DEF OneClientInv
    <3>2. ASSUME NEW h \in Handlers, MayServe(h), Define(h) \/ Assign(h) \/ Enrol(h)
          PROVE  AloneInv'
      BY <3>2, <2>3, AloneDefine, AloneAssign, AloneEnrol DEF OneClientInv, MayServe
    <3>3. QED BY <1>1, <3>1, <3>2 DEF Change
  <2>4. QED BY <2>2, <2>3, <1>m DEF OneClientInv, Alone
<1>2. CASE UNCHANGED vars
  <2>1. UNCHANGED <<registered, holding, overrides, custom, savedOverrides, savedCustom, serving,
                    failed, setBack>>
    BY <1>2 DEF vars, people, definitions, tables
  <2>2. TypeOK' BY <2>1 DEF OneClientInv, TypeOK
  <2>3. Kept <=> Kept' BY <2>1 DEF Kept, HeldWithin, Stored
  <2>4. \A h \in Handlers : Ready(h) <=> Ready(h)'
    BY <2>1 DEF Ready, Unnamed, HeldWithin, HeldOnlyIn, AgentNameExists, RoleExists, definitions
  <2>5. AloneInv => AloneInv'
    BY <2>1, <2>3, <2>4 DEF AloneInv, Solo, Synced, Even
  <2>6. QED BY <2>2, <2>5, <1>m DEF OneClientInv, Alone
<1>3. QED BY <1>1, <1>2 DEF RacesNext, racesVars

\* With one request at a time every role that is held exists, through replacements,
\* deletions, restarts at any point, registrations and prunes; and no agent is called
\* like a role; but for the keys that a start after a failed write or read has set back.
THEOREM RolesFit == RacesSpec => []RolesFitForOne
<1>1. RolesAssumption BY RolesAssumption
<1>2. OneClientInv => RolesFitForOne
  <2> SUFFICES ASSUME AloneInv PROVE AssignedRolesExist /\ NamesApart
    BY DEF OneClientInv, RolesFitForOne
  <2>1. AssignedRolesExist BY DEF AloneInv, Kept, HeldWithin, AssignedRolesExist, RoleExists
  <2>2. NamesApart BY DEF AloneInv, Kept, NamesApart, RoleExists
  <2>3. QED BY <2>1, <2>2
<1>3. QED BY <1>1, <1>2, OneClientInit, OneClientStep, PTL DEF RacesSpec

\* With one request at a time each table whose last write and read succeeded holds what
\* the server uses whenever no request is being served, whatever failed before.
THEOREM RolesSaved == RacesSpec => []SavedForOne
<1>1. RolesAssumption BY RolesAssumption
<1>2. OneClientInv => SavedForOne
  BY DEF OneClientInv, SavedForOne, AloneInv, Synced, Even, SavedWhenQuiet, Saving
<1>3. QED BY <1>1, <1>2, OneClientInit, OneClientStep, PTL DEF RacesSpec

-----------------------------------------------------------------------------
(* Sessions of McpShim: who speaks with a name, and when it was last seen. *)

Jobs ==
  {M!Idle, [pc |-> "calling"]} \cup [pc : {"register"}, force : Pool \cup {Nobody}]
    \cup [pc : {"registered"}, name : Pool \cup {Nobody}]

ShimShape ==
  /\ owner = [n \in Pool |-> owner[n]] /\ age \in [Pool -> Nat]
  /\ alive = [t \in Terminals |-> alive[t]] /\ id \in [Terminals -> Pool \cup {Nobody}]
  /\ pulse \in [Terminals -> 0..Interval] /\ job \in [Terminals -> Jobs]
  /\ \A t \in Terminals : ~alive[t] => id[t] = Nobody /\ job[t] = M!Idle

Naming(n) == [pc |-> "registered", name |-> n]

\* A terminal speaks with a name, or will when the answer to its bus_register arrives.
SpeaksAs(t, n) == alive[t] /\ (id[t] = n \/ job[t] = Naming(n))

\* Whoever speaks with a name is the owner the server knows, unless the name was claimed
\* or forgotten while somebody spoke with it.
SpokenFor ==
  \A n \in Pool, t \in Terminals : SpeaksAs(t, n) => owner[n] = t \/ n \in parted

\* An agent whose shim runs was seen since that shim's last heartbeat but one, and the
\* answer that gives a name is taken before time goes on.
Heard ==
  \A t \in Terminals, n \in Pool : owner[n] # Nobody =>
    /\ alive[t] /\ id[t] = n => t \in missed \/ age[n] + pulse[t] <= Interval
    /\ job[t] = Naming(n) => age[n] = 0

ShimInv == ShimShape /\ SpokenFor /\ Heard

LEMMA ShimInit == ShimAssumption /\ M!Init => ShimInv
<1> SUFFICES ASSUME ShimAssumption, M!Init PROVE ShimInv OBVIOUS
<1>1. ShimShape BY DEF ShimAssumption, M!Init, ShimShape, Jobs
<1>2. SpokenFor BY DEF M!Init, SpokenFor, SpeaksAs
<1>3. Heard BY DEF M!Init, Heard, Naming, M!Idle
<1>4. QED BY <1>1, <1>2, <1>3 DEF ShimInv

\* Fewer speak than before, the owners staying.
LEMMA FewerSpeak ==
  ASSUME SpokenFor, UNCHANGED owner,
         \A n \in Pool, u \in Terminals :
           SpeaksAs(u, n)' => SpeaksAs(u, n) /\ (n \in parted => n \in parted')
  PROVE  SpokenFor'
BY DEF SpokenFor

\* Agents are seen, and nobody begins to speak.
LEMMA HeardStill ==
  ASSUME ShimShape', Heard, UNCHANGED owner,
         \A n \in Pool : age'[n] = age[n] \/ age'[n] = 0,
         \A u \in Terminals, n \in Pool :
           /\ alive'[u] /\ id'[u] = n =>
                /\ alive[u] /\ id[u] = n /\ pulse'[u] = pulse[u]
                /\ u \in missed => u \in missed'
           /\ job'[u] = Naming(n) => job[u] = job'[u]
  PROVE  Heard'
<1> SUFFICES ASSUME NEW t \in Terminals, NEW n \in Pool, owner[n] # Nobody
             PROVE  /\ alive'[t] /\ id'[t] = n => t \in missed' \/ age'[n] + pulse'[t] <= Interval
                    /\ job'[t] = Naming(n) => age'[n] = 0
  BY DEF Heard
<1>1. pulse'[t] \in 0..Interval /\ age'[n] \in Nat BY DEF ShimShape
<1>2. CASE age'[n] = 0 BY <1>1, <1>2
<1>3. CASE age'[n] = age[n] BY <1>1, <1>3 DEF Heard
<1>4. QED BY <1>2, <1>3

LEMMA TouchedAge ==
  ASSUME ShimShape, NEW n
  PROVE  /\ M!Touched(n) \in [Pool -> Nat]
         /\ \A m \in Pool : M!Touched(n)[m] = age[m] \/ M!Touched(n)[m] = 0
         /\ n \in Pool /\ owner[n] # Nobody => M!Touched(n)[n] = 0
BY DEF ShimShape, M!Touched, M!Free

\* The steps after which a shim speaks with no more names than before.
LEMMA ShimQuiet ==
  ASSUME ShimAssumption, ShimInv, NEW t \in Terminals,
         \/ M!Run(t) \/ M!Exit(t) \/ M!HandleToolCall(t) \/ M!Return(t)
         \/ \E n \in Pool \cup {Nobody} : M!AskRegister(t, n)
         \/ M!RegisterRefused(t) \/ M!Unreachable(t)
  PROVE  ShimInv'
<1>s. ShimShape BY DEF ShimInv
<1>1. UNCHANGED owner /\ age' \in [Pool -> Nat] /\ \A n \in Pool : age'[n] = age[n] \/ age'[n] = 0
  <2>1. CASE M!HandleToolCall(t)
    <3>1. UNCHANGED owner /\ age' = M!Touched(id[t]) BY <2>1 DEF M!HandleToolCall
    <3>2. QED BY <3>1, <1>s, TouchedAge
  <2>2. CASE ~M!HandleToolCall(t)
    <3>1. UNCHANGED <<owner, age>>
      BY <2>2
      DEF M!Run, M!Exit, M!Return, M!AskRegister, M!RegisterRefused, M!Unreachable, M!server
    <3>2. QED BY <3>1, <1>s DEF ShimShape
  <2>3. QED BY <2>1, <2>2
<1>3. PICK j \in Jobs : /\ job' = [job EXCEPT ![t] = j] /\ \A n \in Pool : j # Naming(n)
                        /\ alive'[t] \/ j = M!Idle
  <2>i. M!Idle \in Jobs /\ \A n \in Pool : M!Idle # Naming(n) BY DEF Jobs, Naming, M!Idle
  <2>1. CASE M!Run(t)
    <3>1. job[t] = M!Idle /\ UNCHANGED job BY <2>1, <1>s DEF M!Run, ShimShape
    <3>2. job' = [job EXCEPT ![t] = M!Idle] BY <3>1, <1>s DEF ShimShape
    <3>3. QED BY <3>2, <2>i
  <2>2. CASE M!Exit(t) \/ M!Return(t) \/ M!Unreachable(t)
    <3>1. job' = [job EXCEPT ![t] = M!Idle]
      BY <2>2 DEF M!Exit, M!Return, M!Unreachable, M!Go
    <3>2. QED BY <3>1, <2>i
  <2>3. CASE M!HandleToolCall(t)
    <3>1. job' = [job EXCEPT ![t] = [pc |-> "calling"]] /\ alive'[t]
      BY <2>3 DEF M!HandleToolCall, M!Go, M!At
    <3>2. [pc |-> "calling"] \in Jobs /\ \A n \in Pool : [pc |-> "calling"] # Naming(n)
      BY DEF Jobs, Naming
    <3>3. QED BY <3>1, <3>2
  <2>4. ASSUME NEW n \in Pool \cup {Nobody}, M!AskRegister(t, n)
        PROVE  \E j \in Jobs : /\ job' = [job EXCEPT ![t] = j] /\ \A m \in Pool : j # Naming(m)
                               /\ alive'[t] \/ j = M!Idle
    <3> DEFINE j == [pc |-> "register", force |-> n]
    <3>1. job' = [job EXCEPT ![t] = j] /\ alive'[t]
      BY <2>4 DEF M!AskRegister, M!Go, M!At
    <3>2. j \in Jobs BY DEF Jobs
    <3>3. \A m \in Pool : j.pc # Naming(m).pc BY DEF Naming
    <3> HIDE DEF j
    <3>4. QED BY <3>1, <3>2, <3>3
  <2>5. CASE M!RegisterRefused(t)
    <3> DEFINE j == [pc |-> "registered", name |-> Nobody]
    <3>1. job' = [job EXCEPT ![t] = j] /\ alive'[t]
      BY <2>5 DEF M!RegisterRefused, M!Go, M!At, M!shim
    <3>2. j \in Jobs BY DEF Jobs
    <3>3. \A m \in Pool : j.name # Naming(m).name BY DEF Naming, ShimAssumption
    <3> HIDE DEF j
    <3>4. QED BY <3>1, <3>2, <3>3
  <2>6. QED BY <2>1, <2>2, <2>3, <2>4, <2>5
<1>4. /\ job' \in [Terminals -> Jobs] /\ \A u \in Terminals \ {t} : job'[u] = job[u]
      /\ \A n \in Pool : job'[t] # Naming(n)
      /\ ~alive'[t] => job'[t] = M!Idle
  BY <1>3, <1>s DEF ShimShape
<1>5. /\ alive' = [u \in Terminals |-> alive'[u]]
      /\ id' \in [Terminals -> Pool \cup {Nobody}] /\ pulse' \in [Terminals -> 0..Interval]
      /\ \A u \in Terminals \ {t} : alive'[u] = alive[u] /\ id'[u] = id[u] /\ pulse'[u] = pulse[u]
      /\ \A u \in Terminals \ {t} : u \in missed => u \in missed'
      /\ \/ UNCHANGED <<id, pulse, missed>>
         \/ id'[t] = Nobody
      /\ alive'[t] /\ id'[t] # Nobody => alive[t]
      /\ ~alive'[t] => id'[t] = Nobody
  <2>1. CASE M!Run(t) BY <2>1, <1>s DEF M!Run, ShimShape
  <2>2. CASE M!Exit(t)
    <3>1. /\ alive' = [alive EXCEPT ![t] = FALSE] /\ id' = [id EXCEPT ![t] = Nobody]
          /\ pulse' = [pulse EXCEPT ![t] = Interval] /\ missed' = missed \ {t}
      BY <2>2 DEF M!Exit
    <3>2. Interval \in 0..Interval BY DEF ShimAssumption
    <3>3. /\ alive' = [u \in Terminals |-> alive'[u]]
          /\ id' \in [Terminals -> Pool \cup {Nobody}] /\ pulse' \in [Terminals -> 0..Interval]
      BY <3>1, <3>2, <1>s DEF ShimShape
    <3>4. id'[t] = Nobody BY <3>1, <1>s DEF ShimShape
    <3>5. QED BY <3>1, <3>3, <3>4, <1>s DEF ShimShape
  <2>3. CASE M!Unreachable(t)
    <3>1. UNCHANGED <<alive, id, pulse, missed>> BY <2>3 DEF M!Unreachable
    <3>2. QED BY <3>1, <1>s DEF ShimShape
  <2>4. CASE ~(M!Run(t) \/ M!Exit(t) \/ M!Unreachable(t))
    <3>1. UNCHANGED <<alive, id, pulse, missed>>
      BY <2>4 DEF M!HandleToolCall, M!Return, M!AskRegister, M!RegisterRefused
    <3>2. QED BY <3>1, <1>s DEF ShimShape
  <2>5. QED BY <2>1, <2>2, <2>3, <2>4
<1>6. ShimShape' BY <1>1, <1>4, <1>5, <1>s DEF ShimShape
<1>7. Heard'
  <2>1. \A u \in Terminals, n \in Pool :
          /\ alive'[u] /\ id'[u] = n =>
               /\ alive[u] /\ id[u] = n /\ pulse'[u] = pulse[u]
               /\ u \in missed => u \in missed'
          /\ job'[u] = Naming(n) => job[u] = job'[u]
    BY <1>4, <1>5 DEF ShimAssumption
  <2>2. QED BY <1>1, <1>6, <2>1, HeardStill DEF ShimInv
<1>8. SpokenFor'
  <2>1. \A n \in Pool, u \in Terminals : SpeaksAs(u, n)' => SpeaksAs(u, n)
    BY <1>4, <1>5 DEF SpeaksAs, ShimAssumption
  <2>2. \A n \in Pool, u \in Terminals : SpeaksAs(u, n)' /\ n \in parted => n \in parted'
    <3>1. CASE M!Exit(t)
      <4>1. \A n \in Pool : ~SpeaksAs(t, n)' BY <1>s, <3>1 DEF M!Exit, SpeaksAs, ShimShape
      <4>2. ASSUME NEW n \in Pool, NEW u \in Terminals, SpeaksAs(u, n)', n \in parted
            PROVE  n \in parted'
        <5>1. u # t /\ SpeaksAs(u, n) BY <2>1, <4>1, <4>2
        <5>2. u \in M!Speaking(n) BY <5>1 DEF SpeaksAs, M!Speaking, Naming
        <5>3. M!Speaking(n) # {t} BY <5>1, <5>2
        <5>4. QED BY <3>1, <4>2, <5>3 DEF M!Exit
      <4>3. QED BY <4>2
    <3>2. QED
      BY <3>1
      DEF M!Run, M!HandleToolCall, M!Return, M!AskRegister, M!RegisterRefused, M!Unreachable
  <2>3. QED BY <1>1, <2>1, <2>2, FewerSpeak DEF ShimInv
<1>9. QED BY <1>6, <1>7, <1>8 DEF ShimInv

\* The server gives a name: to the owner of it, or one nobody has, or one that is claimed.
LEMMA ShimGiven ==
  ASSUME ShimAssumption, ShimInv, NEW t \in Terminals, NEW n \in Pool,
         alive[t], M!Give(t, n), UNCHANGED <<alive, id, pulse, missed>>,
         \A m \in Pool : m \in parted => m \in parted',
         owner[n] \in {t, Nobody} \/ n \in parted' \/ \A u \in Terminals \ {t} : ~SpeaksAs(u, n)
  PROVE  ShimInv'
<1>s. ShimShape BY DEF ShimInv
<1>1. /\ owner' = [owner EXCEPT ![n] = t] /\ age' = [age EXCEPT ![n] = 0]
      /\ job' = [job EXCEPT ![t] = Naming(n)]
  BY DEF M!Give, M!Go, Naming
<1>2. Naming(n) \in Jobs /\ \A m \in Pool : Naming(m) = Naming(n) => m = n
  <2>1. Naming(n) \in Jobs BY DEF Naming, Jobs
  <2>2. \A m \in Pool : Naming(m).name = m BY DEF Naming
  <2>3. QED BY <2>1, <2>2
<1>3. ShimShape' BY <1>1, <1>2, <1>s DEF ShimShape
<1>4. SpokenFor'
  <2> SUFFICES ASSUME NEW m \in Pool, NEW u \in Terminals, SpeaksAs(u, m)'
               PROVE  owner'[m] = u \/ m \in parted'
    BY DEF SpokenFor
  <2>1. CASE u = t /\ m = n BY <2>1, <1>1, <1>s DEF ShimShape
  <2>2. CASE u # t
    <3>1. SpeaksAs(u, m) BY <2>2, <1>1, <1>s DEF SpeaksAs, ShimShape
    <3>2. owner[m] = u \/ m \in parted BY <3>1 DEF ShimInv, SpokenFor
    <3>3. QED BY <2>2, <3>1, <3>2, <1>1, <1>s DEF ShimAssumption, ShimShape
  <2>3. CASE u = t /\ m # n
    <3>1. SpeaksAs(u, m) BY <2>3, <1>1, <1>2, <1>s DEF SpeaksAs, ShimShape
    <3>2. owner[m] = u \/ m \in parted BY <3>1 DEF ShimInv, SpokenFor
    <3>3. QED BY <2>3, <3>2, <1>1, <1>s DEF ShimShape
  <2>4. QED BY <2>1, <2>2, <2>3
<1>5. Heard'
  <2> SUFFICES ASSUME NEW u \in Terminals, NEW m \in Pool, owner'[m] # Nobody
               PROVE  /\ alive'[u] /\ id'[u] = m => u \in missed' \/ age'[m] + pulse'[u] <= Interval
                      /\ job'[u] = Naming(m) => age'[m] = 0
    BY DEF Heard
  <2>1. pulse'[u] \in 0..Interval BY <1>3 DEF ShimShape
  <2>2. CASE m = n BY <2>1, <2>2, <1>1, <1>s DEF ShimShape
  <2>3. CASE m # n
    <3>1. owner[m] # Nobody /\ age'[m] = age[m] BY <2>3, <1>1, <1>s DEF ShimShape
    <3>2. job'[u] = Naming(m) => job[u] = Naming(m) BY <2>3, <1>1, <1>2, <1>s DEF ShimShape
    <3>3. QED BY <3>1, <3>2 DEF ShimInv, Heard
  <2>4. QED BY <2>2, <2>3
<1>6. QED BY <1>3, <1>4, <1>5 DEF ShimInv

LEMMA ShimRegister ==
  ASSUME ShimAssumption, ShimInv, NEW t \in Terminals, M!Register(t) \/ M!Claim(t)
  PROVE  ShimInv'
<1>1. CASE M!Register(t)
  <2>1. PICK n \in Pool : M!Give(t, n) /\ owner[n] \in {t, Nobody}
    BY <1>1 DEF M!Register, M!Tagged, M!Free
  <2>2. alive[t] /\ UNCHANGED <<alive, id, pulse, missed, parted>>
    BY <1>1 DEF M!Register, M!At
  <2>3. QED BY <2>1, <2>2, ShimGiven
<1>2. CASE M!Claim(t)
  <2> DEFINE n == job[t].force
  <2>1. /\ alive[t] /\ job[t].pc = "register" /\ n # Nobody /\ M!Give(t, n)
        /\ UNCHANGED <<alive, id, pulse, missed>>
        /\ parted' = IF M!Speaking(n) \ {t} = {} THEN parted ELSE parted \cup {n}
    BY <1>2 DEF M!Claim, M!At
  <2>2. n \in Pool
    <3>1. job[t] \in Jobs BY DEF ShimInv, ShimShape
    <3>2. QED BY <2>1, <3>1 DEF Jobs, M!Idle
  <2>3. n \in parted' \/ \A u \in Terminals \ {t} : ~SpeaksAs(u, n)
    BY <2>1 DEF M!Speaking, SpeaksAs, Naming
  <2> HIDE DEF n
  <2>4. QED BY <2>1, <2>2, <2>3, ShimGiven
<1>3. QED BY <1>1, <1>2

\* The answer arrives, and the shim speaks with the name from now on.
LEMMA ShimRegistered ==
  ASSUME ShimAssumption, ShimInv, NEW t \in Terminals, M!Registered(t)
  PROVE  ShimInv'
<1>s. ShimShape BY DEF ShimInv
<1>1. /\ alive[t] /\ job[t].pc = "registered"
      /\ UNCHANGED <<owner, age, alive, pulse, missed, parted>>
      /\ id' = [id EXCEPT ![t] = IF job[t].name = Nobody THEN id[t] ELSE job[t].name]
      /\ job' = [job EXCEPT ![t] = M!Idle]
  BY DEF M!Registered, M!At, M!Go, M!server
<1>2. job[t].name \in Pool \cup {Nobody} /\ job[t] = Naming(job[t].name)
  <2>1. job[t] \in Jobs BY <1>s DEF ShimShape
  <2>2. QED BY <1>1, <2>1 DEF Jobs, M!Idle, Naming
<1>3. M!Idle \in Jobs /\ \A n \in Pool : M!Idle # Naming(n) BY DEF Jobs, Naming, M!Idle
<1>4. ShimShape' BY <1>1, <1>2, <1>3, <1>s DEF ShimShape
<1>5. \A u \in Terminals, n \in Pool :
        /\ job'[u] = Naming(n) => u # t /\ job[u] = Naming(n)
        /\ id'[u] = n => id[u] = n \/ (u = t /\ job[t] = Naming(n))
  BY <1>1, <1>2, <1>3, <1>s DEF ShimShape, ShimAssumption
<1>6. SpokenFor'
  <2>1. \A n \in Pool, u \in Terminals : SpeaksAs(u, n)' => SpeaksAs(u, n)
    BY <1>1, <1>5 DEF SpeaksAs
  <2>2. QED BY <1>1, <2>1, FewerSpeak DEF ShimInv
<1>7. Heard'
  <2> SUFFICES ASSUME NEW u \in Terminals, NEW n \in Pool, owner'[n] # Nobody
               PROVE  /\ alive'[u] /\ id'[u] = n => u \in missed' \/ age'[n] + pulse'[u] <= Interval
                      /\ job'[u] = Naming(n) => age'[n] = 0
    BY DEF Heard
  <2>1. pulse[u] \in 0..Interval BY <1>s DEF ShimShape
  <2>2. job[u] = Naming(n) => age[n] = 0 BY <1>1 DEF ShimInv, Heard
  <2>3. alive[u] /\ id[u] = n => u \in missed \/ age[n] + pulse[u] <= Interval
    BY <1>1 DEF ShimInv, Heard
  <2>4. QED BY <1>1, <1>5, <2>1, <2>2, <2>3
<1>8. QED BY <1>4, <1>6, <1>7 DEF ShimInv

\* A heartbeat: whoever is known is seen, or the shim knows nothing of the failure.
LEMMA ShimHeartbeat ==
  ASSUME ShimAssumption, ShimInv, NEW t \in Terminals, M!Heartbeat(t)
  PROVE  ShimInv'
<1>s. ShimShape BY DEF ShimInv
<1>1. /\ UNCHANGED <<owner, alive, id, job, parted>>
      /\ pulse' = [pulse EXCEPT ![t] = Interval]
      /\ age' = IF up THEN M!Touched(id[t]) ELSE age
      /\ missed' = IF up THEN missed \ {t} ELSE missed \cup {t}
  BY DEF M!Heartbeat, M!Pulsed
<1>2. Interval \in 0..Interval BY DEF ShimAssumption
<1>3. /\ age' \in [Pool -> Nat] /\ \A n \in Pool : age'[n] = age[n] \/ age'[n] = 0
      /\ up /\ id[t] \in Pool /\ owner[id[t]] # Nobody => age'[id[t]] = 0
  <2>1. CASE up BY <2>1, <1>1, <1>s, TouchedAge
  <2>2. CASE ~up BY <2>2, <1>1, <1>s DEF ShimShape
  <2>3. QED BY <2>1, <2>2
<1>4. ShimShape' BY <1>1, <1>2, <1>3, <1>s DEF ShimShape
<1>5. SpokenFor' BY <1>1 DEF ShimInv, SpokenFor, SpeaksAs
<1>6. Heard'
  <2> SUFFICES ASSUME NEW u \in Terminals, NEW n \in Pool, owner[n] # Nobody
               PROVE  /\ alive[u] /\ id[u] = n => u \in missed' \/ age'[n] + pulse'[u] <= Interval
                      /\ job[u] = Naming(n) => age'[n] = 0
    BY <1>1 DEF Heard
  <2>1. pulse'[u] \in 0..Interval /\ age[n] \in Nat /\ pulse[u] \in 0..Interval
    BY <1>4, <1>s DEF ShimShape
  <2>2. /\ alive[u] /\ id[u] = n => u \in missed \/ age[n] + pulse[u] <= Interval
        /\ job[u] = Naming(n) => age[n] = 0
    BY DEF ShimInv, Heard
  <2>3. CASE u # t
    <3>1. pulse'[u] = pulse[u] /\ (u \in missed => u \in missed') BY <2>3, <1>1, <1>s DEF ShimShape
    <3>2. QED BY <2>1, <2>2, <3>1, <1>3
  <2>4. CASE u = t
    <3>1. alive[u] /\ id[u] = n => u \in missed' \/ age'[n] = 0 BY <2>4, <1>1, <1>3
    <3>2. QED BY <2>1, <2>2, <3>1, <1>3
  <2>5. QED BY <2>3, <2>4
<1>7. QED BY <1>4, <1>5, <1>6 DEF ShimInv

\* The server forgets agents: what they were called is noted if somebody speaks so.
LEMMA ShimForget ==
  ASSUME ShimAssumption, ShimInv, NEW ns \in SUBSET Pool, M!Forget(ns),
         UNCHANGED <<alive, id, pulse, job, missed>>
  PROVE  ShimInv'
<1>s. ShimShape BY DEF ShimInv
<1>1. /\ owner' = [n \in Pool |-> IF n \in ns THEN Nobody ELSE owner[n]]
      /\ age' = [n \in Pool |-> IF n \in ns THEN 0 ELSE age[n]]
      /\ parted' = parted \cup {n \in ns : M!Speaking(n) # {}}
  BY DEF M!Forget
<1>2. ShimShape' BY <1>1, <1>s DEF ShimShape
<1>3. SpokenFor'
  <2> SUFFICES ASSUME NEW n \in Pool, NEW u \in Terminals, SpeaksAs(u, n)
               PROVE  owner'[n] = u \/ n \in parted'
    BY DEF SpokenFor, SpeaksAs
  <2>1. CASE n \in ns BY <2>1, <1>1 DEF M!Speaking, SpeaksAs, Naming
  <2>2. CASE n \notin ns BY <2>2, <1>1 DEF ShimInv, SpokenFor
  <2>3. QED BY <2>1, <2>2
<1>4. Heard' BY <1>1 DEF ShimInv, Heard
<1>5. QED BY <1>2, <1>3, <1>4 DEF ShimInv

\* A tick: no answer is under way, and every running shim has a heartbeat to come.
LEMMA ShimTick ==
  ASSUME ShimAssumption, ShimInv, M!Tick
  PROVE  ShimInv'
<1>s. ShimShape BY DEF ShimInv
<1>1. /\ \A t \in Terminals : alive[t] => pulse[t] > 0 /\ job[t].pc # "registered"
      /\ pulse' = [t \in Terminals |-> IF alive[t] THEN pulse[t] - 1 ELSE pulse[t]]
      /\ age' = [n \in Pool |-> IF n \in M!Free \/ age[n] > Window THEN age[n] ELSE age[n] + 1]
      /\ UNCHANGED <<owner, alive, id, job, missed, parted>>
  BY DEF M!Tick
<1>2. ShimShape'
  <2>1. pulse' \in [Terminals -> 0..Interval] BY <1>1, <1>s DEF ShimShape, ShimAssumption
  <2>2. age' \in [Pool -> Nat] BY <1>1, <1>s DEF ShimShape
  <2>3. QED BY <2>1, <2>2, <1>1, <1>s DEF ShimShape
<1>3. SpokenFor' BY <1>1 DEF ShimInv, SpokenFor, SpeaksAs
<1>4. Heard'
  <2> SUFFICES ASSUME NEW u \in Terminals, NEW n \in Pool, owner[n] # Nobody
               PROVE  /\ alive[u] /\ id[u] = n => u \in missed \/ age'[n] + pulse'[u] <= Interval
                      /\ job[u] = Naming(n) => age'[n] = 0
    BY <1>1 DEF Heard
  <2>1. job[u] # Naming(n)
    <3>1. Naming(n).pc = "registered" /\ M!Idle.pc = "idle" BY DEF Naming, M!Idle
    <3>2. QED BY <3>1, <1>1, <1>s DEF ShimShape
  <2>2. alive[u] /\ id[u] = n => u \in missed \/ age[n] + pulse[u] <= Interval
    BY DEF ShimInv, Heard
  <2>3. age[n] \in Nat /\ pulse[u] \in 0..Interval /\ Interval \in Nat
    BY <1>s DEF ShimShape, ShimAssumption
  <2>4. alive[u] => pulse'[u] = pulse[u] - 1 BY <1>1
  <2>5. age'[n] = age[n] \/ age'[n] = age[n] + 1 BY <1>1
  <2>6. QED BY <2>1, <2>2, <2>3, <2>4, <2>5
<1>5. QED BY <1>2, <1>3, <1>4 DEF ShimInv

LEMMA ShimStep ==
  ASSUME ShimAssumption, ShimInv, M!Next
  PROVE  ShimInv'
<1>1. ASSUME NEW t \in Terminals,
             \/ M!Run(t) \/ M!Exit(t) \/ M!HandleToolCall(t) \/ M!Return(t)
             \/ \E n \in Pool \cup {Nobody} : M!AskRegister(t, n)
             \/ M!RegisterRefused(t) \/ M!Unreachable(t)
      PROVE  ShimInv'
  BY <1>1, ShimQuiet
<1>2. ASSUME NEW t \in Terminals,
             M!Register(t) \/ M!Claim(t) \/ M!Registered(t) \/ M!Heartbeat(t)
      PROVE  ShimInv'
  BY <1>2, ShimRegister, ShimRegistered, ShimHeartbeat
<1>3. ASSUME NEW ns \in SUBSET Pool, M!Forget(ns), UNCHANGED <<alive, id, pulse, job, missed>>
      PROVE  ShimInv'
  BY <1>3, ShimForget
<1>4. CASE M!CleanupStaleAgents \/ M!Start
  <2>1. M!Overdue \in SUBSET Pool BY DEF M!Overdue
  <2>2. M!Forget(M!Overdue) /\ UNCHANGED <<alive, id, pulse, job, missed>>
    BY <1>4 DEF M!CleanupStaleAgents, M!Start, M!shim
  <2>3. QED BY <2>1, <2>2, <1>3
<1>5. CASE M!Stop
  <2>1. UNCHANGED <<owner, age, alive, id, pulse, job, missed, parted>>
    BY <1>5 DEF M!Stop, M!shim
  <2>2. QED BY <2>1 DEF ShimInv, ShimShape, SpokenFor, SpeaksAs, Heard
<1>6. ASSUME NEW ns \in SUBSET Pool, M!Deregister(ns) PROVE ShimInv'
  BY <1>6, <1>3 DEF M!Deregister, M!shim
<1>7. (\A n \in Pool : {n} \in SUBSET Pool) /\ Pool \ M!Free \in SUBSET Pool OBVIOUS
<1>8. QED BY <1>1, <1>2, <1>4, <1>5, <1>6, <1>7, ShimTick DEF M!Next

LEMMA ShimsHold == RacesSpec => []ShimInv
<1>0. ShimAssumption BY ShimAssumption
<1>1. RacesInit /\ ShimAssumption => ShimInv BY ShimInit DEF RacesInit
<1>2. ShimInv /\ ShimAssumption /\ [RacesNext]_racesVars => ShimInv'
  <2> SUFFICES ASSUME ShimInv, ShimAssumption, [RacesNext]_racesVars PROVE ShimInv' OBVIOUS
  <2>1. CASE M!Next BY <2>1, ShimStep
  <2>2. CASE UNCHANGED shimVars
    <3>1. UNCHANGED <<owner, age, alive, id, pulse, job, missed, parted>> BY <2>2 DEF shimVars
    <3>2. QED BY <3>1 DEF ShimInv, ShimShape, SpokenFor, SpeaksAs, Heard
  <2>3. QED BY <2>1, <2>2 DEF RacesNext, racesVars
<1>3. QED BY <1>0, <1>1, <1>2, PTL DEF RacesSpec

\* Two running shims never speak as one agent, however they register, end, claim names
\* and outlive the server, unless the name was claimed or forgotten under one of them.
THEOREM ShimsApart == RacesSpec => []IdentitiesApart
<1>1. ShimAssumption BY ShimAssumption
<1>2. ShimAssumption /\ ShimInv => IdentitiesApart
  <2> SUFFICES ASSUME ShimAssumption, ShimInv, NEW t \in Terminals, NEW u \in Terminals, t # u,
                      alive[t], alive[u], id[t] = id[u], id[t] # Nobody
               PROVE  id[t] \in parted
    BY DEF IdentitiesApart, M!IdentitiesApart
  <2>1. id[t] \in Pool BY DEF ShimInv, ShimShape
  <2>2. SpeaksAs(t, id[t]) /\ SpeaksAs(u, id[t]) BY DEF SpeaksAs
  <2>3. QED BY <2>1, <2>2 DEF ShimInv, SpokenFor
<1>3. QED BY <1>1, <1>2, ShimsHold, PTL

Sparing ==
  \A t \in Terminals :
    /\ alive[t] /\ id[t] \in M!Overdue
    => t \in missed \/ owner'[id[t]] = owner[id[t]]

\* An agent whose shim runs is never overdue unless the last heartbeat did not arrive,
\* so no sweep and no start of the server forgets it.
THEOREM SessionsKept == RacesSpec => OpenSessionsKept
<1>1. ShimAssumption BY ShimAssumption
<1>2. ShimAssumption /\ ShimInv => [Sparing]_(M!vars)
  <2> SUFFICES ASSUME ShimAssumption, ShimInv, NEW t \in Terminals, alive[t], id[t] \in M!Overdue
               PROVE  t \in missed
    BY DEF Sparing
  <2>1. id[t] \in Pool /\ owner[id[t]] # Nobody /\ age[id[t]] > Window
    BY DEF M!Overdue, M!Free
  <2>2. t \in missed \/ age[id[t]] + pulse[t] <= Interval BY <2>1 DEF ShimInv, Heard
  <2>3. age[id[t]] \in Nat /\ pulse[t] \in 0..Interval BY <2>1 DEF ShimInv, ShimShape
  <2>4. QED BY <2>1, <2>2, <2>3 DEF ShimAssumption
<1>3. QED BY <1>1, <1>2, ShimsHold, PTL DEF OpenSessionsKept, M!OpenSessionsKept, Sparing

-----------------------------------------------------------------------------
(* Fetches of Polling: whether a request is sent, and whose numbers are      *)
(* filed.                                                                    *)

EntryShape(e) == e = [whose |-> e.whose, fresh |-> e.fresh, good |-> e.good]

FetchShape(f) ==
  \/ f = P!NoFetch
  \/ /\ f.pc # "none" /\ f.profile \in Profiles /\ EntryShape(f.before)
     /\ f = [pc |-> f.pc, profile |-> f.profile, own |-> f.own, print |-> f.print,
             generation |-> f.generation, seen |-> f.seen, before |-> f.before,
             fresh |-> f.fresh, whose |-> f.whose, outcome |-> f.outcome]

FetchesShape ==
  /\ cache = [p \in Profiles |-> cache[p]] /\ \A p \in Profiles : EntryShape(cache[p])
  /\ fetch = [r \in P!Refreshers |-> fetch[r]]
  /\ \A r \in P!Refreshers : FetchShape(fetch[r])

\* The provider's lock: one fetch at a time.
OneFetch ==
  \A r, u \in P!Refreshers : fetch[r] # P!NoFetch /\ fetch[u] # P!NoFetch => r = u

\* A request about to go out for a fetch f of r still has the reason it was decided on.
Deserved(r, f) ==
  f.pc = "call" =>
    /\ f.seen # <<>>
    /\ P!Forced(r) \/ ~cache[f.profile].fresh \/ (f.own /\ known # f.seen)

FetchInv ==
  FetchesShape /\ OneFetch /\ \A r \in P!Refreshers : Deserved(r, fetch[r])

\* A switch of the server's that has begun and not made its invalidations.
Pending == \E s \in Webs : switcher[s].pc \in {"swapped", "outgoing", "incoming"}

Sent(f) ==
  \/ f.pc = "wait"
  \/ f.pc \in {"compare", "save"} /\ f.outcome = "ok"

\* A request that went out with credentials of another profile can be told apart before
\* its answer is filed.
Owned(f) ==
  /\ f.pc \in {"owner", "generation"} => f.own
  /\ f.pc \in {"decide", "call", "wait", "compare"} /\ f.own =>
       f.generation \in Nat /\ f.generation <= generation
  /\ f.pc \in {"owner", "generation", "decide", "call"} => f.outcome = "none"
  /\ Sent(f) /\ ~f.own => f.whose = f.profile
  /\ Sent(f) /\ f.own /\ f.pc # "save" /\ f.whose # f.profile =>
       live # f.profile \/ f.generation # generation \/ Pending
  /\ Sent(f) /\ f.own /\ f.pc = "save" => f.whose = f.profile \/ Pending

LEMMA NoFetchFits ==
  /\ FetchShape(P!NoFetch) /\ Owned(P!NoFetch) /\ P!NoFetch.pc = "none"
  /\ \A r : Deserved(r, P!NoFetch)
BY DEF P!NoFetch, FetchShape, Owned, Sent, Deserved

LEMMA NoEntryFits == EntryShape(P!NoEntry) /\ ~P!NoEntry.fresh
BY DEF P!NoEntry, EntryShape

LEMMA OldEntryFits ==
  ASSUME NEW e, EntryShape(e), NEW d, d = [e EXCEPT !.fresh = FALSE]
  PROVE  EntryShape(d) /\ d.fresh = FALSE
<1>1. e = [whose |-> e.whose, fresh |-> e.fresh, good |-> e.good] BY DEF EntryShape
<1>2. d = [whose |-> e.whose, fresh |-> FALSE, good |-> e.good] BY <1>1
<1>3. QED BY <1>2 DEF EntryShape

\* The steps of a fetch that has begun: how it goes on.
LEMMA FetchGoes ==
  ASSUME FetchesShape, NEW r \in P!Refreshers,
         \/ P!ReadOwner(r) \/ P!ReadGeneration(r) \/ P!DecideAgain(r) \/ P!SendRequest(r)
         \/ P!SkipExpired(r) \/ \E outcome \in {"ok", "transient", "refused"} : P!Answer(r, outcome)
         \/ P!CompareOwner(r) \/ P!SaveSnapshot(r)
  PROVE  \E f : /\ P!Go(r, f) /\ FetchShape(f) /\ Deserved(r, f)
                /\ generation \in Nat /\ Owned(fetch[r]) /\ (live = active \/ Pending) => Owned(f)
<1> DEFINE Fits(f) == /\ P!Go(r, f) /\ FetchShape(f) /\ Deserved(r, f)
                      /\ generation \in Nat /\ Owned(fetch[r]) /\ (live = active \/ Pending)
                           => Owned(f)
           old == fetch[r]
<1>0. P!Drop(r) => Fits(P!NoFetch) BY NoFetchFits DEF P!Drop
<1>1. /\ old.profile \in Profiles /\ EntryShape(old.before) /\ old # P!NoFetch
      /\ old = [pc |-> old.pc, profile |-> old.profile, own |-> old.own, print |-> old.print,
                generation |-> old.generation, seen |-> old.seen, before |-> old.before,
                fresh |-> old.fresh, whose |-> old.whose, outcome |-> old.outcome]
  <2>1. old.pc # "none"
    BY DEF P!ReadOwner, P!ReadGeneration, P!DecideAgain, P!SendRequest, P!SkipExpired, P!Answer,
           P!CompareOwner, P!SaveSnapshot, P!At
  <2>2. FetchShape(old) BY DEF FetchesShape
  <2> HIDE DEF old
  <2>3. QED BY <2>1, <2>2, NoFetchFits DEF FetchShape
<1>2. CASE P!ReadOwner(r)
  <2> DEFINE print == P!LivePrint
  <2>1. PICK f : /\ old.pc = "owner" /\ P!Go(r, f)
                /\ f = [old EXCEPT !.pc = "generation", !.print = print]
    BY <1>2 DEF P!ReadOwner, P!At
  <2>a. old.pc = "owner" BY <2>1
  <2> HIDE DEF print, old
  <2>2. f = [pc |-> "generation", profile |-> old.profile, own |-> old.own, print |-> print,
             generation |-> old.generation, seen |-> old.seen, before |-> old.before,
             fresh |-> old.fresh, whose |-> old.whose, outcome |-> old.outcome]
    BY <1>1, <2>1
  <2>3. FetchShape(f) /\ Deserved(r, f) /\ (Owned(old) => Owned(f))
    BY <1>1, <2>a, <2>2 DEF FetchShape, Deserved, Owned, Sent
  <2>4. QED BY <2>1, <2>3 DEF old
<1>3. CASE P!ReadGeneration(r)
  <2>1. PICK f : /\ old.pc = "generation" /\ P!Go(r, f)
                /\ f = [old EXCEPT !.pc = "decide", !.generation = generation]
    BY <1>3 DEF P!ReadGeneration, P!At
  <2>a. old.pc = "generation" BY <2>1
  <2> HIDE DEF old
  <2>2. f = [pc |-> "decide", profile |-> old.profile, own |-> old.own, print |-> old.print,
             generation |-> generation, seen |-> old.seen, before |-> old.before,
             fresh |-> old.fresh, whose |-> old.whose, outcome |-> old.outcome]
    BY <1>1, <2>1
  <2>3. FetchShape(f) /\ Deserved(r, f) /\ (generation \in Nat /\ Owned(old) => Owned(f))
    BY <1>1, <2>a, <2>2 DEF FetchShape, Deserved, Owned, Sent
  <2>4. QED BY <2>1, <2>3 DEF old
\* A fetch goes on because its entry is old, or because the credentials have changed.
<1>4. CASE P!DecideAgain(r)
  <2> DEFINE print == IF old.own THEN old.print ELSE P!StoredPrint(old.profile)
             seen == P!LivePrint
             before == cache[old.profile]
  <2>1. CASE P!Drop(r) BY <2>1, <1>0
  <2>2. CASE ~P!Drop(r)
    <3>1. /\ old.pc = "decide"
          /\ P!Due(old.profile, P!Forced(r), old.own /\ P!CredentialsChanged)
          /\ P!Go(r, [old EXCEPT !.pc = "call", !.before = before, !.fresh = TRUE, !.seen = seen,
                                 !.print = IF old.own THEN @ ELSE P!StoredPrint(old.profile)])
      BY <1>4, <2>2 DEF P!DecideAgain, P!At
    <3>2. PICK f : /\ P!Go(r, f)
                   /\ f = [old EXCEPT !.pc = "call", !.before = before, !.fresh = TRUE,
                                      !.seen = seen, !.print = print]
      BY <3>1, <1>1
    <3>3. seen # <<>> BY DEF P!LivePrint
    <3>4. EntryShape(before) BY <1>1 DEF FetchesShape
    <3>5. P!Forced(r) \/ ~cache[old.profile].fresh \/ (old.own /\ known # seen)
      BY <3>1 DEF P!Due, P!CredentialsChanged
    <3> HIDE DEF print, seen, before, old
    <3>6. f = [pc |-> "call", profile |-> old.profile, own |-> old.own, print |-> print,
               generation |-> old.generation, seen |-> seen, before |-> before,
               fresh |-> TRUE, whose |-> old.whose, outcome |-> old.outcome]
      BY <1>1, <3>2
    <3>7. FetchShape(f) /\ Deserved(r, f) /\ (Owned(old) => Owned(f))
      BY <1>1, <3>1, <3>3, <3>4, <3>5, <3>6 DEF FetchShape, Deserved, Owned, Sent
    <3>8. QED BY <3>2, <3>7 DEF old
  <2>3. QED BY <2>1, <2>2
<1>5. CASE P!SendRequest(r)
  <2> DEFINE whose == IF old.own THEN live ELSE old.profile
  <2>1. PICK f : /\ old.pc = "call" /\ P!Go(r, f)
                /\ f = [old EXCEPT !.pc = "wait", !.seen = <<>>, !.whose = whose]
    BY <1>5 DEF P!SendRequest, P!At
  <2>a. old.pc = "call" BY <2>1
  <2>2. (old.own => whose = live) /\ (~old.own => whose = old.profile) OBVIOUS
  <2> HIDE DEF whose, old
  <2>3. f = [pc |-> "wait", profile |-> old.profile, own |-> old.own, print |-> old.print,
             generation |-> old.generation, seen |-> <<>>, before |-> old.before,
             fresh |-> old.fresh, whose |-> whose, outcome |-> old.outcome]
    BY <1>1, <2>1
  <2>4. FetchShape(f) /\ Deserved(r, f) /\ (Owned(old) => Owned(f))
    BY <1>1, <2>a, <2>2, <2>3 DEF FetchShape, Deserved, Owned, Sent
  <2>5. QED BY <2>1, <2>4 DEF old
<1>6. CASE P!SkipExpired(r)
  <2>1. PICK f : /\ old.pc = "call" /\ P!Go(r, f)
                /\ f = [old EXCEPT !.pc = "compare", !.seen = <<>>, !.outcome = "expired"]
    BY <1>6 DEF P!SkipExpired, P!At
  <2>a. old.pc = "call" BY <2>1
  <2> HIDE DEF old
  <2>2. f = [pc |-> "compare", profile |-> old.profile, own |-> old.own, print |-> old.print,
             generation |-> old.generation, seen |-> <<>>, before |-> old.before,
             fresh |-> old.fresh, whose |-> old.whose, outcome |-> "expired"]
    BY <1>1, <2>1
  <2>3. FetchShape(f) /\ Deserved(r, f) /\ (Owned(old) => Owned(f))
    BY <1>1, <2>a, <2>2 DEF FetchShape, Deserved, Owned, Sent
  <2>4. QED BY <2>1, <2>3 DEF old
<1>7. ASSUME NEW outcome \in {"ok", "transient", "refused"}, P!Answer(r, outcome)
      PROVE  \E f : Fits(f)
  <2>1. PICK f : /\ old.pc = "wait" /\ P!Go(r, f)
                /\ f = [old EXCEPT !.pc = "compare", !.outcome = outcome]
    BY <1>7 DEF P!Answer, P!At
  <2>a. old.pc = "wait" BY <2>1
  <2> HIDE DEF old
  <2>2. f = [pc |-> "compare", profile |-> old.profile, own |-> old.own, print |-> old.print,
             generation |-> old.generation, seen |-> old.seen, before |-> old.before,
             fresh |-> old.fresh, whose |-> old.whose, outcome |-> outcome]
    BY <1>1, <2>1
  <2>3. FetchShape(f) /\ Deserved(r, f) /\ (Owned(old) => Owned(f))
    BY <1>1, <2>a, <2>2 DEF FetchShape, Deserved, Owned, Sent
  <2>4. QED BY <2>1, <2>3 DEF old
\* Without a switch in progress the live file is the active profile's, and the profile
\* must be the active one: the request went out with its credentials.
<1>8. CASE P!CompareOwner(r)
  <2> DEFINE f == [old EXCEPT !.pc = "save"]
  <2>1. CASE P!Drop(r) BY <2>1, <1>0
  <2>2. CASE ~P!Drop(r)
    <3>1. /\ old.pc = "compare" /\ P!Go(r, f)
          /\ old.own => active = old.profile /\ old.generation = generation
      BY <1>8, <2>2 DEF P!CompareOwner, P!At
    <3> HIDE DEF old
    <3>2. f = [pc |-> "save", profile |-> old.profile, own |-> old.own, print |-> old.print,
               generation |-> old.generation, seen |-> old.seen, before |-> old.before,
               fresh |-> old.fresh, whose |-> old.whose, outcome |-> old.outcome]
      BY <1>1
    <3> HIDE DEF f
    <3>3. FetchShape(f) /\ Deserved(r, f) BY <1>1, <3>1, <3>2 DEF FetchShape, Deserved
    <3>4. Owned(old) /\ (live = active \/ Pending) => Owned(f)
      BY <3>1, <3>2 DEF Owned, Sent
    <3>5. QED BY <3>1, <3>3, <3>4 DEF old
  <2>3. QED BY <2>1, <2>2
<1>9. CASE P!SaveSnapshot(r)
  <2>1. P!Drop(r) BY <1>9 DEF P!SaveSnapshot
  <2>2. QED BY <2>1, <1>0
<1>10. QED BY <1>2, <1>3, <1>4, <1>5, <1>6, <1>7, <1>8, <1>9

\* A fetch begins while there is no other.
LEMMA FetchBegins ==
  ASSUME NEW r \in P!Refreshers, NEW p \in Profiles, P!AcquireProviderLock(r, p)
  PROVE  /\ \A u \in P!Refreshers : fetch[u] = P!NoFetch
         /\ \E f : P!Go(r, f) /\ FetchShape(f) /\ Deserved(r, f) /\ Owned(f)
<1>1. P!Begin(r, p) /\ \A u \in P!Refreshers : fetch[u] = P!NoFetch
  BY DEF P!AcquireProviderLock
<1>2. CASE P!Drop(r) BY <1>1, <1>2, NoFetchFits DEF P!Drop
<1>3. CASE ~P!Drop(r)
  <2> DEFINE own == p = listed[r].active
             f == [pc |-> IF own THEN "owner" ELSE "decide", profile |-> p, own |-> own,
                   print |-> <<>>, generation |-> 0, seen |-> <<>>, before |-> P!NoEntry,
                   fresh |-> FALSE, whose |-> Nobody, outcome |-> "none"]
  <2>1. P!Go(r, f) BY <1>1, <1>3 DEF P!Begin
  <2>2. own \in BOOLEAN /\ f.own <=> own OBVIOUS
  <2> HIDE DEF own
  <2>3. FetchShape(f) /\ Deserved(r, f) BY NoEntryFits DEF FetchShape, Deserved
  <2>4. Owned(f) BY <2>2 DEF Owned, Sent
  <2>5. QED BY <1>1, <2>1, <2>3, <2>4
<1>4. QED BY <1>2, <1>3

LEMMA OlderFits ==
  ASSUME NEW f, f.pc # "none", f.profile \in Profiles, NEW before, EntryShape(before),
         NEW g,
         g = [pc |-> f.pc, profile |-> f.profile, own |-> f.own, print |-> f.print,
              generation |-> f.generation, seen |-> f.seen, before |-> before,
              fresh |-> FALSE, whose |-> f.whose, outcome |-> f.outcome]
  PROVE  /\ FetchShape(g) /\ g # P!NoFetch
         /\ g.pc = f.pc /\ g.seen = f.seen /\ g.profile = f.profile
         /\ Owned(f) => Owned(g)
<1>1. g.pc = f.pc /\ g.seen = f.seen /\ g.profile = f.profile OBVIOUS
<1>2. FetchShape(g) BY DEF FetchShape
<1>3. g # P!NoFetch BY <1>1, NoFetchFits
<1>4. Owned(f) => Owned(g) BY DEF Owned, Sent
<1>5. QED BY <1>1, <1>2, <1>3, <1>4

\* The interval goes by during a fetch.
LEMMA ElapseShape ==
  ASSUME NEW f, FetchShape(f), f # P!NoFetch
  PROVE  \E before :
           /\ EntryShape(before)
           /\ [f EXCEPT !.fresh = FALSE, !.before.fresh = FALSE]
                = [pc |-> f.pc, profile |-> f.profile, own |-> f.own, print |-> f.print,
                   generation |-> f.generation, seen |-> f.seen, before |-> before,
                   fresh |-> FALSE, whose |-> f.whose, outcome |-> f.outcome]
<1> DEFINE before == [f.before EXCEPT !.fresh = FALSE]
<1>1. /\ EntryShape(f.before)
      /\ f = [pc |-> f.pc, profile |-> f.profile, own |-> f.own, print |-> f.print,
              generation |-> f.generation, seen |-> f.seen, before |-> f.before,
              fresh |-> f.fresh, whose |-> f.whose, outcome |-> f.outcome]
  BY DEF FetchShape
<1>2. PICK g : g = [f EXCEPT !.fresh = FALSE, !.before.fresh = FALSE] OBVIOUS
<1>3. g = [f EXCEPT !.fresh = FALSE, !.before = before]
  <2>1. g = [f EXCEPT !.fresh = FALSE, !.before = [@ EXCEPT !.fresh = FALSE]] BY <1>2
  <2>2. QED BY <2>1, <1>1
<1>4. EntryShape(before) BY <1>1, OldEntryFits
<1> HIDE DEF before
<1>5. g = [pc |-> f.pc, profile |-> f.profile, own |-> f.own, print |-> f.print,
           generation |-> f.generation, seen |-> f.seen, before |-> before,
           fresh |-> FALSE, whose |-> f.whose, outcome |-> f.outcome]
  BY <1>1, <1>3
<1>6. QED BY <1>2, <1>4, <1>5

LEMMA ElapseFits ==
  ASSUME NEW f, FetchShape(f), f # P!NoFetch
  PROVE  \E g : /\ g = [f EXCEPT !.fresh = FALSE, !.before.fresh = FALSE]
                /\ FetchShape(g) /\ g # P!NoFetch
                /\ g.pc = f.pc /\ g.seen = f.seen /\ g.profile = f.profile
                /\ Owned(f) => Owned(g)
<1>1. PICK before :
        /\ EntryShape(before)
        /\ [f EXCEPT !.fresh = FALSE, !.before.fresh = FALSE]
             = [pc |-> f.pc, profile |-> f.profile, own |-> f.own, print |-> f.print,
                generation |-> f.generation, seen |-> f.seen, before |-> before,
                fresh |-> FALSE, whose |-> f.whose, outcome |-> f.outcome]
  BY ElapseShape
<1>2. f.pc # "none" /\ f.profile \in Profiles BY DEF FetchShape
<1> DEFINE g == [pc |-> f.pc, profile |-> f.profile, own |-> f.own, print |-> f.print,
                 generation |-> f.generation, seen |-> f.seen, before |-> before,
                 fresh |-> FALSE, whose |-> f.whose, outcome |-> f.outcome]
<1>3. /\ FetchShape(g) /\ g # P!NoFetch
      /\ g.pc = f.pc /\ g.seen = f.seen /\ g.profile = f.profile
      /\ Owned(f) => Owned(g)
  <2>1. EntryShape(before) BY <1>1
  <2> HIDE DEF g
  <2>2. g = [pc |-> f.pc, profile |-> f.profile, own |-> f.own, print |-> f.print,
             generation |-> f.generation, seen |-> f.seen, before |-> before,
             fresh |-> FALSE, whose |-> f.whose, outcome |-> f.outcome]
    BY DEF g
  <2>3. QED BY <1>2, <2>1, <2>2, OlderFits
<1>4. g = [f EXCEPT !.fresh = FALSE, !.before.fresh = FALSE] BY <1>1
<1> HIDE DEF g
<1>5. QED BY <1>3, <1>4

\* What the steps of FetchInv have in common: the fetch of one refresher changes, and all
\* others have none.
LEMMA OnlyFetch ==
  ASSUME FetchInv, NEW r \in P!Refreshers, NEW f, P!Go(r, f), FetchShape(f), Deserved(r, f),
         UNCHANGED <<cache, known>>, \A u \in P!Refreshers \ {r} : fetch[u] = P!NoFetch
  PROVE  FetchInv'
<1>1. fetch'[r] = f /\ \A u \in P!Refreshers \ {r} : fetch'[u] = P!NoFetch
  BY DEF P!Go, FetchInv, FetchesShape
<1>2. FetchesShape' BY <1>1, NoFetchFits DEF P!Go, FetchInv, FetchesShape, FetchShape, EntryShape
<1>3. OneFetch' BY <1>1 DEF OneFetch
<1>4. ASSUME NEW u \in P!Refreshers PROVE Deserved(u, fetch[u])'
  <2>1. CASE u = r BY <2>1, <1>1 DEF Deserved
  <2>2. CASE u # r BY <2>2, <1>1, NoFetchFits DEF Deserved
  <2>3. QED BY <2>1, <2>2
<1>5. QED BY <1>2, <1>3, <1>4 DEF FetchInv

LEMMA FiledFits ==
  ASSUME NEW f, EntryShape(f.before) PROVE EntryShape(P!Filed(f))
BY DEF P!Filed, EntryShape

LEMMA FetchStep == FetchInv /\ [P!Next]_(P!vars) => FetchInv'
<1> SUFFICES ASSUME FetchInv, [P!Next]_(P!vars) PROVE FetchInv' OBVIOUS
<1>s. FetchesShape /\ OneFetch /\ \A r \in P!Refreshers : Deserved(r, fetch[r]) BY DEF FetchInv
\* Fetches stay, and no entry becomes fresh.
<1>f. ASSUME UNCHANGED fetch, cache' = [p \in Profiles |-> cache'[p]],
             \A p \in Profiles : EntryShape(cache'[p]) /\ (cache'[p].fresh => cache[p].fresh),
             known' \in {known, <<>>}
      PROVE  FetchInv'
  <2>1. FetchesShape' BY <1>f, <1>s DEF FetchesShape, FetchShape, EntryShape
  <2>2. OneFetch' BY <1>f, <1>s DEF OneFetch
  <2>3. ASSUME NEW r \in P!Refreshers, fetch[r].pc = "call" PROVE Deserved(r, fetch[r])'
    <3>1. fetch[r].profile \in Profiles
      BY <2>3, <1>s, NoFetchFits DEF FetchesShape, FetchShape
    <3>2. Deserved(r, fetch[r]) BY <1>s
    <3>3. QED BY <2>3, <3>1, <3>2, <1>f DEF Deserved
  <2>4. \A r \in P!Refreshers : Deserved(r, fetch[r])' BY <1>f, <2>3 DEF Deserved
  <2>5. QED BY <2>1, <2>2, <2>4 DEF FetchInv
<1>c. /\ cache = [p \in Profiles |-> cache[p]]
      /\ \A p \in Profiles : EntryShape(cache[p])
  BY <1>s DEF FetchesShape
<1>1. CASE UNCHANGED <<fetch, cache, known>> BY <1>1, <1>c, <1>f
<1>2. CASE P!UsagesCommand
  <2>1. UNCHANGED <<fetch, known>> /\ cache' = [p \in Profiles |-> P!NoEntry]
    BY <1>2 DEF P!UsagesCommand
  <2>2. cache' = [p \in Profiles |-> cache'[p]] /\ \A p \in Profiles : cache'[p] = P!NoEntry
    BY <2>1
  <2>3. QED BY <2>1, <2>2, <1>f, NoEntryFits
<1>3. ASSUME NEW s \in P!Switchers, P!InvalidateProfileSnapshot(s) PROVE FetchInv'
  <2>1. PICK p : UNCHANGED fetch /\ known' = <<>> /\ cache' = [cache EXCEPT ![p] = P!NoEntry]
    BY <1>3 DEF P!InvalidateProfileSnapshot
  <2>2. /\ cache' = [q \in Profiles |-> cache'[q]]
        /\ \A q \in Profiles : cache'[q] = cache[q] \/ cache'[q] = P!NoEntry
    BY <2>1, <1>c
  <2>3. QED BY <2>1, <2>2, <1>c, <1>f, NoEntryFits
<1>4. CASE P!Elapse
  <2>1. /\ cache' = [p \in Profiles |-> [cache[p] EXCEPT !.fresh = FALSE]] /\ UNCHANGED known
        /\ fetch' = [r \in P!Refreshers |->
                       IF fetch[r] = P!NoFetch THEN P!NoFetch
                       ELSE [fetch[r] EXCEPT !.fresh = FALSE, !.before.fresh = FALSE]]
    BY <1>4 DEF P!Elapse
  <2>2. /\ cache' = [p \in Profiles |-> cache'[p]]
        /\ \A p \in Profiles : EntryShape(cache'[p]) /\ ~cache'[p].fresh
    BY <2>1, <1>c, OldEntryFits
  <2>3. ASSUME NEW r \in P!Refreshers
        PROVE  FetchShape(fetch'[r]) /\ fetch'[r].pc = fetch[r].pc
               /\ fetch'[r].seen = fetch[r].seen /\ fetch'[r].profile = fetch[r].profile
               /\ (fetch'[r] = P!NoFetch <=> fetch[r] = P!NoFetch)
    <3>1. CASE fetch[r] = P!NoFetch BY <2>1, <3>1, NoFetchFits
    <3>2. CASE fetch[r] # P!NoFetch
      <4>1. FetchShape(fetch[r]) BY <1>s DEF FetchesShape
      <4>2. fetch'[r] = [fetch[r] EXCEPT !.fresh = FALSE, !.before.fresh = FALSE] BY <2>1, <3>2
      <4>3. PICK g : /\ g = [fetch[r] EXCEPT !.fresh = FALSE, !.before.fresh = FALSE]
                     /\ FetchShape(g) /\ g # P!NoFetch
                     /\ g.pc = fetch[r].pc /\ g.seen = fetch[r].seen
                     /\ g.profile = fetch[r].profile
        BY <3>2, <4>1, ElapseFits
      <4>4. fetch'[r] = g BY <4>2, <4>3
      <4>5. QED BY <3>2, <4>3, <4>4
    <3>3. QED BY <3>1, <3>2
  <2>4. FetchesShape'
    <3>1. \A r \in P!Refreshers : FetchShape(fetch[r])' BY <2>3 DEF FetchShape, EntryShape
    <3>2. fetch' = [r \in P!Refreshers |-> fetch'[r]] BY <2>1
    <3>3. (\A p \in Profiles : EntryShape(cache[p]))' BY <2>2 DEF EntryShape
    <3>4. QED BY <2>2, <3>1, <3>2, <3>3 DEF FetchesShape
  <2>5. OneFetch' BY <2>3, <1>s DEF OneFetch
  <2>6. ASSUME NEW r \in P!Refreshers PROVE Deserved(r, fetch[r])'
    <3>1. CASE fetch[r].pc = "call"
      <4>1. fetch[r].profile \in Profiles
        BY <3>1, <1>s, NoFetchFits DEF FetchesShape, FetchShape
      <4>2. fetch[r].seen # <<>> BY <3>1, <1>s DEF Deserved
      <4>3. QED BY <4>1, <4>2, <2>2, <2>3 DEF Deserved
    <3>2. CASE fetch[r].pc # "call" BY <3>2, <2>3 DEF Deserved
    <3>3. QED BY <3>1, <3>2
  <2>7. QED BY <2>4, <2>5, <2>6 DEF FetchInv
<1>5. ASSUME NEW r \in P!Refreshers, NEW p \in Profiles, P!AcquireProviderLock(r, p)
      PROVE  FetchInv'
  <2>1. UNCHANGED <<cache, known>> BY <1>5 DEF P!AcquireProviderLock, P!Begin
  <2>2. QED BY <2>1, <1>5, FetchBegins, OnlyFetch
<1>6. ASSUME NEW r \in P!Refreshers,
             \/ P!ReadOwner(r) \/ P!ReadGeneration(r) \/ P!DecideAgain(r) \/ P!SendRequest(r)
             \/ P!SkipExpired(r)
             \/ \E outcome \in {"ok", "transient", "refused"} : P!Answer(r, outcome)
             \/ P!CompareOwner(r)
      PROVE  FetchInv'
  <2>1. UNCHANGED <<cache, known>>
    BY <1>6
    DEF P!ReadOwner, P!ReadGeneration, P!DecideAgain, P!SendRequest, P!SkipExpired, P!Answer,
        P!CompareOwner
  <2>2. fetch[r] # P!NoFetch
    BY <1>6, NoFetchFits
    DEF P!ReadOwner, P!ReadGeneration, P!DecideAgain, P!SendRequest, P!SkipExpired, P!Answer,
        P!CompareOwner, P!At
  <2>3. PICK f : P!Go(r, f) /\ FetchShape(f) /\ Deserved(r, f) BY <1>6, <1>s, FetchGoes
  <2>4. \A u \in P!Refreshers \ {r} : fetch[u] = P!NoFetch BY <2>2, <1>s DEF OneFetch
  <2>5. QED BY <2>1, <2>3, <2>4, OnlyFetch
\* Only a fetch that ends files an entry, and then there is no other fetch.
<1>7. ASSUME NEW r \in P!Refreshers, P!SaveSnapshot(r) PROVE FetchInv'
  <2>1. /\ fetch[r] # P!NoFetch /\ P!Go(r, P!NoFetch)
        /\ cache' = cache \/ cache' = [cache EXCEPT ![fetch[r].profile] = P!Filed(fetch[r])]
    BY <1>7, NoFetchFits DEF P!SaveSnapshot, P!At, P!Drop
  <2>2. EntryShape(P!Filed(fetch[r]))
    <3>1. EntryShape(fetch[r].before) BY <2>1, <1>s DEF FetchesShape, FetchShape
    <3>2. QED BY <3>1, FiledFits
  <2>3. /\ cache' = [p \in Profiles |-> cache'[p]]
        /\ \A p \in Profiles : EntryShape(cache'[p])
    BY <2>1, <2>2, <1>c
  <2>4. /\ fetch' = [u \in P!Refreshers |-> fetch'[u]]
        /\ \A u \in P!Refreshers : fetch'[u] = P!NoFetch
    BY <2>1, <1>s DEF OneFetch, P!Go, FetchesShape
  <2>5. FetchesShape'
    <3>1. \A u \in P!Refreshers : FetchShape(fetch[u])'
      BY <2>4, NoFetchFits DEF FetchShape, EntryShape
    <3>2. QED BY <2>3, <2>4, <3>1 DEF FetchesShape, EntryShape
  <2>6. OneFetch' /\ \A u \in P!Refreshers : Deserved(u, fetch[u])'
    BY <2>4, NoFetchFits DEF OneFetch, Deserved
  <2>7. QED BY <2>5, <2>6 DEF FetchInv
<1>8. CASE UNCHANGED P!vars BY <1>8, <1>1 DEF P!vars
<1>9. CASE P!Next
  <2>1. CASE \/ \E s \in P!Switchers, q \in Profiles : P!AskSwitch(s, q)
             \/ \E s \in P!Switchers : P!SwitchNoOp(s) \/ P!SwapLive(s) \/ P!SaveActive(s)
             \/ \E p \in Profiles : P!Rotate(p)
             \/ P!SetProviderEnabled
             \/ \E r \in P!Refreshers : P!BeginRound(r) \/ P!PickProfiles(r) \/ P!EndRound(r)
    BY <2>1, <1>1
    DEF P!AskSwitch, P!SwitchNoOp, P!SwapLive, P!SaveActive, P!Rotate, P!SetProviderEnabled,
        P!BeginRound, P!PickProfiles, P!EndRound
  <2>2. QED BY <1>9, <2>1, <1>2, <1>3, <1>4, <1>5, <1>6, <1>7 DEF P!Next
<1>10. QED BY <1>8, <1>9

LEMMA FetchInit == P!Init => FetchInv
<1> SUFFICES ASSUME P!Init PROVE FetchInv OBVIOUS
<1>1. /\ fetch = [r \in P!Refreshers |-> P!NoFetch] /\ cache = [p \in Profiles |-> P!NoEntry]
  BY DEF P!Init
<1>2. QED BY <1>1, NoFetchFits, NoEntryFits DEF FetchInv, FetchesShape, OneFetch

\* The poller takes its own steps or none.
LEMMA RacesPoll == [RacesNext]_racesVars => [P!Next]_(P!vars)
BY DEF RacesNext, racesVars, Poll, pollVars, P!vars, P!world, P!round

LEMMA FetchHolds == RacesSpec => []FetchInv
<1>1. RacesInit => FetchInv BY FetchInit DEF RacesInit
<1>2. QED BY <1>1, FetchStep, RacesPoll, PTL DEF RacesSpec

Asking ==
  \A r \in P!Refreshers :
    P!At(r, "call") /\ fetch'[r].pc = "wait" /\ ~P!Forced(r)
      => \/ ~cache[fetch[r].profile].fresh
         \/ fetch[r].own /\ known # fetch[r].seen

\* Whatever is filed, switched, rotated and invalidated between the decision to fetch and
\* the request, the ticker's request goes out only for numbers that are old, or with
\* credentials of which no fetch has ended since: the provider's lock keeps the other
\* refresher from filing them meanwhile (manager.go:1329-1388).
THEOREM AskedAgainInTime == RacesSpec => AskedOnce
<1>1. FetchInv => [Asking]_(P!vars) BY DEF FetchInv, Deserved, P!At, Asking
<1>2. QED BY <1>1, FetchHolds, PTL DEF AskedOnce, P!AskedOnce, Asking

SwitchShape ==
  /\ generation \in Nat /\ switcher = [s \in P!Switchers |-> switcher[s]]
  /\ \A s \in P!Switchers :
       \/ switcher[s] = P!Idle
       \/ switcher[s] = [pc |-> switcher[s].pc, out |-> switcher[s].out, to |-> switcher[s].to]

\* The live file and the state file differ only while the one switch that is between the
\* two writes is.
Switching ==
  /\ \A s, t \in P!Switchers : switcher[s].pc = "swapped" /\ switcher[t].pc = "swapped" => s = t
  /\ \A s \in P!Switchers : switcher[s].pc = "swapped" => live = switcher[s].to
  /\ live = active \/ \E s \in P!Switchers : switcher[s].pc = "swapped"

NumbersInv == SwitchShape /\ Switching /\ \A r \in P!Refreshers : Owned(fetch[r])

LEMMA NumbersInit == Clis = {} /\ P!Init => NumbersInv
<1> SUFFICES ASSUME Clis = {}, P!Init PROVE NumbersInv OBVIOUS
<1>1. \A s \in P!Switchers : switcher[s] = P!Idle /\ switcher[s].pc = "idle"
  BY DEF P!Init, P!Idle
<1>2. SwitchShape BY <1>1 DEF P!Init, SwitchShape
<1>3. Switching BY <1>1 DEF P!Init, Switching
<1>4. \A r \in P!Refreshers : Owned(fetch[r]) BY NoFetchFits DEF P!Init
<1>5. QED BY <1>2, <1>3, <1>4 DEF NumbersInv

\* Steps that leave switches and fetches alone.
LEMMA NumbersStill ==
  ASSUME NumbersInv, UNCHANGED <<live, active, switcher, generation, fetch>>
  PROVE  NumbersInv'
BY DEF NumbersInv, SwitchShape, Switching, Owned, Sent, Pending

\* The steps of a switch.
LEMMA NumbersSwitch ==
  ASSUME Clis = {}, NumbersInv, NEW s \in P!Switchers,
         \/ \E q \in Profiles : P!AskSwitch(s, q)
         \/ P!SwitchNoOp(s) \/ P!SwapLive(s) \/ P!SaveActive(s) \/ P!InvalidateProfileSnapshot(s)
  PROVE  NumbersInv'
<1>s. SwitchShape /\ Switching /\ \A r \in P!Refreshers : Owned(fetch[r])
  BY DEF NumbersInv
<1>w. P!Switchers = Webs BY DEF P!Switchers
<1>i. P!Idle.pc = "idle" BY DEF P!Idle
<1>f. UNCHANGED fetch
  BY DEF P!AskSwitch, P!SwitchNoOp, P!SwapLive, P!SaveActive, P!InvalidateProfileSnapshot
<1>1. ASSUME NEW q \in Profiles, P!AskSwitch(s, q) PROVE NumbersInv'
  <2> DEFINE to == [pc |-> "asked", out |-> active, to |-> q]
  <2>1. /\ switcher' = [switcher EXCEPT ![s] = to] /\ switcher[s] = P!Idle
        /\ UNCHANGED <<active, live, generation>>
    BY <1>1 DEF P!AskSwitch
  <2>2. to.pc = "asked" /\ to = [pc |-> to.pc, out |-> to.out, to |-> to.to] OBVIOUS
  <2> HIDE DEF to
  <2>3. /\ switcher'[s] = to /\ \A t \in P!Switchers \ {s} : switcher'[t] = switcher[t]
        /\ switcher[s].pc = "idle"
    BY <2>1, <1>i, <1>s DEF SwitchShape
  <2>4. SwitchShape' BY <2>1, <2>2, <2>3, <1>f, <1>s DEF SwitchShape
  <2>5. Switching' BY <2>1, <2>2, <2>3, <1>s DEF Switching
  <2>6. Pending => Pending' BY <2>2, <2>3, <1>w DEF Pending
  <2>7. \A r \in P!Refreshers : Owned(fetch[r])' BY <2>1, <2>6, <1>f, <1>s DEF Owned, Sent
  <2>8. QED BY <2>4, <2>5, <2>7 DEF NumbersInv
<1>2. CASE P!SwitchNoOp(s)
  <2>1. /\ switcher' = [switcher EXCEPT ![s] = P!Idle] /\ switcher[s].pc = "asked"
        /\ UNCHANGED <<active, live, generation>>
    BY <1>2 DEF P!SwitchNoOp
  <2>3. switcher'[s] = P!Idle /\ \A t \in P!Switchers \ {s} : switcher'[t] = switcher[t]
    BY <2>1, <1>s DEF SwitchShape
  <2>4. SwitchShape' BY <2>1, <2>3, <1>f, <1>s DEF SwitchShape
  <2>5. Switching' BY <2>1, <2>3, <1>i, <1>s DEF Switching
  <2>6. Pending => Pending' BY <2>1, <2>3, <1>w DEF Pending
  <2>7. \A r \in P!Refreshers : Owned(fetch[r])' BY <2>1, <2>6, <1>f, <1>s DEF Owned, Sent
  <2>8. QED BY <2>4, <2>5, <2>7 DEF NumbersInv
<1>3. CASE P!SwapLive(s)
  <2>1. /\ switcher' = [switcher EXCEPT ![s].pc = "swapped"] /\ switcher[s].pc = "asked"
        /\ \A t \in P!Switchers : switcher[t].pc # "swapped"
        /\ live' = switcher[s].to /\ UNCHANGED <<active, generation>>
    BY <1>3 DEF P!SwapLive
  <2>2. switcher[s] = [pc |-> switcher[s].pc, out |-> switcher[s].out, to |-> switcher[s].to]
    BY <2>1, <1>i, <1>s DEF SwitchShape
  <2>3. /\ switcher'[s] = [pc |-> "swapped", out |-> switcher[s].out, to |-> switcher[s].to]
        /\ \A t \in P!Switchers \ {s} : switcher'[t] = switcher[t]
    BY <2>1, <2>2, <1>s DEF SwitchShape
  <2>4. SwitchShape' BY <2>1, <2>3, <1>f, <1>s DEF SwitchShape
  <2>5. Switching' BY <2>1, <2>3, <1>s DEF Switching
  <2>6. Pending' BY <2>3, <1>w DEF Pending
  <2>7. \A r \in P!Refreshers : Owned(fetch[r])' BY <2>1, <2>6, <1>f, <1>s DEF Owned, Sent
  <2>8. QED BY <2>4, <2>5, <2>7 DEF NumbersInv
<1>4. CASE P!SaveActive(s)
  <2>1. /\ switcher' = [switcher EXCEPT ![s] = [switcher[s] EXCEPT !.pc = "outgoing"]]
        /\ switcher[s].pc = "swapped" /\ active' = switcher[s].to
        /\ UNCHANGED <<live, generation>>
    BY <1>4, <1>w DEF P!SaveActive
  <2>2. switcher[s] = [pc |-> switcher[s].pc, out |-> switcher[s].out, to |-> switcher[s].to]
    BY <2>1, <1>i, <1>s DEF SwitchShape
  <2>3. /\ switcher'[s] = [pc |-> "outgoing", out |-> switcher[s].out, to |-> switcher[s].to]
        /\ \A t \in P!Switchers \ {s} : switcher'[t] = switcher[t]
    BY <2>1, <2>2, <1>s DEF SwitchShape
  <2>4. SwitchShape' BY <2>1, <2>3, <1>f, <1>s DEF SwitchShape
  <2>5. Switching' BY <2>1, <2>3, <1>s DEF Switching
  <2>6. Pending' BY <2>3, <1>w DEF Pending
  <2>7. \A r \in P!Refreshers : Owned(fetch[r])' BY <2>1, <2>6, <1>f, <1>s DEF Owned, Sent
  <2>8. QED BY <2>4, <2>5, <2>7 DEF NumbersInv
<1>5. CASE P!InvalidateProfileSnapshot(s)
  <2> DEFINE more == switcher[s].pc = "outgoing" /\ switcher[s].to # switcher[s].out
             to == IF more THEN [switcher[s] EXCEPT !.pc = "incoming"] ELSE P!Idle
  <2>1. /\ switcher' = [switcher EXCEPT ![s] = to]
        /\ switcher[s].pc \in {"outgoing", "incoming"} /\ P!Unlocked
        /\ generation' = generation + 1 /\ UNCHANGED <<active, live>>
    BY <1>5 DEF P!InvalidateProfileSnapshot
  <2>2. switcher[s] = [pc |-> switcher[s].pc, out |-> switcher[s].out, to |-> switcher[s].to]
    BY <2>1, <1>i, <1>s DEF SwitchShape
  <2>3. /\ to = P!Idle \/ to = [pc |-> to.pc, out |-> to.out, to |-> to.to]
        /\ to.pc # "swapped"
    BY <2>2, <1>i
  <2> HIDE DEF to
  <2>4. switcher'[s] = to /\ \A t \in P!Switchers \ {s} : switcher'[t] = switcher[t]
    BY <2>1, <1>s DEF SwitchShape
  <2>5. generation \in Nat BY <1>s DEF SwitchShape
  <2>6. SwitchShape' BY <2>1, <2>3, <2>4, <2>5, <1>f, <1>s DEF SwitchShape
  <2>7. Switching' BY <2>1, <2>3, <2>4, <1>s DEF Switching
  <2>8. \A r \in P!Refreshers : ~(fetch[r].pc = "save" /\ fetch[r].own) BY <2>1 DEF P!Unlocked
  <2>9. \A n \in Nat : n <= generation => n <= generation + 1 /\ n # generation + 1 BY <2>5
  <2>10. \A r \in P!Refreshers : Owned(fetch[r])'
    BY <2>1, <2>8, <2>9, <1>f, <1>s DEF Owned, Sent
  <2>11. QED BY <2>6, <2>7, <2>10 DEF NumbersInv
<1>6. QED BY <1>1, <1>2, <1>3, <1>4, <1>5

\* The steps of a fetch.
LEMMA NumbersFetch ==
  ASSUME Clis = {}, NumbersInv, FetchInv,
         UNCHANGED <<live, active, switcher, generation>>,
         \A r \in P!Refreshers : Owned(fetch[r]) => Owned(fetch'[r])
  PROVE  NumbersInv'
<1>1. SwitchShape' /\ Switching' BY DEF NumbersInv, SwitchShape, Switching
<1>2. ASSUME NEW r \in P!Refreshers PROVE Owned(fetch[r])'
  <2>1. Owned(fetch'[r]) BY DEF NumbersInv
  <2>2. QED BY <2>1 DEF Owned, Sent, Pending
<1>3. QED BY <1>1, <1>2 DEF NumbersInv

LEMMA NumbersStep ==
  ASSUME Clis = {}, NumbersInv, FetchInv, P!Next
  PROVE  NumbersInv'
<1>s. FetchesShape /\ generation \in Nat /\ (live = active \/ Pending)
  <2>1. P!Switchers = Webs BY DEF P!Switchers
  <2>2. QED BY <2>1 DEF NumbersInv, FetchInv, SwitchShape, Switching, Pending
\* A refresher whose fetch goes on, and the others.
<1>g. ASSUME NEW r \in P!Refreshers, NEW f, P!Go(r, f), Owned(fetch[r]) => Owned(f),
             UNCHANGED <<live, active, switcher, generation>>
      PROVE  NumbersInv'
  <2>1. fetch'[r] = f /\ \A u \in P!Refreshers \ {r} : fetch'[u] = fetch[u]
    BY <1>g, <1>s DEF P!Go, FetchesShape
  <2>2. \A u \in P!Refreshers : Owned(fetch[u]) => Owned(fetch'[u]) BY <2>1, <1>g
  <2>3. QED BY <2>2, <1>g, NumbersFetch
<1>1. ASSUME NEW s \in P!Switchers,
             \/ \E q \in Profiles : P!AskSwitch(s, q)
             \/ P!SwitchNoOp(s) \/ P!SwapLive(s) \/ P!SaveActive(s)
             \/ P!InvalidateProfileSnapshot(s)
      PROVE  NumbersInv'
  BY <1>1, NumbersSwitch
<1>2. CASE \/ \E p \in Profiles : P!Rotate(p)
           \/ P!SetProviderEnabled \/ P!UsagesCommand
           \/ \E r \in P!Refreshers : P!BeginRound(r) \/ P!PickProfiles(r) \/ P!EndRound(r)
  BY <1>2, NumbersStill
  DEF P!Rotate, P!SetProviderEnabled, P!UsagesCommand, P!BeginRound, P!PickProfiles,
      P!EndRound, P!world, P!round
<1>3. ASSUME NEW r \in P!Refreshers, NEW p \in Profiles, P!AcquireProviderLock(r, p)
      PROVE  NumbersInv'
  <2>1. UNCHANGED <<live, active, switcher, generation>>
    BY <1>3 DEF P!AcquireProviderLock, P!Begin, P!world
  <2>2. PICK f : P!Go(r, f) /\ Owned(f) BY <1>3, FetchBegins
  <2>3. QED BY <2>1, <2>2, <1>g
<1>4. ASSUME NEW r \in P!Refreshers,
             \/ P!ReadOwner(r) \/ P!ReadGeneration(r) \/ P!DecideAgain(r) \/ P!SendRequest(r)
             \/ P!SkipExpired(r)
             \/ \E outcome \in {"ok", "transient", "refused"} : P!Answer(r, outcome)
             \/ P!CompareOwner(r) \/ P!SaveSnapshot(r)
      PROVE  NumbersInv'
  <2>1. UNCHANGED <<live, active, switcher, generation>>
    BY <1>4
    DEF P!ReadOwner, P!ReadGeneration, P!DecideAgain, P!SendRequest, P!SkipExpired, P!Answer,
        P!CompareOwner, P!SaveSnapshot, P!world
  <2>2. PICK f : /\ P!Go(r, f)
                 /\ generation \in Nat /\ Owned(fetch[r]) /\ (live = active \/ Pending) => Owned(f)
    BY <1>4, <1>s, FetchGoes
  <2>3. QED BY <2>1, <2>2, <1>s, <1>g
<1>5. CASE P!Elapse
  <2>1. /\ UNCHANGED <<live, active, switcher, generation>>
        /\ fetch' = [r \in P!Refreshers |->
                       IF fetch[r] = P!NoFetch THEN P!NoFetch
                       ELSE [fetch[r] EXCEPT !.fresh = FALSE, !.before.fresh = FALSE]]
    BY <1>5 DEF P!Elapse, P!world
  <2>2. ASSUME NEW r \in P!Refreshers, Owned(fetch[r]) PROVE Owned(fetch'[r])
    <3>1. CASE fetch[r] = P!NoFetch BY <2>1, <3>1, NoFetchFits
    <3>2. CASE fetch[r] # P!NoFetch
      <4>1. FetchShape(fetch[r]) BY <1>s DEF FetchesShape
      <4>2. fetch'[r] = [fetch[r] EXCEPT !.fresh = FALSE, !.before.fresh = FALSE] BY <2>1, <3>2
      <4>3. PICK g : /\ g = [fetch[r] EXCEPT !.fresh = FALSE, !.before.fresh = FALSE]
                     /\ Owned(fetch[r]) => Owned(g)
        BY <3>2, <4>1, ElapseFits
      <4>4. fetch'[r] = g BY <4>2, <4>3
      <4>5. QED BY <2>2, <4>3, <4>4
    <3>3. QED BY <3>1, <3>2
  <2>3. QED BY <2>1, <2>2, NumbersFetch
<1>6. QED BY <1>1, <1>2, <1>3, <1>4, <1>5 DEF P!Next

LEMMA NumbersHold ==
  ASSUME Clis = {}
  PROVE  RacesSpec => []NumbersInv
<1>1. RacesInit => NumbersInv BY NumbersInit DEF RacesInit
<1>2. NumbersInv /\ FetchInv /\ [P!Next]_(P!vars) => NumbersInv'
  <2> SUFFICES ASSUME NumbersInv, FetchInv, [P!Next]_(P!vars) PROVE NumbersInv' OBVIOUS
  <2>1. CASE P!Next BY <2>1, NumbersStep
  <2>2. CASE UNCHANGED P!vars BY <2>2, NumbersStill DEF P!vars, P!world
  <2>3. QED BY <2>1, <2>2
<1>3. QED BY <1>1, <1>2, FetchHolds, RacesPoll, PTL DEF RacesSpec

\* Of the steps only SaveSnapshot ends a fetch that has come as far as saving.
LEMMA OnlySaveEnds ==
  ASSUME FetchInv, [P!Next]_(P!vars), NEW r \in P!Refreshers, fetch[r].pc = "save",
         fetch'[r].pc = "none"
  PROVE  P!SaveSnapshot(r)
<1>1. CASE UNCHANGED fetch BY <1>1
<1>2. fetch = [u \in P!Refreshers |-> fetch[u]] /\ fetch[r] # P!NoFetch
  BY NoFetchFits DEF FetchInv, FetchesShape
<1>3. ASSUME NEW u \in P!Refreshers, NEW f, P!Go(u, f), fetch[u].pc # "save" PROVE FALSE
  BY <1>2, <1>3 DEF P!Go
<1>4. ASSUME NEW u \in P!Refreshers, NEW p \in Profiles, P!AcquireProviderLock(u, p) PROVE FALSE
  BY <1>2, <1>4, FetchBegins
<1>5. ASSUME NEW u \in P!Refreshers,
             \/ P!ReadOwner(u) \/ P!ReadGeneration(u) \/ P!DecideAgain(u) \/ P!SendRequest(u)
             \/ P!SkipExpired(u)
             \/ \E outcome \in {"ok", "transient", "refused"} : P!Answer(u, outcome)
             \/ P!CompareOwner(u)
      PROVE  FALSE
  <2>1. fetch[u].pc # "save"
    BY <1>5
    DEF P!ReadOwner, P!ReadGeneration, P!DecideAgain, P!SendRequest, P!SkipExpired, P!Answer,
        P!CompareOwner, P!At
  <2>2. \E f : P!Go(u, f) BY <1>5, FetchGoes DEF FetchInv
  <2>3. QED BY <2>1, <2>2, <1>3
<1>6. ASSUME NEW u \in P!Refreshers, P!SaveSnapshot(u) PROVE P!SaveSnapshot(r)
  <2>1. fetch[u] # P!NoFetch BY <1>6, NoFetchFits DEF P!SaveSnapshot, P!At
  <2>2. u = r BY <2>1, <1>2 DEF FetchInv, OneFetch
  <2>3. QED BY <1>6, <2>2
<1>7. CASE P!Elapse
  <2>1. fetch'[r] = [fetch[r] EXCEPT !.fresh = FALSE, !.before.fresh = FALSE]
    BY <1>7, <1>2 DEF P!Elapse
  <2>2. FetchShape(fetch[r]) BY DEF FetchInv, FetchesShape
  <2>3. PICK g : /\ g = [fetch[r] EXCEPT !.fresh = FALSE, !.before.fresh = FALSE]
                 /\ g.pc = fetch[r].pc
    BY <1>2, <2>2, ElapseFits
  <2>4. fetch'[r] = g BY <2>1, <2>3
  <2>5. QED BY <2>3, <2>4
<1>8. CASE UNCHANGED P!vars BY <1>8, <1>1 DEF P!vars
<1>9. CASE P!Next
  <2>1. CASE \/ \E s \in P!Switchers, q \in Profiles : P!AskSwitch(s, q)
             \/ \E s \in P!Switchers : \/ P!SwitchNoOp(s) \/ P!SwapLive(s) \/ P!SaveActive(s)
                                        \/ P!InvalidateProfileSnapshot(s)
             \/ \E p \in Profiles : P!Rotate(p)
             \/ P!SetProviderEnabled \/ P!UsagesCommand
             \/ \E u \in P!Refreshers : P!BeginRound(u) \/ P!PickProfiles(u) \/ P!EndRound(u)
    BY <2>1, <1>1
    DEF P!AskSwitch, P!SwitchNoOp, P!SwapLive, P!SaveActive, P!InvalidateProfileSnapshot,
        P!Rotate, P!SetProviderEnabled, P!UsagesCommand, P!BeginRound, P!PickProfiles, P!EndRound
  <2>2. QED BY <1>9, <2>1, <1>4, <1>5, <1>6, <1>7 DEF P!Next
<1>10. QED BY <1>8, <1>9

Filing ==
  \A r \in P!Refreshers :
    P!At(r, "save") /\ fetch'[r].pc = "none" /\ fetch[r].outcome = "ok" /\ enabled
      => \/ cache'[fetch[r].profile].whose = fetch[r].profile
         \/ \E s \in Webs : switcher[s].pc \in {"swapped", "outgoing", "incoming"}

\* What is filed are the numbers of the request that went out.
LEMMA NumbersFiled ==
  ASSUME NumbersInv, FetchInv, [P!Next]_(P!vars)
  PROVE  [Filing]_(P!vars)
<1> SUFFICES ASSUME NEW r \in P!Refreshers, fetch[r].pc = "save", fetch'[r].pc = "none",
                    fetch[r].outcome = "ok", enabled, ~Pending
             PROVE  cache'[fetch[r].profile].whose = fetch[r].profile
  BY DEF Filing, Pending, P!At
<1>1. fetch[r].whose = fetch[r].profile BY DEF NumbersInv, Owned, Sent
<1>2. fetch[r].profile \in Profiles /\ cache = [p \in Profiles |-> cache[p]]
  BY NoFetchFits DEF FetchInv, FetchesShape, FetchShape
<1>3. P!SaveSnapshot(r) BY OnlySaveEnds
<1>4. cache' = [cache EXCEPT ![fetch[r].profile] = P!Filed(fetch[r])] BY <1>3 DEF P!SaveSnapshot
<1>5. P!Filed(fetch[r]).whose = fetch[r].whose BY DEF P!Filed
<1>6. QED BY <1>1, <1>2, <1>4, <1>5

\* When only the server switches accounts, the numbers a fetch files are the profile's
\* own, whatever is switched, rotated, invalidated and read meanwhile, unless a switch has
\* its invalidations still to make; both refreshers and any number of switches together.
THEOREM NumbersFiledRight ==
  ASSUME Clis = {}
  PROVE  RacesSpec => NumbersOwn
<1>1. NumbersInv /\ FetchInv /\ [P!Next]_(P!vars) => [Filing]_(P!vars) BY NumbersFiled
<1>2. QED
  BY <1>1, NumbersHold, FetchHolds, RacesPoll, PTL
  DEF RacesSpec, NumbersOwn, P!NumbersOwn, Filing
=============================================================================
