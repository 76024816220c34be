------------------------------- MODULE Roles --------------------------------
(***************************************************************************)
(* The role definitions of the aimebu server and who holds them: the       *)
(* built-in catalog, its overrides, custom roles, PUT and DELETE /roles,    *)
(* POST /rooms/{id}/roles, and the rule that an agent's name is no role     *)
(* key.                                                                    *)
(*                                                                         *)
(* Definitions are guarded by rolesMu and agents and rooms by the store     *)
(* lock; no request holds both across its checks, so each request is one    *)
(* step per critical section.  saveRoles copies the definitions under the   *)
(* lock and writes the two tables after it; a write that fails is only      *)
(* logged, and a start that cannot read a table goes on without definitions. *)
(* Descriptions, icons and bodies are left out, and every registered agent  *)
(* counts as a member of every room: membership is in Rooms.                *)
(***************************************************************************)
EXTENDS Integers, FiniteSets

CONSTANTS
  Catalog,     \* the built-in role keys
  CustomKeys,  \* the other keys a client may define
  NoKey,       \* "no role", "extends nothing"
  Default,     \* [built-in key -> its entry in defaults_roles.json]
  Agents,      \* the AI agents that may register
  NameOf,      \* [agent -> its name, which may be a custom key]
  Nobody,      \* the agent of a request that names none
  RoomIDs,     \* the rooms
  Handlers,    \* goroutines serving the requests
  Payloads,    \* bound: the bodies of PUT /roles the clients send
  Calls        \* bound: the calls the clients of this instance make

Keys == Catalog \cup CustomKeys
Cardinalities == {"multi", "singleton"}
Entry == [cardinality : Cardinalities, extends : Keys \cup {NoKey}]
Definitions(ks) == UNION {[D -> Entry] : D \in SUBSET ks}

ASSUME RolesAssumption ==
  /\ IsFiniteSet(Keys) /\ Catalog \cap CustomKeys = {} /\ NoKey \notin Keys
  /\ Default \in [Catalog -> Entry]
  /\ Nobody \notin Agents /\ DOMAIN NameOf = Agents
  /\ Payloads \subseteq Definitions(Keys)
  /\ Calls \subseteq {"put", "delete", "reset", "assign", "unassign", "register",
                      "deregister", "clear", "restart"}

VARIABLES
  registered,     \* the registered agents
  holding,        \* room id -> agent -> the role it holds there, or NoKey
  overrides,      \* built-in keys that are overridden -> their entries
  custom,         \* custom keys that exist -> their entries
  savedOverrides, \* the table role_overrides
  savedCustom,    \* the table role_custom
  serving,        \* handler -> the state of the request it serves
  \* What the properties talk about; no step reads these.
  failed,         \* tables whose last write or read failed
  setBack         \* custom keys that a start after a failed write or read took or brought back

people == <<registered, holding>>
definitions == <<overrides, custom>>
tables == <<savedOverrides, savedCustom, failed, setBack>>
vars == <<people, definitions, tables, serving>>

-----------------------------------------------------------------------------

Nothing == [k \in {} |-> NoKey]
Request ==
  [pc : {"idle", "check", "snapshot", "remove", "cascade", "unseat", "swap", "find", "drop",
         "reset", "save", "write_overrides", "write_custom", "look_up", "commit",
         "clear_roles"},
   agent : Agents \cup {Nobody}, room : RoomIDs \cup {NoKey}, key : Keys \cup {NoKey},
   payload : Definitions(Keys), force : BOOLEAN,
   todo : SUBSET Keys,            \* keys still to be checked or removed
   left : SUBSET RoomIDs,         \* rooms still to be cleared of key
   cardinality : Cardinalities,   \* as read before the store lock was taken
   copy : Definitions(Catalog) \X Definitions(CustomKeys)]

Idle == [pc |-> "idle", agent |-> Nobody, room |-> NoKey, key |-> NoKey,
         payload |-> Nothing, force |-> FALSE, todo |-> {}, left |-> {},
         cardinality |-> "multi", copy |-> <<Nothing, Nothing>>]

TypeOK ==
  /\ registered \subseteq Agents
  /\ holding \in [RoomIDs -> [Agents -> Keys \cup {NoKey}]]
  /\ overrides \in Definitions(Catalog) /\ custom \in Definitions(CustomKeys)
  /\ savedOverrides \in Definitions(Catalog) /\ savedCustom \in Definitions(CustomKeys)
  /\ serving \in [Handlers -> Request]
  /\ failed \subseteq {"overrides", "custom"} /\ setBack \subseteq CustomKeys

RoleExists(k) == k \in Catalog \cup DOMAIN custom
AgentNameExists(k) == \E a \in registered : NameOf[a] = k
RoomsWithRole(k) == {r \in RoomIDs : \E a \in Agents : holding[r][a] = k}

\* An override speaks before a custom role, and the catalog last.
CardinalityOf(k) ==
  IF k \in DOMAIN overrides THEN overrides[k].cardinality
  ELSE IF k \in DOMAIN custom THEN custom[k].cardinality
  ELSE IF k \in Catalog THEN Default[k].cardinality ELSE "multi"

\* What a role extends: an override that names no base leaves the catalog's.
Extends(k) ==
  IF k \in DOMAIN overrides /\ overrides[k].extends # NoKey THEN overrides[k].extends
  ELSE IF k \in DOMAIN custom THEN custom[k].extends
  ELSE IF k \in Catalog THEN Default[k].extends ELSE NoKey

\* Does the chain from k along e run into a loop?
Cyclic(e, k) ==
  LET walk[n \in 0..Cardinality(Keys)] ==
        IF n = 0 THEN k ELSE IF walk[n - 1] = NoKey THEN NoKey ELSE e[walk[n - 1]]
  IN  walk[Cardinality(Keys)] # NoKey

\* What validateRoleExtensionCycles takes every role to extend once p is in force:
\* roles that p removes still count, and an entry without a base has none.
ExtendsUnder(p) ==
  [k \in Keys |->
     IF k \in DOMAIN p THEN p[k].extends
     ELSE IF k \in DOMAIN custom THEN custom[k].extends
     ELSE IF k \in DOMAIN overrides THEN overrides[k].extends
     ELSE IF k \in Catalog THEN Default[k].extends ELSE NoKey]

Free(h, call) == serving[h].pc = "idle" /\ call \in Calls
Serve(h, req) == serving' = [serving EXCEPT ![h] = req]
Done(h) == Serve(h, Idle)
GoTo(h, pc) == Serve(h, [Idle EXCEPT !.pc = pc])
Without(defs, k) == [j \in DOMAIN defs \ {k} |-> defs[j]]
Only(defs, ks) == [j \in DOMAIN defs \cap ks |-> defs[j]]
Unassigned(r, k) == [holding EXCEPT ![r] = [a \in Agents |-> IF @[a] = k THEN NoKey ELSE @[a]]]

-----------------------------------------------------------------------------
(* PUT /roles: replace every override and every custom role.               *)

ReplaceRoles(h, p, force) ==
  /\ Free(h, "put")
  /\ \A k \in DOMAIN p : ~Cyclic(ExtendsUnder(p), k)
  /\ Serve(h, [Idle EXCEPT !.pc = IF DOMAIN p = {} THEN "snapshot" ELSE "check",
                           !.payload = p, !.force = force, !.todo = DOMAIN p])
  /\ UNCHANGED <<people, definitions, tables>>

\* One entry after the other: no custom key names an agent, no base is unknown.
EntryAllowed(p, k) ==
  /\ k \in CustomKeys => ~AgentNameExists(k)
  /\ p[k].extends # NoKey => RoleExists(p[k].extends) \/ p[k].extends \in DOMAIN p

CheckEntry(h) ==
  LET req == serving[h] IN
  /\ req.pc = "check"
  /\ \E k \in req.todo :
       IF EntryAllowed(req.payload, k)
       THEN Serve(h, [req EXCEPT !.todo = @ \ {k},
                                 !.pc = IF req.todo = {k} THEN "snapshot" ELSE "check"])
       ELSE Done(h)
  /\ UNCHANGED <<people, definitions, tables>>

NextRemoval(todo) == IF todo = {} THEN "swap" ELSE "remove"

Snapshot(h) ==
  LET gone == (DOMAIN overrides \cup DOMAIN custom) \ DOMAIN serving[h].payload IN
  /\ serving[h].pc = "snapshot"
  /\ Serve(h, [serving[h] EXCEPT !.todo = gone, !.pc = NextRemoval(gone)])
  /\ UNCHANGED <<people, definitions, tables>>

\* A removed custom role that somebody holds is a conflict, or is taken away
\* room by room when the request forces it.
RemoveKey(h) ==
  LET req == serving[h] IN
  /\ req.pc = "remove"
  /\ \E k \in req.todo :
       LET rest == req.todo \ {k} IN
       IF k \in Catalog \/ RoomsWithRole(k) = {}
       THEN Serve(h, [req EXCEPT !.todo = rest, !.pc = NextRemoval(rest)])
       ELSE IF req.force
       THEN Serve(h, [req EXCEPT !.todo = rest, !.pc = "cascade", !.key = k,
                                 !.left = RoomsWithRole(k)])
       ELSE Done(h)
  /\ UNCHANGED <<people, definitions, tables>>

\* assignRole(room, "", key) for one room of the list, in "cascade" on behalf of a
\* replacement and in "unseat" of a deletion.
CascadeRoom(h) ==
  LET req == serving[h] IN
  /\ req.pc \in {"cascade", "unseat"}
  /\ \E r \in req.left :
       /\ holding' = Unassigned(r, req.key)
       /\ Serve(h, [req EXCEPT !.left = @ \ {r},
                               !.pc = IF req.left # {r} THEN @
                                      ELSE IF @ = "unseat" THEN "drop"
                                      ELSE NextRemoval(req.todo)])
  /\ UNCHANGED <<registered, definitions, tables>>

SwapUnsaved(h) ==
  /\ serving[h].pc = "swap"
  /\ overrides' = Only(serving[h].payload, Catalog)
  /\ custom' = Only(serving[h].payload, CustomKeys)
  /\ Done(h)
  /\ UNCHANGED <<people, tables>>

Swap(h) ==
  /\ serving[h].pc = "swap"
  /\ overrides' = Only(serving[h].payload, Catalog)
  /\ custom' = Only(serving[h].payload, CustomKeys)
  /\ GoTo(h, "save")
  /\ UNCHANGED <<people, tables>>

-----------------------------------------------------------------------------
(* DELETE /roles/{key} and DELETE /roles.                                  *)

DeleteRole(h, k, force) ==
  /\ Free(h, "delete")
  /\ RoleExists(k)
  /\ Serve(h, [Idle EXCEPT !.pc = "find", !.key = k, !.force = force])
  /\ UNCHANGED <<people, definitions, tables>>

FindAnyway(h) ==
  /\ serving[h].pc = "find"
  /\ Serve(h, [serving[h] EXCEPT !.pc = "drop"])
  /\ UNCHANGED <<people, definitions, tables>>

Find(h) ==
  LET req == serving[h]  rs == RoomsWithRole(req.key) IN
  /\ req.pc = "find"
  /\ IF req.key \in Catalog \/ rs = {} THEN Serve(h, [req EXCEPT !.pc = "drop"])
     ELSE IF req.force THEN Serve(h, [req EXCEPT !.pc = "unseat", !.left = rs])
     ELSE Done(h)
  /\ UNCHANGED <<people, definitions, tables>>

Drop(h) ==
  /\ serving[h].pc = "drop"
  /\ overrides' = Without(overrides, serving[h].key)
  /\ custom' = Without(custom, serving[h].key)
  /\ GoTo(h, "save")
  /\ UNCHANGED <<people, tables>>

\* Without force the request looks for assigned roles, with force it clears them;
\* either way it wipes the definitions in a later critical section.
DeleteAll(h, force) ==
  /\ Free(h, "reset")
  /\ force \/ \A r \in RoomIDs, a \in Agents : holding[r][a] = NoKey
  /\ holding' = [r \in RoomIDs |-> [a \in Agents |-> NoKey]]
  /\ GoTo(h, "reset")
  /\ UNCHANGED <<registered, definitions, tables>>

Reset(h) ==
  /\ serving[h].pc = "reset"
  /\ overrides' = Nothing /\ custom' = Nothing
  /\ GoTo(h, "save")
  /\ UNCHANGED <<people, tables>>

-----------------------------------------------------------------------------
(* saveRoles: copy both maps, then one transaction per table, each of which  *)
(* succeeds or is logged and left at that.                                 *)

Saved(table) == failed' = failed \ {table}
Unsaved(table) == failed' = failed \cup {table}

CopyForSave(h) ==
  /\ serving[h].pc = "save"
  /\ Serve(h, [Idle EXCEPT !.pc = "write_overrides", !.copy = <<overrides, custom>>])
  /\ UNCHANGED <<people, definitions, tables>>

WriteOverrides(h) ==
  /\ serving[h].pc = "write_overrides"
  /\ \/ savedOverrides' = serving[h].copy[1] /\ Saved("overrides")
     \/ UNCHANGED savedOverrides /\ Unsaved("overrides")
  /\ Serve(h, [serving[h] EXCEPT !.pc = "write_custom"])
  /\ UNCHANGED <<people, definitions, savedCustom, setBack>>

WriteCustom(h) ==
  /\ serving[h].pc = "write_custom"
  /\ \/ savedCustom' = serving[h].copy[2] /\ Saved("custom")
     \/ UNCHANGED savedCustom /\ Unsaved("custom")
  /\ Done(h)
  /\ UNCHANGED <<people, definitions, savedOverrides, setBack>>

-----------------------------------------------------------------------------
(* POST /rooms/{id}/roles.                                                 *)

AssignRole(h, a, r, k) ==
  /\ Free(h, "assign")
  /\ RoleExists(k)
  /\ Serve(h, [Idle EXCEPT !.pc = "look_up", !.agent = a, !.room = r, !.key = k])
  /\ UNCHANGED <<people, definitions, tables>>

LookUpCardinality(h) ==
  /\ serving[h].pc = "look_up"
  /\ Serve(h, [serving[h] EXCEPT !.pc = "commit", !.cardinality = CardinalityOf(serving[h].key)])
  /\ UNCHANGED <<people, definitions, tables>>

\* Under the store lock: the agent must be there, and a singleton role free.
NeverTaken(req) == FALSE
Taken(req) ==
  /\ req.cardinality = "singleton"
  /\ \E b \in Agents \ {req.agent} : holding[req.room][b] = req.key

CommitAssignment(h) ==
  LET req == serving[h] IN
  /\ req.pc = "commit"
  /\ holding' = IF req.agent \in registered /\ ~Taken(req)
                THEN [holding EXCEPT ![req.room][req.agent] = req.key] ELSE holding
  /\ Done(h)
  /\ UNCHANGED <<registered, definitions, tables>>

UnassignRole(h, a, r) ==
  /\ Free(h, "unassign")
  /\ holding' = [holding EXCEPT ![r][a] = NoKey]
  /\ UNCHANGED <<registered, definitions, tables, serving>>

-----------------------------------------------------------------------------
(* Agents, prune -a, restart.                                              *)

\* registerAI holds the store lock while it asks for the role keys, so the name
\* it takes, forced or picked, is no role key at that moment.
Register(h, a) ==
  /\ Free(h, "register")
  /\ a \notin registered /\ ~RoleExists(NameOf[a])
  /\ registered' = registered \cup {a}
  /\ UNCHANGED <<holding, definitions, tables, serving>>

Deregister(h, a) ==
  /\ Free(h, "deregister")
  /\ a \in registered
  /\ registered' = registered \ {a}
  /\ holding' = [r \in RoomIDs |-> [holding[r] EXCEPT ![a] = NoKey]]
  /\ UNCHANGED <<definitions, tables, serving>>

ClearAll(h) ==
  /\ Free(h, "clear")
  /\ registered' = {}
  /\ holding' = [r \in RoomIDs |-> [a \in Agents |-> NoKey]]
  /\ GoTo(h, "clear_roles")
  /\ UNCHANGED <<definitions, tables>>

\* clearRoles empties the tables while it holds rolesMu, unless that fails.
ClearRoles(h) ==
  /\ serving[h].pc = "clear_roles"
  /\ overrides' = Nothing /\ custom' = Nothing
  /\ \E kept \in SUBSET {"overrides", "custom"} :
       /\ savedOverrides' = IF "overrides" \in kept THEN savedOverrides ELSE Nothing
       /\ savedCustom' = IF "custom" \in kept THEN savedCustom ELSE Nothing
       /\ failed' = kept
  /\ Done(h)
  /\ UNCHANGED <<people, setBack>>

\* Agents, rooms and assignments are persisted under the store lock; of the
\* definitions a restart finds what the tables hold, or none when one of them cannot
\* be read: roles.json was moved away when the tables were made.
Restart ==
  /\ "restart" \in Calls
  /\ \/ overrides' = savedOverrides /\ custom' = savedCustom /\ failed' = {}
     \/ overrides' = Nothing /\ custom' = Nothing /\ failed' = {"overrides", "custom"}
  /\ setBack' = setBack \cup {k \in CustomKeys : /\ "custom" \in failed \cup failed'
                                               /\ (k \in DOMAIN custom) # (k \in DOMAIN custom')}
  /\ serving' = [h \in Handlers |-> Idle]
  /\ UNCHANGED <<people, savedOverrides, savedCustom>>

-----------------------------------------------------------------------------

Init ==
  /\ registered = {}
  /\ holding = [r \in RoomIDs |-> [a \in Agents |-> NoKey]]
  /\ overrides = Nothing /\ custom = Nothing
  /\ savedOverrides = Nothing /\ savedCustom = Nothing
  /\ serving = [h \in Handlers |-> Idle]
  /\ failed = {} /\ setBack = {}

Define(h) ==
  \/ \E p \in Payloads, force \in BOOLEAN : ReplaceRoles(h, p, force)
  \/ \E k \in Keys, force \in BOOLEAN : DeleteRole(h, k, force)
  \/ \E force \in BOOLEAN : DeleteAll(h, force)
  \/ CheckEntry(h) \/ Snapshot(h) \/ RemoveKey(h) \/ CascadeRoom(h) \/ Swap(h)
  \/ Find(h) \/ Drop(h) \/ Reset(h)
  \/ CopyForSave(h) \/ WriteOverrides(h) \/ WriteCustom(h)

Assign(h) ==
  \/ \E a \in Agents, r \in RoomIDs :
        UnassignRole(h, a, r) \/ \E k \in Keys : AssignRole(h, a, r, k)
  \/ LookUpCardinality(h) \/ CommitAssignment(h)

Enrol(h) ==
  \/ \E a \in Agents : Register(h, a) \/ Deregister(h, a)
  \/ ClearAll(h) \/ ClearRoles(h)

Next == (\E h \in Handlers : Define(h) \/ Assign(h) \/ Enrol(h)) \/ Restart

Spec == Init /\ [][Next]_vars

-----------------------------------------------------------------------------
(* Properties.                                                             *)

\* A built-in singleton role that no client redefines.
FixedSingletons ==
  {k \in Catalog : /\ Default[k].cardinality = "singleton"
                   /\ \A p \in Payloads : k \in DOMAIN p => p[k].cardinality = "singleton"}

\* "Built-in leader is singleton per room" (README.md:719): two assignments that
\* race each other, a replacement or a restart never seat two.
SingletonHeld ==
  \A k \in FixedSingletons, r \in RoomIDs, a, b \in Agents :
    holding[r][a] = k /\ holding[r][b] = k => a = b

\* "Removing an assigned custom role returns 409; add ?force=true to
\* cascade-unassign" (README.md:437): nobody holds a role that is not defined, but for
\* those a start after a failed write or read has taken.
AssignedRolesExist ==
  \A r \in RoomIDs, a \in Agents :
    holding[r][a] # NoKey => RoleExists(holding[r][a]) \/ holding[r][a] \in setBack

\* No agent is called like a role: "new collisions are rejected" (roles.go:358),
\* or a mention of the name would be taken for a mention of the role; but a start
\* after a failed write may bring a role back.
NamesApart == \A a \in registered : ~RoleExists(NameOf[a]) \/ NameOf[a] \in setBack

\* Once nobody changes the definitions, each table whose last write and read succeeded
\* holds what the server uses, so a restart changes nothing.
SavedWhenQuiet ==
  (\A h \in Handlers : serving[h].pc = "idle") =>
    /\ "overrides" \notin failed => savedOverrides = overrides
    /\ "custom" \notin failed => savedCustom = custom

\* "role ... creates an extends cycle" (roles.go:399): an accepted definition
\* leaves no role that extends itself through others.
NoExtendsCycle ==
  \A k \in Catalog \cup DOMAIN custom : ~Cyclic([j \in Keys |-> Extends(j)], k)
=============================================================================
