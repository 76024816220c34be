----------------------------- MODULE MessageData -----------------------------
(***************************************************************************)
(* What hangs on a message without being part of it: the reactions, keyed    *)
(* by the message's id, and the uploaded images it refers to.  Each has its   *)
(* own lock and its own table, so a handler that looks a message up under    *)
(* the store's lock acts on what it saw later, while rooms are deleted,      *)
(* messages stored, sweeps remove what no message holds any more, and a     *)
(* prune -a clears everything part by part.  A table that cannot be written  *)
(* or read is only logged.  After a restart the ids of deleted messages are  *)
(* given out again.                                                         *)
(*                                                                         *)
(* One room; the members that react or post are in it while it is open.      *)
(***************************************************************************)
EXTENDS Integers, FiniteSets

CONSTANTS
  Reactors,  \* members of the room that react
  Uploads,   \* images
  NoUpload,  \* a message without an image
  Workers,   \* handler goroutines and the cleanup goroutine
  MaxPosts   \* bound: messages posted in a behaviour

VARIABLES
  roomOpen,    \* does the room exist?
  posts,       \* stored messages: id, number of the post, image
  lastID,      \* the id counter
  reactions,   \* id -> <<who, number of the post it was meant for>>
  reactionRows,\* the same in the database
  files,       \* images on disk
  registry,    \* images in the attachment registry
  registryRows,\* the same in the database
  aged,        \* images uploaded longer than the orphan grace ago
  doing,       \* worker -> the request or sweep it is in
  posted,      \* number of the last post
  \* What the properties talk about; no step reads these.
  crossed,     \* posts stored while a sweep of the reactions or a prune -a was under way
  unsaved,     \* ids whose reactions once could not be saved, or not be read
  unserved     \* images a named race, a failed save or a kill may have taken from a message

memory == <<roomOpen, posts, lastID, reactions, files, registry, aged>>
rows == <<reactionRows, registryRows>>
vars == <<memory, rows, doing, posted, crossed, unsaved, unserved>>

-----------------------------------------------------------------------------
Ids == 1..MaxPosts
Idle == [pc |-> "idle"]
IdsOf(ms) == {m.id : m \in ms}
Shown(ms) == {m.image : m \in ms} \ {NoUpload}
\* attachmentsMu is held across the removal of a file and the write of the table.
RegistryFree == \A w \in Workers : doing[w].pc # "unlisted"
Turn(w, next) == doing' = [doing EXCEPT ![w] = next]
\* What a prune -a has still to clear after the messages.
Clearing == {"unregister", "unlink", "forget"}

Init ==
  /\ roomOpen = TRUE /\ posts = {} /\ lastID = 0 /\ posted = 0
  /\ reactions = [i \in Ids |-> {}] /\ reactionRows = reactions
  /\ files = {} /\ registry = {} /\ registryRows = {} /\ aged = {}
  /\ doing = [w \in Workers |-> Idle]
  /\ crossed = {} /\ unsaved = {} /\ unserved = {}

-----------------------------------------------------------------------------
(* Messages. *)

\* The sender's membership and the image are checked first ...
Send(w, u) ==
  /\ doing[w].pc = "idle" /\ roomOpen /\ posted < MaxPosts
  /\ u = NoUpload \/ (u \in registry /\ RegistryFree)
  /\ Turn(w, [pc |-> "store", image |-> u])
  /\ UNCHANGED <<memory, rows, posted, crossed, unsaved, unserved>>

\* ... and the message is stored with its row, whatever happened since.
Store(w) ==
  /\ doing[w].pc = "store" /\ posted < MaxPosts
  /\ lastID' = lastID + 1 /\ posted' = posted + 1
  /\ posts' = posts \cup {[id |-> lastID', no |-> posted', image |-> doing[w].image]}
  /\ crossed' = IF \E v \in Workers : doing[v].pc \in {"prune"} \cup Clearing THEN crossed \cup {posted'} ELSE crossed
  /\ unserved' = IF \/ doing[w].image \notin registry
                    \/ \E v \in Workers : doing[v].pc \in {"remove", "sweep"}
                 THEN unserved \cup {doing[w].image} ELSE unserved
  /\ Turn(w, Idle)
  /\ UNCHANGED <<roomOpen, reactions, files, registry, aged, rows, unsaved>>

\* The room goes with its messages and their rows; then the reactions are swept.
DeleteRoom(w) ==
  /\ doing[w].pc = "idle" /\ roomOpen
  /\ roomOpen' = FALSE /\ posts' = {}
  /\ Turn(w, [pc |-> "look"])
  /\ UNCHANGED <<lastID, reactions, files, registry, aged, rows, posted, crossed, unsaved, unserved>>

JoinRoom ==
  /\ ~roomOpen /\ roomOpen' = TRUE
  /\ UNCHANGED <<posts, lastID, reactions, files, registry, aged, rows, doing, posted, crossed, unsaved, unserved>>

-----------------------------------------------------------------------------
(* Reactions. *)

\* The message is looked up, and the reactor's membership, under the store's lock ...
Look(w, who, m, verb) ==
  /\ doing[w].pc = "idle" /\ roomOpen /\ m \in posts
  /\ Turn(w, [pc |-> verb, who |-> who, id |-> m.id, no |-> m.no])
  /\ UNCHANGED <<memory, rows, posted, crossed, unsaved, unserved>>

\* A change is saved in the row of its message, or the failure logged.
Change(w, rs) ==
  LET i == doing[w].id IN
  /\ reactions' = [reactions EXCEPT ![i] = rs]
  /\ \/ UNCHANGED <<reactionRows, unsaved>> /\ rs = reactions[i]
     \/ reactionRows' = [reactionRows EXCEPT ![i] = rs] /\ UNCHANGED unsaved /\ rs # reactions[i]
     \/ UNCHANGED reactionRows /\ unsaved' = unsaved \cup {i} /\ rs # reactions[i]
  /\ Turn(w, Idle)
  /\ UNCHANGED <<roomOpen, posts, lastID, files, registry, aged, registryRows, posted, crossed, unserved>>

\* Mutant: only the memory learns of the reaction.
AddReactionUnsaved(w) ==
  LET d == doing[w] IN
  /\ d.pc = "add"
  /\ reactions' = [reactions EXCEPT ![d.id] =
                     IF \E r \in @ : r[1] = d.who THEN @ ELSE @ \cup {<<d.who, d.no>>}]
  /\ Turn(w, Idle)
  /\ UNCHANGED <<roomOpen, posts, lastID, files, registry, aged, rows, posted, crossed, unsaved, unserved>>

\* ... and the reaction is added or taken away under the reactions' lock.
AddReaction(w) ==
  LET d == doing[w] IN
  /\ d.pc = "add"
  /\ Change(w, IF \E r \in reactions[d.id] : r[1] = d.who THEN reactions[d.id]
               ELSE reactions[d.id] \cup {<<d.who, d.no>>})

RemoveReaction(w) ==
  LET d == doing[w] IN
  /\ d.pc = "take"
  /\ Change(w, {r \in reactions[d.id] : r[1] # d.who})

\* The sweep after a room's deletion and the periodic one.
LiveIDs(w) ==
  /\ doing[w].pc = "look"
  /\ Turn(w, [pc |-> "prune", live |-> IdsOf(posts)])
  /\ UNCHANGED <<memory, rows, posted, crossed, unsaved, unserved>>

Orphaned(live, rs) == [i \in Ids |-> IF i \in live THEN rs[i] ELSE {}]

\* The table is rewritten as a whole, or the failure logged.
PersistReactions ==
  /\ reactionRows' \in {reactions', reactionRows}
  /\ unsaved' = unsaved \cup {i \in Ids : reactionRows'[i] # reactions'[i]}

CleanupReactions(w) ==
  /\ doing[w].pc = "prune"
  /\ reactions' = Orphaned(doing[w].live, reactions)
  /\ IF reactions' = reactions THEN UNCHANGED <<reactionRows, unsaved>> ELSE PersistReactions
  /\ Turn(w, Idle)
  /\ UNCHANGED <<roomOpen, posts, lastID, files, registry, aged, registryRows, posted, crossed, unserved>>

-----------------------------------------------------------------------------
(* Images. *)

\* An upload writes the file, then registers it.
WriteFile(w, u) ==
  /\ doing[w].pc = "idle" /\ u \notin files \cup registry \cup aged
  /\ \A v \in Workers : doing[v].pc = "register" => doing[v].image # u
  /\ files' = files \cup {u}
  /\ Turn(w, [pc |-> "register", image |-> u])
  /\ UNCHANGED <<roomOpen, posts, lastID, reactions, registry, aged, rows, posted, crossed, unsaved, unserved>>

AddAttachment(w) ==
  /\ doing[w].pc = "register" /\ RegistryFree
  /\ registry' = registry \cup {doing[w].image}
  /\ \/ registryRows' = registry' /\ UNCHANGED unserved
     \/ UNCHANGED registryRows /\ unserved' = unserved \cup {doing[w].image}
  /\ Turn(w, Idle)
  /\ UNCHANGED <<roomOpen, posts, lastID, reactions, files, aged, reactionRows, posted, crossed, unsaved>>

\* The orphan grace of an upload ends, long after it was registered.
Age(u) ==
  /\ u \in files \ aged /\ \A w \in Workers : doing[w].pc = "register" => doing[w].image # u
  /\ aged' = aged \cup {u}
  /\ UNCHANGED <<roomOpen, posts, lastID, reactions, files, registry, rows, doing, posted, crossed, unsaved, unserved>>

\* A client deletes an image no message refers to.
AskDelete(w, u) ==
  /\ doing[w].pc = "idle" /\ u \in registry \ Shown(posts)
  /\ Turn(w, [pc |-> "remove", gone |-> {u}])
  /\ UNCHANGED <<memory, rows, posted, crossed, unsaved, unserved>>

\* The periodic cleanup: images referred to are collected under the store's lock.
StartSweep(w) ==
  /\ doing[w].pc = "idle"
  /\ Turn(w, [pc |-> "sweep", shown |-> Shown(posts)])
  /\ UNCHANGED <<memory, rows, posted, crossed, unsaved, unserved>>

Unlist(w, gone) ==
  /\ registry' = registry \ gone /\ files' = files \ gone
  /\ UNCHANGED <<roomOpen, posts, lastID, reactions, aged, rows, posted, crossed, unsaved, unserved>>

DeleteAttachment(w) ==
  /\ doing[w].pc = "remove" /\ RegistryFree
  /\ Unlist(w, registry \cap doing[w].gone)
  /\ Turn(w, [pc |-> "unlisted", then |-> "idle"])

\* Mutant: whatever is past the grace goes.
CleanupAttachmentsAll(w) ==
  /\ doing[w].pc = "sweep" /\ RegistryFree
  /\ Unlist(w, aged)
  /\ Turn(w, [pc |-> "unlisted", then |-> "look"])

\* Unregistered and past the grace, or a file nobody registered.
CleanupAttachments(w) ==
  /\ doing[w].pc = "sweep" /\ RegistryFree
  /\ Unlist(w, aged \ doing[w].shown)
  /\ Turn(w, [pc |-> "unlisted", then |-> "look"])

PersistAttachments(w) ==
  /\ doing[w].pc = "unlisted"
  /\ registryRows' \in {registry, registryRows}
  /\ Turn(w, [pc |-> doing[w].then])
  /\ UNCHANGED <<memory, reactionRows, posted, crossed, unsaved, unserved>>

-----------------------------------------------------------------------------
(* prune -a: messages, registry, files, reactions, each under a lock of its own. *)

ClearPosts(w) ==
  /\ doing[w].pc = "idle"
  /\ roomOpen' = FALSE /\ posts' = {}
  /\ Turn(w, [pc |-> "unregister"])
  /\ UNCHANGED <<lastID, reactions, files, registry, aged, rows, posted, crossed, unsaved, unserved>>

\* A message posted since the messages were cleared loses its image.
ClearRegistry(w) ==
  /\ doing[w].pc = "unregister" /\ RegistryFree
  /\ registry' = {} /\ registryRows' \in {{}, registryRows}
  /\ unserved' = unserved \cup registry
  /\ Turn(w, [pc |-> "unlink"])
  /\ UNCHANGED <<roomOpen, posts, lastID, reactions, files, aged, reactionRows, posted, crossed, unsaved>>

\* No lock is held: an upload meanwhile loses its file, and what cannot be removed stays.
ClearFiles(w) ==
  /\ doing[w].pc = "unlink"
  /\ files' \in SUBSET files
  /\ unserved' = unserved \cup registry \cup {doing[v].image : v \in {x \in Workers : doing[x].pc = "register"}}
  /\ Turn(w, [pc |-> "forget"])
  /\ UNCHANGED <<roomOpen, posts, lastID, reactions, registry, aged, rows, posted, crossed, unsaved>>

ClearReactions(w) ==
  /\ doing[w].pc = "forget"
  /\ reactions' = Orphaned({}, reactions) /\ PersistReactions
  /\ Turn(w, Idle)
  /\ UNCHANGED <<roomOpen, posts, lastID, files, registry, aged, registryRows, posted, crossed, unserved>>

-----------------------------------------------------------------------------
\* The rows of reactions are read one by one up to one that cannot be; then those of
\* messages that are not live are dropped.
LoadReactions(live) ==
  \E read \in 0..MaxPosts :
    LET loaded == Orphaned(1..read, reactionRows) IN
    /\ reactions' = Orphaned(live, loaded)
    /\ reactionRows' \in {reactionRows} \cup (IF reactions' = loaded THEN {} ELSE {reactions'})
    /\ unsaved' = unsaved \cup {i \in Ids : \/ loaded[i] # reactionRows[i]
                                            \/ reactionRows'[i] # reactions'[i]}

\* The table of images is read or the registry starts empty; images past the grace
\* that no message shows go.
LoadAttachments ==
  \E listed \in {registryRows, {}} :
    /\ registry' = listed \ (aged \ Shown(posts))
    /\ registryRows' \in {registryRows} \cup (IF registry' = listed THEN {} ELSE {registry'})
    /\ files' = files \ (aged \ Shown(posts))
    /\ unserved' = unserved \cup (registry' \ files') \cup (registryRows \ listed)

\* The ids go on after the highest stored one.
LastStored == lastID' = IF posts = {} THEN 0 ELSE CHOOSE i \in IdsOf(posts) : \A j \in IdsOf(posts) : j <= i

\* Mutant: no reaction is swept at startup.
RestartUnswept ==
  /\ LastStored /\ LoadAttachments /\ LoadReactions(Ids)
  /\ doing' = [w \in Workers |-> Idle]
  /\ UNCHANGED <<roomOpen, posts, aged, posted, crossed>>

\* The process ends anywhere.  The new one reads the tables and sweeps images, then
\* reactions, before it serves.
Restart ==
  /\ LastStored /\ LoadAttachments /\ LoadReactions(IdsOf(posts))
  /\ doing' = [w \in Workers |-> Idle]
  /\ UNCHANGED <<roomOpen, posts, aged, posted, crossed>>

Next ==
  \/ \E w \in Workers :
       \/ \E u \in Uploads \cup {NoUpload} : Send(w, u)
       \/ Store(w) \/ DeleteRoom(w)
       \/ \E who \in Reactors, m \in posts, verb \in {"add", "take"} : Look(w, who, m, verb)
       \/ AddReaction(w) \/ RemoveReaction(w) \/ LiveIDs(w) \/ CleanupReactions(w)
       \/ \E u \in Uploads : WriteFile(w, u) \/ AskDelete(w, u)
       \/ AddAttachment(w) \/ StartSweep(w)
       \/ DeleteAttachment(w) \/ CleanupAttachments(w) \/ PersistAttachments(w)
       \/ ClearPosts(w) \/ ClearRegistry(w) \/ ClearFiles(w) \/ ClearReactions(w)
  \/ JoinRoom \/ Restart
  \/ \E u \in Uploads : Age(u)

Spec == Init /\ [][Next]_vars

-----------------------------------------------------------------------------
\* A reaction is shown on the message it was given to, although its id may have
\* belonged to another message before the server was restarted: but for ids whose
\* reactions once could not be saved or read, whose old row may come back.
ReactionsTheirs ==
  \A m \in posts : m.id \notin unsaved => \A r \in reactions[m.id] : r[2] = m.no

\* A reaction stays on its message until its author takes it back, through
\* deletions of rooms, sweeps, clearing and restarts.  Only a sweep or a prune -a may
\* catch one of a message that was stored while it ran, and only a start may lose one
\* whose row could not be saved or read.
ReactionsKept ==
  [][\A m \in posts \cap posts' : \A r \in reactions[m.id] \ reactions'[m.id] :
       \/ m.no \in crossed
       \/ m.id \in unsaved' /\ \A w \in Workers : doing'[w] = Idle
       \/ \E w \in Workers : doing[w].pc = "take" /\ doing[w].who = r[1]]_vars

\* Every image a stored message refers to can be fetched.  Exempt are an image
\* deleted, or being deleted, between the check of the message that refers to it and
\* its storing; one uploaded or referred to while a prune -a removes the images; one
\* whose entry could not be saved or read; and one whose deletion a kill or a failed
\* save left half done.
ImagesServed ==
  \A m \in posts : m.image \in (files \cap registry) \cup unserved \cup {NoUpload}
=============================================================================
