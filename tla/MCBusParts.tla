----------------------------- MODULE MCBusParts -----------------------------
(***************************************************************************)
(* The parts of the bus server beside the message path, each in behaviours *)
(* of its own: mode says whose steps a behaviour takes.  The variables of  *)
(* the other parts keep their first values.                                *)
(***************************************************************************)
EXTENDS MCRooms

CONSTANTS
  Modes,                                                \* the modes a run is about
  Workers, Uploads, NoUpload, Reactors, MaxPosts,       \* MessageData
  Requests, Anywhere, Scopes,                           \* Presence
  Curators, Records, Names, Sounds, MemoryCap, MaxFleets, MaxSounds, MaxVersion, MaxCards, \* UserData
  MaxEdits                                              \* Storage

VARIABLES
  mode,
  roomOpen, posts, lastID, reactions, reactionRows, files, registry, registryRows, aged, doing,
  posted, overtaken, unsaved, unserved,
  known, state, pending, age, openWaits, openWS, telling, sweep, shown, prompt, swept,
  told, stirred, late, crossed, wide,
  on, records, memoryRows, cards, cardRows, kept, keptRows, sounds, soundRows, soundFiles,
  editing, spent, ended, unsure, cut,
  json, tables, exists, marked, newer, loaded, start, latest, harmed

dataVars == <<roomOpen, posts, lastID, reactions, reactionRows, files, registry, registryRows,
              aged, doing, posted, overtaken, unsaved, unserved>>
presenceVars == <<known, state, pending, age, openWaits, openWS, telling, sweep, shown, prompt,
                  swept, told, stirred, late, crossed, wide>>
userVars == <<on, records, memoryRows, cards, cardRows, kept, keptRows, sounds, soundRows,
              soundFiles, editing, spent, ended, unsure, cut>>
storageVars == <<json, tables, exists, marked, newer, loaded, start, latest, harmed>>
partsVars == <<mode, vars, dataVars, presenceVars, userVars, storageVars>>

D == INSTANCE MessageData WITH crossed <- overtaken
P == INSTANCE Presence WITH serving <- telling
U == INSTANCE UserData WITH Handlers <- Curators, serving <- editing, memory <- records
S == INSTANCE Storage WITH rows <- tables, memory <- loaded

\* Memory, names and sounds are changed in behaviours of their own, in which only the
\* saves and loads of these sections fail; so are reactions and images.
UserModes == {"records", "names", "sounds"}
Failing == [records |-> {"memory"}, names |-> {"fleets", "prompts"}, sounds |-> {"sounds", "cards"}]

PartsInit ==
  /\ mode \in Modes
  /\ Init /\ D!Init /\ P!Init /\ U!Init /\ S!Init
  /\ mode # "presence" => prompt = TRUE
  /\ mode # "storage" => \A s \in DOMAIN json : json[s] = 1
  /\ mode # "records" => on = TRUE

DataStep ==
  /\ D!Next
  /\ \/ mode = "reactions" /\ UNCHANGED files
     \/ mode = "images" /\ UNCHANGED reactions

UserStep ==
  /\ mode \in UserModes
  /\ \/ mode = "records" /\ ((\E v \in BOOLEAN : U!PutSettings(v)) \/ \E h \in Curators : U!Curate(h))
     \/ mode = "names" /\ \E h \in Curators : U!Save(h)
     \/ mode = "sounds" /\ \E h \in Curators : U!Play(h) \/ U!SubmitCard(h)
     \/ U!Restart \/ \E h \in Curators : U!Clear(h)
  /\ unsure' \subseteq Failing[mode]

PartsNext ==
  /\ \/ /\ mode = "rooms" /\ Next
        /\ UNCHANGED <<dataVars, presenceVars, userVars, storageVars>>
     \/ /\ DataStep
        /\ UNCHANGED <<vars, presenceVars, userVars, storageVars>>
     \/ /\ mode = "presence" /\ P!Next
        /\ UNCHANGED <<vars, dataVars, userVars, storageVars>>
     \/ /\ UserStep
        /\ UNCHANGED <<vars, dataVars, presenceVars, storageVars>>
     \/ /\ mode = "storage" /\ S!Next
        /\ UNCHANGED <<vars, dataVars, presenceVars, userVars>>
  /\ UNCHANGED mode
PartsSpec == PartsInit /\ [][PartsNext]_partsVars

\* The same two goroutines serve every mode: no definition tells one from the other.
MCSymmetry == Permutations(Handlers)

-----------------------------------------------------------------------------
\* What MessageData says of reactions and images: a reaction is shown on the message
\* it was given to and stays there (store_messages.go:575), and the image of a stored
\* message can be fetched (store_attachments.go:257).
ReactionsTheirs == D!ReactionsTheirs
ReactionsKept == D!ReactionsKept
ImagesServed == D!ImagesServed

\* What Presence says of the liveness sweep and the broadcasts of waits: rooms are told
\* in turn that an agent went and came back, never that one went that holds a
\* connection open, and the interface shows who listens (store_agents.go:482).
AlertsAlternate == P!AlertsAlternate
AlertsDeserved == P!AlertsDeserved
ListeningShown == P!ListeningShown

\* What UserData says of memory, names and sounds: curators do not overwrite each
\* other (memory.go:535), the tables follow memory but where a save failed or crossed
\* another (fleet.go:271), a listed sound can be played.
CurationKept == U!CurationKept
SavedWhenQuiet == U!SavedWhenQuiet
SoundsPlayable == U!SoundsPlayable

\* What Storage says of starts that are cut short (sqlite.go:25): a server that runs
\* knows every change, but what a save or a load that failed kept from it.
StartsWithLatest == S!StartsWithLatest
=============================================================================
