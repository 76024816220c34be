------------------------------- MODULE UserData -------------------------------
(***************************************************************************)
(* What users and agents leave on the server beside their conversations:     *)
(* memory records with versions, rating cards, named sections (fleets,       *)
(* prompt overrides) and notification sounds.  Every section has a lock, a   *)
(* copy in memory and a table that a save replaces as a whole.  Records,     *)
(* cards and the list of sounds are saved under their lock; a named section  *)
(* is copied and written after the lock was released, so that saves can      *)
(* overtake each other.  A save that fails is only logged, and a table that  *)
(* cannot be read at a start leaves its section empty: memory and table then *)
(* differ until the next save.  Clearing everything takes the sections in    *)
(* turn.                                                                    *)
(***************************************************************************)
EXTENDS Integers, FiniteSets, Functions

CONSTANTS
  Handlers,   \* request goroutines
  Records,    \* ids of memory records, each given out once
  Names,      \* names of fleets and prompt keys
  Sounds,     \* uploads, each with a new UUID
  MemoryCap,  \* bytes of a memory scope
  MaxFleets,  \* fleets there may be
  MaxSounds,  \* sounds there may be
  MaxVersion, \* bound: version of a memory record
  MaxCards    \* bound: rating cards on the leaderboards

VARIABLES
  on,        \* is memory enabled in the settings?
  memory,    \* record -> [version, text, size], or Absent
  memoryRows,
  cards, cardRows, \* number of rating cards
  kept,      \* section -> names it has
  keptRows,
  sounds, soundRows, soundFiles,
  serving,   \* handler -> its request
  \* What the properties talk about; no step reads these.
  spent,     \* records ever added, sounds ever uploaded
  ended,     \* records removed
  unsure,    \* sections whose last save or load failed, or whose last save was not alone
  cut        \* sounds whose removal may not have reached the table

vars == <<on, memory, memoryRows, cards, cardRows, kept, keptRows, sounds, soundRows, soundFiles,
          serving, spent, ended, unsure, cut>>
mem == <<memory, memoryRows, ended, cards, cardRows>>
named == <<kept, keptRows>>
audio == <<sounds, soundRows, soundFiles, cut>>

-----------------------------------------------------------------------------
Sections == {"fleets", "prompts"}
Others == {"memory", "cards", "sounds"}
Absent == [version |-> 0, size |-> 0]
Idle == [pc |-> "idle"]
Go(h, next) == serving' = [serving EXCEPT ![h] = next]
At(h, pc) == serving[h].pc = pc
\* A save replaced the table of s, or failed and was only logged.
Saved(s) == unsure' = unsure \ {s}
Unsaved(s) == unsure' = unsure \cup {s}
Present(m) == {i \in Records : m[i] # Absent}
Fits(m) == SumFunctionOnSet([i \in Records |-> m[i].size], Records) <= MemoryCap
\* soundsMu is held from the removal of a file to the write of the table.
SoundsFree == \A h \in Handlers : ~At(h, "unlisted")

Init ==
  /\ on \in BOOLEAN
  /\ memory = [i \in Records |-> Absent] /\ memoryRows = memory
  /\ cards = 0 /\ cardRows = 0
  /\ kept = [s \in Sections |-> {}] /\ keptRows = kept
  /\ sounds = {} /\ soundRows = {} /\ soundFiles = {}
  /\ serving = [h \in Handlers |-> Idle]
  /\ spent = {} /\ ended = {} /\ unsure = {} /\ cut = {}

-----------------------------------------------------------------------------
(* Memory.  What a request may do is checked before the lock is taken. *)

PutSettings(v) ==
  /\ on # v /\ on' = v
  /\ UNCHANGED <<unsure, mem, named, audio, serving, spent>>

\* Nobody adds to memory, and agents do not touch it, while it is off.
MemoryWriteAllowed == on

AskAdd(h, i, n) ==
  /\ At(h, "idle") /\ MemoryWriteAllowed /\ i \notin spent
  /\ spent' = spent \cup {i}
  /\ Go(h, [pc |-> "add", id |-> i, size |-> n])
  /\ UNCHANGED <<unsure, on, mem, named, audio>>

\* An author changes or removes the version it read; humans even while memory is off.
AskChange(h, i, verb, n) ==
  /\ At(h, "idle") /\ i \in Present(memory)
  /\ Go(h, [pc |-> verb, id |-> i, read |-> memory[i], size |-> n])
  /\ UNCHANGED <<unsure, on, mem, named, audio, spent>>

Store(m) ==
  /\ memory' = m
  /\ \/ memoryRows' = m /\ Saved("memory")
     \/ UNCHANGED memoryRows /\ Unsaved("memory")

AddMemory(h) ==
  LET r == serving[h]
      new == [memory EXCEPT ![r.id] = [version |-> 1, text |-> r.id, size |-> r.size]] IN
  /\ At(h, "add")
  /\ IF Fits(new) THEN Store(new) ELSE UNCHANGED <<memory, memoryRows, unsure>>
  /\ Go(h, Idle)
  /\ UNCHANGED <<on, ended, cards, cardRows, named, audio, spent>>

\* The text of a new version is the handler that wrote it and what it replaced.
Written(h) ==
  LET r == serving[h] IN
  [memory EXCEPT ![r.id] = [version |-> @.version + 1, text |-> <<h, r.read.version>>, size |-> r.size]]

\* Mutant: the version is not compared.
UpdateMemoryUnchecked(h) ==
  LET r == serving[h] IN
  /\ At(h, "update") /\ r.read.version < MaxVersion
  /\ IF memory[r.id] # Absent /\ Fits(Written(h)) THEN Store(Written(h)) ELSE UNCHANGED <<memory, memoryRows, unsure>>
  /\ Go(h, Idle)
  /\ UNCHANGED <<on, ended, cards, cardRows, named, audio, spent>>

UpdateMemory(h) ==
  LET r == serving[h] IN
  /\ At(h, "update") /\ r.read.version < MaxVersion
  /\ IF /\ memory[r.id] # Absent
        /\ memory[r.id].version = r.read.version
        /\ Fits(Written(h))
     THEN Store(Written(h))
     ELSE UNCHANGED <<memory, memoryRows, unsure>>
  /\ Go(h, Idle)
  /\ UNCHANGED <<on, ended, cards, cardRows, named, audio, spent>>

Drop(is) ==
  /\ Store([i \in Records |-> IF i \in is THEN Absent ELSE memory[i]])
  /\ ended' = ended \cup (is \cap Present(memory))
  /\ UNCHANGED <<cards, cardRows>>

RemoveMemory(h) ==
  LET r == serving[h] IN
  /\ At(h, "remove")
  /\ IF memory[r.id].version = r.read.version THEN Drop({r.id}) ELSE UNCHANGED <<mem, unsure>>
  /\ Go(h, Idle)
  /\ UNCHANGED <<on, named, audio, spent>>

\* A human empties memory.
CleanMemory(h) ==
  /\ At(h, "idle") /\ Present(memory) # {} /\ Drop(Records)
  /\ UNCHANGED <<on, named, audio, serving, spent>>

-----------------------------------------------------------------------------
(* The leaderboards: the card of a registered agent about others, kept by model. *)

SaveCards ==
  \/ cardRows' = cards' /\ Saved("cards")
  \/ UNCHANGED cardRows /\ Unsaved("cards")

SubmitCard(h) ==
  /\ At(h, "idle") /\ cards < MaxCards
  /\ cards' = cards + 1 /\ SaveCards
  /\ UNCHANGED <<on, memory, memoryRows, ended, named, audio, serving, spent>>

-----------------------------------------------------------------------------
(* Named sections: change, copy, write. *)

Saving(s) == {h \in Handlers : serving[h].pc \in {"copy", "write"} /\ serving[h].section = s}

\* Whoever is saving the section is not alone any more.
Joined(h, s, next) ==
  serving' = [g \in Handlers |->
    IF g = h THEN next ELSE IF g \in Saving(s) THEN [serving[g] EXCEPT !.alone = FALSE] ELSE serving[g]]

Change(h, s, ns) ==
  /\ At(h, "idle") /\ ns # kept[s]
  /\ \E n \in Names : ns = kept[s] \ {n} \/ ns = kept[s] \cup {n}
  /\ kept' = [kept EXCEPT ![s] = ns]
  /\ Joined(h, s, [pc |-> "copy", section |-> s, alone |-> Saving(s) = {}])
  /\ UNCHANGED <<on, mem, keptRows, unsure, audio, spent>>

\* A fleet is stored, imported under a free name, or deleted.
ChangeFleet(h, ns) ==
  /\ Cardinality(ns) <= MaxFleets
  /\ Change(h, "fleets", ns)

\* An override is set, or goes back to the default.
ChangePrompt(h, ns) == Change(h, "prompts", ns)

Copy(h) ==
  /\ At(h, "copy")
  /\ Go(h, [pc |-> "write", section |-> serving[h].section, alone |-> serving[h].alone,
            rows |-> kept[serving[h].section]])
  /\ UNCHANGED <<unsure, on, mem, named, audio, spent>>

Write(h) ==
  LET s == serving[h].section IN
  /\ At(h, "write")
  /\ \/ /\ keptRows' = [keptRows EXCEPT ![s] = serving[h].rows]
        /\ IF serving[h].alone THEN Saved(s) ELSE Unsaved(s)
     \/ UNCHANGED keptRows /\ Unsaved(s)
  /\ Go(h, Idle)
  /\ UNCHANGED <<on, mem, kept, audio, spent>>

-----------------------------------------------------------------------------
(* Sounds. *)

\* The number of files is checked before and after the file is written.
Upload(h, x) ==
  /\ At(h, "idle") /\ SoundsFree /\ x \notin spent /\ Cardinality(sounds) < MaxSounds
  /\ spent' = spent \cup {x} /\ soundFiles' = soundFiles \cup {x}
  /\ Go(h, [pc |-> "list", sound |-> x])
  /\ UNCHANGED <<unsure, on, mem, named, sounds, soundRows, cut>>

SaveSounds ==
  \/ soundRows' = sounds' /\ Saved("sounds")
  \/ UNCHANGED soundRows /\ Unsaved("sounds")

AddSound(h) ==
  LET x == serving[h].sound IN
  /\ At(h, "list") /\ SoundsFree
  /\ IF Cardinality(sounds) < MaxSounds
     THEN sounds' = sounds \cup {x} /\ SaveSounds /\ UNCHANGED soundFiles
     ELSE soundFiles' = soundFiles \ {x} /\ UNCHANGED <<sounds, soundRows, unsure>>
  /\ Go(h, Idle)
  /\ UNCHANGED <<on, mem, named, cut, spent>>

\* Mutant: the file goes, the entry stays.
DeleteSoundListed(h, x) ==
  /\ At(h, "idle") /\ x \in sounds /\ SoundsFree
  /\ soundFiles' = soundFiles \ {x}
  /\ Go(h, [pc |-> "unlisted"])
  /\ UNCHANGED <<unsure, on, mem, named, sounds, soundRows, cut, spent>>

DeleteSound(h, x) ==
  /\ At(h, "idle") /\ x \in sounds /\ SoundsFree
  /\ sounds' = sounds \ {x} /\ soundFiles' = soundFiles \ {x}
  /\ Go(h, [pc |-> "unlisted"])
  /\ UNCHANGED <<unsure, on, mem, named, soundRows, cut, spent>>

PersistSounds(h) ==
  /\ At(h, "unlisted") /\ UNCHANGED sounds /\ SaveSounds
  /\ Go(h, Idle)
  /\ UNCHANGED <<on, mem, named, soundFiles, cut, spent>>

-----------------------------------------------------------------------------
(* prune -a: memory, leaderboards, prompts, settings, fleets, sounds, then their files. *)

StartClear(h) ==
  /\ At(h, "idle") /\ Drop(Records)
  /\ Go(h, [pc |-> "cards"])
  /\ UNCHANGED <<on, named, audio, spent>>

ClearLeaderboards(h) ==
  /\ At(h, "cards") /\ cards' = 0 /\ SaveCards
  /\ Go(h, [pc |-> "clear", section |-> "prompts"])
  /\ UNCHANGED <<on, memory, memoryRows, ended, named, audio, spent>>

\* A table is emptied under the section's lock.
ClearSection(h) ==
  LET s == serving[h].section IN
  /\ At(h, "clear")
  /\ kept' = [kept EXCEPT ![s] = {}]
  /\ \/ keptRows' = [keptRows EXCEPT ![s] = {}] /\ Saved(s)
     \/ UNCHANGED keptRows /\ Unsaved(s)
  /\ on' = (on /\ s # "prompts")
  /\ Joined(h, s, IF s = "prompts" THEN [pc |-> "clear", section |-> "fleets"] ELSE [pc |-> "unlist"])
  /\ UNCHANGED <<mem, audio, spent>>

\* Mutant: the table of sounds is left alone.
ClearSoundsUnsaved(h) ==
  /\ At(h, "unlist") /\ SoundsFree /\ sounds' = {}
  /\ Go(h, [pc |-> "unlink"])
  /\ UNCHANGED <<unsure, on, mem, named, soundRows, soundFiles, cut, spent>>

ClearSounds(h) ==
  /\ At(h, "unlist") /\ SoundsFree /\ sounds' = {} /\ SaveSounds
  /\ Go(h, [pc |-> "unlink"])
  /\ UNCHANGED <<on, mem, named, soundFiles, cut, spent>>

\* The directory is removed outside the lock: a sound added meanwhile loses its file.
ClearSoundFiles(h) ==
  /\ At(h, "unlink") /\ soundFiles' = {} /\ cut' = cut \cup sounds
       \cup {serving[g].sound : g \in {k \in Handlers : At(k, "list")}}
  /\ Go(h, Idle)
  /\ UNCHANGED <<unsure, on, mem, named, sounds, soundRows, spent>>

-----------------------------------------------------------------------------
\* The process ends; the new one loads the tables, and goes on without those it cannot
\* read.
Restart ==
  \E unread \in SUBSET (Sections \cup Others) :
    /\ memory' = IF "memory" \in unread THEN [i \in Records |-> Absent] ELSE memoryRows
    /\ cards' = IF "cards" \in unread THEN 0 ELSE cardRows
    /\ kept' = [s \in Sections |-> IF s \in unread THEN {} ELSE keptRows[s]]
    /\ sounds' = IF "sounds" \in unread THEN {} ELSE soundRows
    /\ ended' = IF "memory" \in unsure THEN ended \ Present(memory') ELSE ended
    /\ cut' = cut \cup (soundRows \ sounds)
    /\ unsure' = unread
    /\ serving' = [h \in Handlers |-> Idle]
    /\ UNCHANGED <<on, memoryRows, cardRows, keptRows, soundRows, soundFiles, spent>>

Curate(h) ==
  \/ \E i \in Records, n \in 1..MemoryCap : AskAdd(h, i, n) \/ AskChange(h, i, "update", n)
  \/ \E i \in Records : AskChange(h, i, "remove", 0)
  \/ AddMemory(h) \/ UpdateMemory(h) \/ RemoveMemory(h) \/ CleanMemory(h)
  \/ SubmitCard(h)

Save(h) ==
  \/ \E ns \in SUBSET Names : ChangeFleet(h, ns) \/ ChangePrompt(h, ns)
  \/ Copy(h) \/ Write(h)

Play(h) ==
  \/ \E x \in Sounds : Upload(h, x) \/ DeleteSound(h, x)
  \/ AddSound(h) \/ PersistSounds(h)

Clear(h) == StartClear(h) \/ ClearLeaderboards(h) \/ ClearSection(h) \/ ClearSounds(h) \/ ClearSoundFiles(h)

Next ==
  \/ \E v \in BOOLEAN : PutSettings(v)
  \/ \E h \in Handlers : Curate(h) \/ Save(h) \/ Clear(h) \/ Play(h)
  \/ Restart

Spec == Init /\ [][Next]_vars

-----------------------------------------------------------------------------
\* Curators do not overwrite each other: what an update replaces is what its author
\* read; and no update, save or restart brings a removed record back.  Only a start
\* after a save that failed returns to what the table still had.
CurationKept ==
  [][\A i \in Records :
       \/ /\ memory'[i] \notin {memory[i], Absent} /\ memory[i] # Absent =>
                 \E h \in Handlers : At(h, "update") /\ serving[h].id = i /\ serving[h].read = memory[i]
          /\ i \in ended => memory'[i] = Absent
       \/ "memory" \in unsure /\ memory'[i] = memoryRows[i]]_vars

\* When no request is being served the tables hold what the server uses, but for the
\* sections whose last save or load failed, or whose last saves crossed: the next save
\* that succeeds, alone, puts the table right.
SavedWhenQuiet ==
  (\A h \in Handlers : At(h, "idle")) =>
    /\ "memory" \notin unsure => memoryRows = memory
    /\ "cards" \notin unsure => cardRows = cards
    /\ "sounds" \notin unsure => soundRows = sounds
    /\ \A s \in Sections \ unsure : keptRows[s] = kept[s]

\* A sound that is listed can be played, unless its deletion had not reached the table
\* when the server stopped or it was uploaded while everything was being cleared.
SoundsPlayable == sounds \subseteq soundFiles \cup cut
=============================================================================
