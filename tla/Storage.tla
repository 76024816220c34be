------------------------------- MODULE Storage -------------------------------
(***************************************************************************)
(* The server's database and how it starts.  Earlier versions kept every     *)
(* section in a JSON file.  A start creates the database, imports the core   *)
(* files in one transaction that also marks the schema, moves them away one  *)
(* by one, imports the remaining files in a second transaction, moves those, *)
(* and removes the two index files, whose removal may fail unnoticed.  Then  *)
(* the tables are loaded: a core table that cannot be read ends the start,   *)
(* another leaves its section empty.  Memory is the authority while the      *)
(* server runs, and a failed save is only logged.  Any step of a start may   *)
(* fail, and the process may be killed anywhere.                             *)
(*                                                                         *)
(* A section is represented by the number of changes made to it.             *)
(***************************************************************************)
EXTENDS Integers, FiniteSets

CONSTANT MaxEdits  \* bound: changes of a section, in memory and in its table

VARIABLES
  json,    \* section -> changes its legacy file holds, None without the file
  rows,    \* section -> changes its table holds
  exists,  \* is there a database file?
  marked,  \* has it a row in schema_meta?
  newer,   \* was that row written by a later schema?
  memory,  \* section -> changes the running server knows
  start,   \* where the start is; once it runs, what a prune -a has still to clear
  \* What the properties talk about; no step reads these.
  latest,  \* section -> changes made to it
  harmed   \* sections a named accident may have set back

disk == <<json, rows, exists, marked, newer>>
vars == <<disk, memory, start, latest, harmed>>

-----------------------------------------------------------------------------
Core == {"rooms", "messages"}
Top == {"memory"}
Index == {"sounds"}
Rest == Top \cup Index
Sections == Core \cup Rest
None == 0 - 1
Blank == [s \in Sections |-> 0]
On(ss) == {s \in ss : json[s] # None}
Over(ss, f) == [s \in Sections |-> IF s \in ss THEN f[s] ELSE rows[s]]

\* An installation of an earlier version, or a new one.
Init ==
  /\ json \in [Sections -> {None, 1}]
  /\ latest = [s \in Sections |-> IF json[s] = None THEN 0 ELSE 1]
  /\ rows = Blank /\ exists = FALSE /\ marked = FALSE /\ newer = FALSE
  /\ memory = Blank /\ start = [pc |-> "down"] /\ harmed = {}

Continue(pc) == start' = [start EXCEPT !.pc = pc]
Abort == start' = [pc |-> "down"]

\* The database goes with its sidecars; the files in place are what the next start has.
RemoveSQLiteFiles ==
  /\ exists' = FALSE /\ marked' = FALSE /\ newer' = FALSE /\ rows' = Blank
  /\ harmed' = harmed \cup {s \in Sections : (IF json[s] = None THEN 0 ELSE json[s]) # latest[s]}
  /\ Abort /\ UNCHANGED <<json, memory, latest>>

-----------------------------------------------------------------------------
(* The start. *)

HasLegacyCoreJSON == ~marked /\ On(Core) # {}

OpenSQLite ==
  /\ start.pc = "down" /\ exists' = TRUE
  /\ start' = [pc |-> "configure", legacy |-> HasLegacyCoreJSON, clear |-> "nothing"]
  /\ UNCHANGED <<json, rows, marked, newer, memory, latest, harmed>>

\* Mutant: the schema is marked although the core is still to be imported.
ConfigureSQLiteMarked ==
  /\ start.pc = "configure" /\ ~newer
  /\ marked' = TRUE
  /\ Continue(IF start.legacy THEN "core" ELSE "rest")
  /\ UNCHANGED <<json, rows, exists, newer, memory, latest, harmed>>

ConfigureSQLite ==
  /\ start.pc = "configure" /\ ~newer
  /\ marked' = (marked \/ ~start.legacy)
  /\ Continue(IF start.legacy THEN "core" ELSE "rest")
  /\ UNCHANGED <<json, rows, exists, newer, memory, latest, harmed>>

\* An I/O error, or a schema newer than the binary.
ConfigureSQLiteFails == start.pc = "configure" /\ RemoveSQLiteFiles

\* One transaction: rows, their validation, the mark.
ImportLegacyCoreJSON ==
  /\ start.pc = "core"
  /\ rows' = Over(On(Core), json) /\ marked' = TRUE
  /\ Continue("archive_core")
  /\ UNCHANGED <<json, exists, newer, memory, latest, harmed>>

\* A corrupt file, a failed validation, a file that cannot be moved (after the
\* sections' files comes schema.json).
ImportLegacyCoreJSONFails == start.pc \in {"core", "archive_core"} /\ RemoveSQLiteFiles

\* The files of a list that are there are renamed one after the other.
MoveLegacyJSONFile(from, ss, s) ==
  /\ start.pc = from /\ s \in On(ss)
  /\ json' = [json EXCEPT ![s] = None]
  /\ UNCHANGED <<rows, exists, marked, newer, memory, start, latest, harmed>>

Archived(from, ss, next) ==
  /\ start.pc = from /\ On(ss) = {}
  /\ Continue(next)
  /\ UNCHANGED <<disk, memory, latest, harmed>>

\* Rows of the files replace rows of the same key.
ImportLegacyRemainingJSON ==
  /\ start.pc = "rest"
  /\ rows' = Over(On(Rest), json)
  /\ Continue(IF On(Rest) = {} THEN "load" ELSE "archive_rest")
  /\ UNCHANGED <<json, exists, marked, newer, memory, latest, harmed>>

\* The database stays: only this start fails.
ImportLegacyRemainingJSONFails ==
  /\ start.pc \in {"rest", "archive_rest"} /\ On(Rest) # {}
  /\ Abort /\ UNCHANGED <<disk, memory, latest, harmed>>

\* Errors are ignored: an index left in place is imported again by the next start.
RemoveIndexes(ss) ==
  /\ start.pc = "indexes" /\ ss \subseteq On(Index)
  /\ json' = [s \in Sections |-> IF s \in ss THEN None ELSE json[s]]
  /\ harmed' = harmed \cup (On(Index) \ ss)
  /\ Continue("load")
  /\ UNCHANGED <<rows, exists, marked, newer, memory, latest>>

\* Sections whose tables, and indexes still in place, will not give the next start what
\* the server knows.
Behind(new) == harmed' = On(Index) \cup {s \in Sections : new[s] # memory'[s]}

\* A section that cannot be read starts with what its index still in place holds, or
\* empty.  What an accident set back, or kept from being read, is the truth from here on.
Load ==
  /\ start.pc = "load"
  /\ \E unread \in SUBSET Rest :
       /\ memory' = [s \in Sections |-> IF s \notin unread THEN rows[s] ELSE IF json[s] = None THEN 0 ELSE json[s]]
       /\ latest' = [s \in Sections |-> IF s \in harmed \cup unread THEN memory'[s] ELSE latest[s]]
  /\ Behind(rows)
  /\ Continue("running")
  /\ UNCHANGED disk

\* Rooms, agents or messages cannot be read: the database stays, only this start fails.
LoadCoreSQLiteFails ==
  /\ start.pc = "load" /\ Abort
  /\ UNCHANGED <<disk, memory, latest, harmed>>

-----------------------------------------------------------------------------
(* The running server. *)

Learn(s) ==
  /\ start.pc = "running" /\ memory[s] < MaxEdits
  /\ memory' = [memory EXCEPT ![s] = @ + 1] /\ latest' = memory'
  /\ UNCHANGED <<json, exists, marked, newer, start>>

Saved(ss) == rows' = Over(ss, memory') /\ Behind(rows')

\* Rooms and agents are rewritten together, the messages left alone.
PersistRoomsAgents == Learn("rooms") /\ Saved({"rooms"})
\* A posted message is one row more.
InsertMessage ==
  /\ Learn("messages") /\ rows["messages"] < MaxEdits
  /\ rows' = [rows EXCEPT !["messages"] = @ + 1] /\ Behind(rows')
\* Retention cleanup and prune rewrite all core tables.
PersistCore == \E s \in Core : Learn(s) /\ Saved(Core)
ReplaceRows(s) == s \in Rest /\ Learn(s) /\ Saved({s})
SaveFails(s) == Learn(s) /\ UNCHANGED rows /\ Behind(rows)

\* prune -a empties the core, then table by table, then the directories with the
\* indexes, one at a time; every one of these may fail, which is only logged.
Empty(ss) ==
  /\ memory' = [s \in Sections |-> IF s \in ss THEN 0 ELSE memory[s]]
  /\ latest' = [s \in Sections |-> IF s \in ss THEN 0 ELSE latest[s]]
  /\ rows' \in {Over(ss, Blank), rows} /\ Behind(rows')
  /\ UNCHANGED <<json, exists, marked, newer>>

ClearAll ==
  /\ start.pc = "running" /\ start.clear = "nothing"
  /\ Empty(Core) /\ start' = [start EXCEPT !.clear = "memory"]

ClearTable(s, next) ==
  /\ start.pc = "running" /\ start.clear = s
  /\ Empty({s}) /\ start' = [start EXCEPT !.clear = next]

ClearDirectories ==
  /\ start.pc = "running" /\ start.clear = "directories"
  /\ \E ss \in SUBSET On(Index) :
       /\ json' = [s \in Sections |-> IF s \in ss THEN None ELSE json[s]]
       /\ harmed' = (On(Index) \ ss) \cup {s \in Sections : rows[s] # memory[s]}
  /\ start' = [start EXCEPT !.clear = "nothing"]
  /\ UNCHANGED <<rows, exists, marked, newer, memory, latest>>

\* A stop closes the database, a kill does not: what was committed stays.
Stop ==
  /\ start.pc # "down" /\ Abort
  /\ UNCHANGED <<disk, memory, latest, harmed>>

\* A later version of the server migrated the database.
Migrated ==
  /\ start.pc = "down" /\ exists /\ marked /\ ~newer
  /\ newer' = TRUE
  /\ UNCHANGED <<json, rows, exists, marked, memory, start, latest, harmed>>

Next ==
  \/ OpenSQLite \/ ConfigureSQLite \/ ConfigureSQLiteFails
  \/ ImportLegacyCoreJSON \/ ImportLegacyCoreJSONFails
  \/ \E s \in Core : MoveLegacyJSONFile("archive_core", Core, s)
  \/ Archived("archive_core", Core, "rest")
  \/ ImportLegacyRemainingJSON \/ ImportLegacyRemainingJSONFails
  \/ \E s \in Top : MoveLegacyJSONFile("archive_rest", Top, s)
  \/ Archived("archive_rest", Top, "indexes")
  \/ \E ss \in SUBSET Index : RemoveIndexes(ss)
  \/ Load \/ LoadCoreSQLiteFails
  \/ PersistRoomsAgents \/ InsertMessage \/ PersistCore
  \/ \E s \in Sections : ReplaceRows(s) \/ SaveFails(s)
  \/ ClearAll \/ ClearTable("memory", "sounds") \/ ClearTable("sounds", "directories")
  \/ ClearDirectories
  \/ Stop \/ Migrated

Spec == Init /\ [][Next]_vars

-----------------------------------------------------------------------------
\* A started server knows every change that was made to a section, by it or by the
\* JSON versions before it, however many starts failed or were killed half way:
\* except what a failed save kept out of the tables, what a start could not read, what
\* an index that could not be removed brings back, and what was only in a database a
\* failing start removed.
StartsWithLatest ==
  start.pc = "running" => \A s \in Sections : memory[s] = latest[s]
=============================================================================
