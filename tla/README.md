# aimebu in TLA+

aimebu is a message bus for AI coding agents and the people who work with them:
one Go server with rooms, direct messages, roles and long-poll waits, an MCP
shim and a process wrapper on the agents' side, and an account switcher with a
token refresher for the logins the agents use.  This directory holds models of
the parts whose correctness hangs on interleavings, restarts, failing writes and
lost notifications, the TLC configurations that check them, and proofs of their
central invariants.

Contents: [1 the system](#1-the-system), [2 modules](#2-the-modules),
[3 runs](#3-the-runs), [4 proofs](#4-the-proofs),
[5 what was found](#5-what-was-found),
[6 what is left out](#6-what-is-left-out), [7 what could follow](#7-what-could-follow).

To check a run: `tlc -workers 2 -config Bus_parts.cfg MCBusParts.tla`.  To check
the proofs of a module: `tlapm RoomsProofs.tla`.

## 1 The system

| Part | Source | State it keeps | Operations | What is hard about it |
|---|---|---|---|---|
| Message path | `internal/server/store_messages.go`, the wait handlers of `server.go` | room logs, the id counter, read cursors per agent and room, subscription channels | send, needs_attention send, system events, room and agent-wide wait, mark-read | a send takes three critical sections, a wait looks before it subscribes, channels drop when full, the counter is recomputed at start |
| Membership store | `store_rooms.go`, `store_agents.go`, `store.go`, `store_persist.go`, `store_room_prefs.go` | agents, rooms, member slices, role holders, hidden rooms | register, deregister, prune, create, join, leave, kick, kick-agents, DM, delete, hide, DELETE /all | checks and writes in different critical sections; member lists may name an agent twice |
| Roles | `roles.go`, the role handlers of `server.go` | catalog, overrides, custom roles, assignments, two tables | replace, delete, reset, assign, unassign | two locks (roles, store), copies written after the lock is released |
| Presence | `store_messages.go` 860-970, `store_agents.go` 440-640, `ws.go` | open waits, WebSocket counters, pushed and derived states, what the interface shows | wait start and end, state pushes, sweep, WebSocket hello and close | a sweep works from a snapshot; events are broadcast outside the lock that ordered them |
| Reactions, attachments | `store_messages.go` 540-700, `store_attachments.go` | reactions per message id, image files and their registry | add, remove, upload, delete, orphan sweeps | bound to messages that a room deletion removes meanwhile and whose ids return |
| Memory, leaderboards, fleets, prompts, macros, sounds | `memory.go`, `leaderboards.go`, `fleet.go`, `prompts.go`, `settings.go`, `store_sounds.go` | versioned records, cards, named lists, sound files | add, update by version, remove, store, import, upload, clear | lost updates, records that come back, saves that overtake each other |
| Storage | `sqlite.go`, `store_persist.go` | SQLite tables, legacy JSON files | open, import at first start, load, save | a stop or a failure inside the import |
| MCP shim | `internal/mcp`, `internal/client` | the identity it speaks with, its heartbeat | bus_register, bus_* tools over HTTP, heartbeat | names are given away while a session still speaks |
| Agent wrapper | `cmd/aimebu/agent.go` | the child process, its name, failure counters | bootstrap, watch, preflight, resume, recover, shut down | the child, the server and the user act at any moment |
| State pusher, pi watchdog | `agent_state.go`, `agent_progress.go` | the pending state; ages of output and progress | debounce, flush; arm, fire, report | one timer each, re-armed by events that race it |
| Account switcher | `internal/switcher` | profiles, backups, `state.json`, the live credential file | switch, add, import, rename, remove, repair of links | several files written one after the other; the harness takes no lock |
| Credential targets | `internal/credtarget`, `switcher/token_copies.go`, `login_import.go`, `migrate.go` | token copies, rescued logins, the model a tool runs | reconcile, import, strip, fan out, heal, migrate | files rewritten by running sessions |
| Token refresher | `internal/usages/target_refresher.go`, `target_refresh_*.go`, `credential_copyback.go` | journal, rescue copies, account locks | refresh, settle, recover | a refresh token can be spent only once |
| Usage polling | `internal/usages/manager.go` | one cached entry per profile, generation, fingerprint | tick, forced refresh, CLI read, invalidate | a fetch runs for seconds while the account is switched |
| Addressing | `addressing.go`, `names.go` | none | resolve @-mentions to agents and roles | text resolution |
| Server life cycle | `server.go` 2384-2701, `daemon.go`, `tls.go`, `allow.go` | listeners, pid file | start, drain, stop | the order of shutdown steps |
| Front ends, doctor, log parsers | `cmd/aimebu`, `internal/doctor`, `harnesslog`, `frontend` | none of their own | printing, rendering, parsing | - |

The parts meet as follows.  An agent's MCP shim registers it, opens a bus_wait
(an agent-wide wait in a loop) and posts with bus_say; the store's send appends
to the room's log and notifies the channel of every subscription whose scope
covers the room.  The membership store decides who may post and whose waits see
a message; roles name members for mentions and leave with them.  All of these
share one store with the mutexes `mu` (agents, rooms), `msgMu` (messages,
counter), `curMu` (cursors), `subMu` (subscriptions), `prefMu` (hidden rooms)
and `rolesMu`; what is persisted is written inside these sections unless said
otherwise below.  The switcher, the credential targets and the refresher share
the credential files of the logins under an account lock and a switcher lock
and meet the bus only through HTTP handlers that start them.

What makes each part correct:

* message path: ids identify messages; a cursor never moves back and never
  passes a message its reader was not handed; a reader that keeps waiting gets
  to the end of every room.
* membership: nobody sits in a room, or holds a role there, that is not
  registered; a hidden room has no second member.
* roles: a singleton is held once; a held role is defined; names and role keys
  are disjoint; the tables agree with what the server uses; extension has no
  cycle.
* presence: rooms are told in turn that an agent went and came back, nobody is
  reported gone who holds a connection open, and the interface shows who listens.
* reactions, images, memory, sounds: nothing is shown on another record than its
  own, no update is lost, no removed record comes back, what is listed is there;
  memory and table differ only where a save or a load failed.
* storage: a start that succeeds knows every change, however many failed before, but
  for what a named accident kept from it.
* shim and wrapper: no two sessions speak as one agent, no running one is
  forgotten, an interrupt ends the wrapper and leaves no agent behind.
* pusher, watchdog: the latest state is on its way; no stall goes unnoticed.
* switcher, refresher, targets: at every stop a stored copy of each login
  exists; a spent token is never used again; a rotated one reaches every holder
  of the spent one; no profile is given another account's login.
* polling: numbers are filed under the account they belong to, and asked for once.

`PROJECT.json` lists the hazards of the code by line, with the property that
covers each, or the reason why none does.

## 2 The modules

| Module | Content |
|---|---|
| `Delivery` | the message path, one action per critical section of a request |
| `ReadLedger` | what reading is promised to be; `Delivery` implements it |
| `Rooms` | the membership store |
| `Roles` | role definitions and assignments |
| `Presence` | liveness of one agent: waits, sockets, pushed states, sweep, broadcasts |
| `MessageData` | reactions and images of messages |
| `UserData` | memory, leaderboards, named sections, sounds |
| `Storage` | how the server opens its database and imports legacy files |
| `McpShim` | MCP sessions, their identities and heartbeats |
| `AgentWrapper` | the life of `aimebu agent` |
| `StatePush`, `PiWatchdog` | the wrapper's state pusher; the stall watchdog of a pi child |
| `Switcher` | the account switcher under the link model |
| `Targets` | credentials under the token-copy model |
| `TokenRefresh` | the spend-once protocol of the token refresher |
| `Polling` | the usage poller beside account switches |
| `MCDelivery`, `MCRooms`, `MCRoles`, `MCTokenRefresh`, `MCSwitcher` | values for the constants |
| `MCDeliveryRaces` | `Delivery` with races and with stops, in behaviours of their own |
| `MCAgentSide` | `Delivery`, `Targets`, `StatePush`, `PiWatchdog` |
| `MCBusParts` | `Rooms`, `MessageData`, `Presence`, `UserData`, `Storage` |
| `MCRolesRaces` | `Roles`, `Polling`, `McpShim` |
| `MCRecovery` | `TokenRefresh`, `AgentWrapper` |
| `*Proofs` | theorems about the module named, `AgentSideProofs` and `BusPartsProofs` about the parts their runs compose |

All models have the same form.  A request is served by a goroutine with a program
counter (`Posters`, `Listeners`, `Handlers`, `Jobs`, ...); each of its critical
sections, file writes or calls is an action; between two of them any other
goroutine, a ticker, another process or a stop may step in.  What clients may ask
for in an instance is a constant (`Calls`) or a small set; nothing else about them
is assumed.  Variables below the line "what the properties talk about" record
history and are read by no step.  Some definitions are preceded by a variant
marked *Mutant*: the same step with a plausible mistake.  `PROJECT.json` names,
for each property, the variant under which it fails; no specification uses them.

**Composition by mode.** The modules that put several components into one run
(`MCAgentSide`, `MCBusParts`, `MCRolesRaces`, `MCRecovery`) have a variable `mode`
that is chosen at the start and says whose steps a behaviour takes; the others
keep their first values.  The components meet in the code through state that each
module has its own picture of (an agent is forgotten, a process stops, a login is
renewed), so their state spaces are added and not multiplied.  Where a
component is searched for two questions with different bounds, each has a mode
of its own (`"one client"` and `"clients"` for roles).

### Delivery

State: `rooms`, `members`, `messages` (the slice in storage order), `nextID`,
`cursors`, and for every goroutine its request, for every listener its channel.
`settled`, `handed`, `repeated` and `exposed` record history for the properties
and are read by no step.

A send (`store.say`, `store_messages.go`) is *check* (`Send`, which also queues
the joins of a needs_attention message, taken one by one by `Attend`),
`AllocateID`, `AppendMessage` and `Notify`; lifecycle events of joins, leaves,
creations and deletions take the same path, queued in `outbox` and dropped by
`DropEvent` when the system room is gone.  A wait (`server.go` 600-850) is the
first look (`ScanNothing`, `ScanAnswer`, `ScanAnswerFails`), `Subscribe`, and
then one channel receive after another (`Ignore`, `PassOwn`, `HandOver`,
`HandOverFails`) until it answers or `GiveUp`; an answer moves the cursors after
it was written (`AdvanceCursor`, once per room).  `Stop` throws all goroutines
and channels away at any step; `Start` reloads the logs in id order, takes the
counter from the highest stored id and posts "server started".

Abstractions: agents stay registered (registration is in `Rooms`); message
bodies, replies, attachments and the validation of plans are data; a DM with
itself has one member here.  The check of a room and `ensureRoomCursor` are one
step, and so are the membership and cursor reads of one channel receive.
A mark-read names a stored message, or 0 for the last one; the handler takes any id
(`server.go:1188-1192`), and a client that names one not issued yet skips what is
posted up to it, by its own choice.  Anonymous waits, the SSE and WebSocket readers
and the wake-up by reactions are left out.

`exposed` names the races the code leaves open, each at the step where it happens: an
append after a higher id, an append overtaken between its append and its notify, a
message notified while a wait is between its look and its subscription, a drop at a
full channel, a look at a message while the reader is not in its room, an id issued
again after a restart.  `LostOnlyByRaces` says that these are all: in any other case
no cursor passes an undelivered message.

### ReadLedger

A log of messages with distinct ids and cursors that only move forward.  The
refinement maps the log to the stored messages, and `accounted` to `settled`.
The rule that carries the weight is that of a cursor move: the first may leave
the history out, every later one lands on a message accounted for.

### Rooms

State: the registered agents, the rooms, `seats` (how often an agent occurs in a
member slice: a slice is searched from the front, and a DM that an agent opens
with itself names it twice), `holders` (who has a role in a room), `hidden`.
Several critical sections: a registration (`Register...`, then `Welcome`, the
join of the system room), kick-agents (a snapshot, then `KickNext` per entry),
hide (`MayHide`, then `Hide`), the joins of a needs_attention send (`AttendNext`,
then `Surface`).  `PruneStale` is the ticker, `Restart` a stop and a start with
`pruneOnStartup`, both for any set of stale agents; which agents are stale is a
question of presence.

Abstractions: a role is held or not (which one is in `Roles`); the pinned flag,
sessions and the read-only views are left out; the member check and the agent
listing at the start of a needs_attention send are one step; the prefs and core
transactions of one critical section are not split by a stop.

### Roles

State: `registered`, `holding` (room, agent -> key), the two maps of definitions
and the two tables that hold them across a restart.  PUT /roles is the cycle
check, one step per entry (`CheckEntry`), the snapshot of the keys about to go,
one step per removed key and room (`RemoveKey`, `CascadeRoom`), the swap, and the
save in three steps (`CopyForSave`, `WriteOverrides`, `WriteCustom`), of which each
write may fail and is then only logged (`roles.go:211-216`).  DELETE
/roles is `Find`, the cascade, `Drop` and the save; an assignment is the
existence check, `LookUpCardinality` under the roles lock and
`CommitAssignment` under the store lock.  `Restart` reads the two tables, or goes on
without any definition when one of them cannot be read.  `failed` names the tables
whose last write or read failed, `setBack` the custom roles that a start thereafter
took or brought back.

Abstractions: a definition is its cardinality and its base; bodies, icons and
descriptions are left out, and so are the events.  Every registered agent is in every
room.  The checks of one entry of a replacement are one step, and so are the deletions
of `clearRoles`, each of which may fail.  The setters that only tests call, the legacy
`roles.json` and the cap of 64 roles are left out.

### TokenRefresh

State on disk: `stored` (the login in each profile's store file), `removed`
(the tombstones of removed profiles), `saved` (`refresh-state.json`: one journal
entry per profile, and the verdicts), `rescues` (the rescue files, oldest first)
and `temps` (the throwaway directories).  In memory: `state` (the server's view
of `saved`, which also holds changes it could not write), `pending` (rotated
logins not committed yet), the account `locks`, the `jobs`, and `backlog`, the
entries the startup pass has still to settle.  In the world: what the provider
issued (`successor`) and the containers nobody waits for any more (`strays`).

A job is the ticker goroutine or a switch.  Its run is *decide* (`Due`, or
`Incoming` for a switch, which already holds the lock), `Acquire`, `Journal`,
`Launch`, `NoteStarted`, the end of the CLI (`CliEnds`, `TimesOut`), the
classification (`FindRotated`, `FindUnsent`, `FindSpent`), and for a rotated
login `WriteRescue`, `Mark`, `List`, one `CommitOne` per holder, and `Finish` or
`FinishPartly`.  An entry found in the journal is settled by the `Settle...`
actions, from `SettleLeftover` under the lock or from the startup pass
(`Bootstrap`, `Recover`) without it.  Every write has a failing form; `Stop` ends
the process at any step and leaves its containers running.

Abstractions: a token is a number in the order of issue and a login is the
refresh token it holds; the provider always issues a new refresh token, and a
request with a spent one is refused.  A directory is known by the profile and the
token it was made for.  That a login is due is a choice, except that one rotated
by a run that has not ended is not (`Fresh`: it lives for hours, a run for
minutes).  A tombstone is always written.  *Launched* (`Launch`) means that the docker
client was started (`target_refresh_run.go:59-73`): the container may never come up, and
the model's request is then one that was not sent.  An answer that is lost ends as a
failed run (`CliEnds`); that `classifyRefreshRun` (167-172) may take a clean exit, or a
refused connection in its output, for a request never sent is left out, so that
`RespentOnlyThroughGaps` says nothing of a CLI that lost an answer and reports neither.
Left out: back-off, lead and grace times, renames,
profiles that link to the live file, the fan-out of token copies, the sweep of
unreferenced directories, the quarantine of a corrupt state file, other
processes on the same files, and the second tool, which shares only the
goroutine.

`exposed` names the gaps through which a token may be spent again, each at the
step where it happens:

* a stop after the CLI was started and before the journal says so
  (`target_refresh_run.go:67-71`: the process is started, then the callback
  writes, and a write that fails is only logged), so that the next start takes
  the token for unspent;
* a journal entry of another profile of the same account is not looked at, and an
  entry of the same profile for another token is overwritten or cleared;
* the verdict is read before the account lock is taken and not again after it;
* the startup pass settles the entry of a run that is still going on;
* the commit of an old entry is retried after its login was refreshed elsewhere
  (`CommitOne` does not ask whether a run spent it since);
* a removal deletes a rescue file that another profile of the account waits for.

`RespentOnlyThroughGaps` says that these are all: in any other case a token
reaches the provider once, whatever fails and whenever the server stops.

### Presence

One AI agent: its state, when it was last seen (`age`, in the windows of the
settings: fresh, stale, offline, forgotten), its open waits per scope and its
sockets, and what the interface shows.  A wait is `EnterWait`, its broadcasts,
`Woken` or `Abandoned`, `LeaveWait`, and broadcasts again; a broadcast is decided
under `waitMu` and sent later (`Tell`).  The liveness sweep takes its picture of
open connections (`ActiveAgentIDs`) and applies it in a second step
(`SweepAgentLiveness`); `CleanupStaleAgents` forgets.  `SetAgentState` is a push of
the wrapper with the grace for reconnects, `RoomPresence` the fetch of the
interface when a room is opened.

Abstractions: agents do not interact here; an activity state stands for all of
them; the windows are long, so the steps of a handler or a sweep take no time
(`Tick`).  `prompt` says whether the sweep interval is shorter than the stale
window, which both are settings.

### MessageData

One room with its messages, the reactions keyed by message id and the images
messages refer to, each with its rows in the database.  `AddReaction` is `Look`
under the store lock and the change under the reactions' lock; `DeleteRoom`
removes the messages and then sweeps; the attachment sweep collects
(`StartSweep`) and deletes later (`CleanupAttachments`).  `prune -a` is four steps,
`ClearPosts`, `ClearRegistry`, `ClearFiles` (which holds no lock and may leave some
files behind) and `ClearReactions`; any other request may step in between.  Every
write of a table may fail and is then only logged.  `Restart` continues the ids at
the highest stored one and reads the two tables: the registry of images is read or
starts empty (`LoadAttachments`), reactions are read up to the first row that cannot
be (`LoadReactions`); then it sweeps, before it serves.

`crossed`, `unsaved` and `unserved` name what the properties except: posts stored
while a sweep or a `prune -a` was under way, ids whose reactions once could not be
saved or read, images that met a race or a failure.

Abstractions: an emoji and its author are one value; image checks, the limits on
size and the listing are left out; avatars are not images of messages.  That the
messages themselves cannot be saved is in `Storage`.  The retention windows that may
remove messages as the server starts are left out (`pruneOnStartup`).

### UserData

Memory records with versions under one cap, rating cards, fleets and prompt
overrides (`kept`, a set of names; macros are saved the same way), and sounds
with their files.  Records, cards and the list of sounds are saved under their
lock (`Store`, `SaveCards`, `SaveSounds`); a fleet or a prompt is changed, copied (`Copy`)
and written (`Write`).  Each of these saves may fail, which is only logged
(`memory.go:131`, `leaderboards.go:92`, `fleet.go:271`, `prompts.go:141`,
`store_sounds.go:69`): the memory is then ahead of its table until the next save.
`Restart` reads the tables, and goes on with an empty section where one cannot be
read.  `unsure` names the sections for which memory and table may differ.
`ClearLeaderboards` to `ClearSoundFiles` are `prune -a`.  The text of a record is
who wrote it and what it replaced; the rating arithmetic, the rendering of briefs
and export are left out.  Settings are read by every request and may have any value
(`PutSettings`), so that their own table is left out.

### Storage

One value per section: the number of changes it holds, in its legacy file, its
table and in memory.  A start is `OpenSQLite`, `ConfigureSQLite`,
`ImportLegacyCoreJSON`, one `MoveLegacyJSONFile` per file, the same for the
remaining files, `RemoveIndexes`, `Load`.  Every step of it has a failing form: a
failing configuration or core import removes the database, a failing import of the
rest or an unreadable core table (`LoadCoreSQLiteFails`) ends this start only, and
`Load` starts with what is left of any other section it cannot read.  `Stop` kills
anywhere.  A running server edits, saves, fails to save, or clears: `ClearAll`,
`ClearTable` and `ClearDirectories` are the parts of a `prune -a`, one at a time, each of
which may fail; two at once are left out.  `Migrated` is a database written by a
later version.  `harmed` names the sections an accident the code does not guard
against may have set back; a start takes what it finds of them for the truth from
there on.

### McpShim

Terminals that run one shim after another, the server's table of agents, and a
tick for the 45 seconds of a heartbeat.  A call is `HandleToolCall` and `Return`; a
registration is `AskRegister` and what the server makes of it (`Register`, `Claim`,
`RegisterRefused`, `Unreachable`).  `CleanupStaleAgents` forgets by the time an
agent was seen.  Time passes only when no heartbeat is due and no answer under
way: both take far less than an interval.  Left out: what the single tools
return.

### AgentWrapper

One wrapper, one child.  `at` is where the wrapper is (bootstrap, preflight,
resume, stopping a stalled child, shutdown, down); the child registers and ends in
any way (`Ends`), the server goes and comes back and may forget the agent, and
signals wait in a channel of two.  `AdvanceFailure` counts per class.  A child that is
told to stop ends (`StopChild`); `agentStopChild` gives up waiting two seconds after it
killed it (`agent.go:2383-2387`).  Left out: argument building, containers, session
files.

### StatePush, PiWatchdog

`StatePush` is the debounce of activity states up to the final flush;
`PiWatchdog` the events of a pi turn, the deadline they give, and the one timer
that is re-armed by every output.  In `PiWatchdog` times are ages in ticks and a
tick passes only when the goroutine has nothing to do; ages are capped one above
their budget.  The events come as pi sends them (turns do not nest, a tool that ends
was started); the handlers (`agent_progress.go:105-147`) would take any order.  Of
`StatePush` the drop of an event at a full channel of 64 (`agent_state.go:57-60`) and
the exit on a cancelled context, after which nothing is promised, are left out.

### Switcher

The link model for one tool: the live file, per profile a stored file (a link
for the active one) and backups, and the pointer in `state.json`.  An operation
holds the lock and is a row of writes (`SwitchBegin`, `Capture`, `BackUp`,
`Place`, `SaveState`, ...), each of which may fail into the code's rollback, and
between any two of which the process may be killed (`Kill`) or the harness may
rotate, replace or delete the live file.  A login is an account and the generation
of its token.  `excused` and `mixed` name the accidents the properties exempt: a
login the user gave up, one the harness wrote over a switch, a stop or a failed
rollback that leaves the live file and the pointer apart.

Left out: e-mail metadata, the times of switches, rotated rescues in renames.  A switch
reads the live file twice before it captures it (`switch.go:170-176`); `SwitchBegin` is
both.  The backups of a renamed profile move at once and always (`MoveBackups`); the
code moves them one by one and leaves behind what it cannot move (`backups.go:171-241`).

### Targets

The token-copy model for one tool.  A reconciler pass is `PassFindsLogin` (rescue),
`PassDecides` (the choice of `import.go`), `FileBegin` to `FilePoint` (the import
under the switcher lock), `PassRechecks`, `StripLook`, `StripWrite`, and the heal
of a stale copy; `Renew` and `RenewFansOut` are a refresh and its distribution;
`Switch...`, `Import...`, `Migrate...` and `Unmigrate...` the other operations.  The
user logs in and out (`LogIn`, `LogOut`) at any step, one write may fail, the
server may stop anywhere.

Left out: external targets (nothing registers any), the byte-preserving edits of
JSON, file modes, account files, alerts, and the age of a day beyond which a new
rescue drops an old one (`login_import.go:179`).  A renewal happens only while the live
file has no full login, for any profile and up to its commit (`Renew`); the code asks
for the active profile and when it decides (`target_refresher.go:454`).
`UnmigrateBegin` is the write of the store (`token_copies.go:250`) and the refresh that
follows it.

### Polling

One provider.  A refresher's round is `BeginRound`, `PickProfiles`, and per
profile `AcquireProviderLock`, `ReadOwner`, `ReadGeneration`, `DecideAgain`,
`SendRequest`, `Answer`, `CompareOwner`, `SaveSnapshot`; a switch is `SwapLive`
and `SaveActive`, and through the server two invalidations.  Credentials are
whose they are and how often they were rotated.

Each refresher has a fetch of its own (`fetch`); that there is one at a time is what
`AcquireProviderLock` does.  `seen` of a fetch is what the credentials were when the need
for it was decided, and read by properties only.

Left out: the answers' contents, pacing, warm-up, the refreshers of the link model,
and a cache or configuration file that cannot be read or written, on which a fetch ends
without a trace.

## 3 The runs

| Run | Instance | What it shows | States | Time |
|---|---|---|---|---|
| `delivery_races` | two posters and one room wait; or one poster, deletions and a stop at any step | ids stay unique also over a restart; a message is lost only through an open race and repeated only out of a room stored out of order; `Delivery` implements `ReadLedger` | 3.4M | 2-3 min |
| `delivery_agent_waits` | two agent-wide waits of one agent; login files of two profiles; the state pusher; the watchdog | an agent that leaves and joins beside its two waits loses a message only through an open race, and one that keeps waiting reads to the end; no login is lost, misfiled or left in the live file; the latest state is on its way; no stall goes unnoticed | 430k | 2 min |
| `bus_parts` | each in behaviours of its own: two requests at a time on registrations and member lists, on reactions and images, on user data; waits, sockets and sweeps of one agent; starts of the database; any save and load may fail, `prune -a` goes part by part | no ghost members or holders, arrivals unhide; alerts alternate and are deserved, the interface shows who listens; reactions and images stay with their messages; curators do not overwrite each other; memory and tables differ only after a named failure; a start knows every change but those a failure kept from it | 1.8M | 3 min |
| `roles_races` | two role requests of any kind with restarts; fetches beside switches; two shims beside sweeps | a built-in singleton is held once; with one client held roles are defined and the tables agree but for writes and reads that failed; numbers are filed under their account and asked for once; sessions are kept apart and open | 4.1M | 3 min |
| `refresh_shared` | one account under two profiles, ticker and switch, one failing write | one run per token at a time; spent again only through a gap; a rotated login is kept | 3.8M | 1-2 min |
| `refresh_restart` | one profile, one stop, one failing write, logins, removals, toggles, fair; and the wrapper beside a server that comes and goes, fair | verdicts only on launched tokens; no login overwritten; every rotated login lands or is reported; an interrupt ends the wrapper and leaves no ghost | 510k | 2 min |
| `switcher_accidents` | two profiles, two accounts, every operation, one accident | the newest login of every account is kept, under its own account, and only the active profile is linked | 4.7M | 1-2 min |
| `delivery_reissued_ids`, `roles_cycle`, `refresh_startup`, `switcher_stale_check`, `pi_tool_time` | the smallest instances that show it | violated: see 5 | | |

**Type correctness** is stated in every module that is proved about and proved
there (section 4), for every instance; the runs spend their time on the rest.

**Deadlock** is checked in `delivery_races`.  The others switch it off because
the system, or the instance, really may stop: in `TokenRefresh` an account
with the verdict on its last token waits for a person; a wrapper or a pi child
that has ended takes no further step; tokens, operations, versions and posts of an
instance run out.

**Symmetry** is used in four runs, over sets whose members no definition tells
apart: posters and listeners in `delivery_races`, the two goroutines in `bus_parts`,
which serve every mode, handlers in `roles_races`, profiles and accounts in
`switcher_accidents`.  No run with a liveness property uses it.

**Bounds of Delivery.** `MaxID` 5 is the number of ids issued; with the events of
`createRoom` and of a join it leaves two or three messages to race, and each race
named in `exposed` needs at most two.  `ChanCap` is 1 instead of 64: what
matters is that a channel fills up while a listener is between two receives.
`RecentWindow` is 5 instead of 100 and is reached together with `MaxID`.
`MaxCrashes` is 1: a stop loses all goroutines, so a second one meets a state
that differs only in ids.  `ServeTwoWaits` says whether an agent may have two
waits open; only `delivery_agent_waits` needs it.  `Calls` splits the calls between
the runs so that each stays within minutes: posting and deletion against a room
wait, room life against agent-wide waits.

**Bounds of Rooms.** Two agents (one human), the system room and a DM room, two
handlers: a race over one member list takes two requests, and the ticker and the
restart come on top.  There is no counter to cap: the instance is complete for these sets.

**Bounds of Roles.** Three catalog roles (a singleton, a base, one that extends it),
one custom key that is also the name an agent may have, two agents, one room; with one
client writes and reads of the tables may fail, with two they succeed (`LeaderIsAlone`
is without this bound); three payloads of PUT: nothing, a custom role, and a custom
role that extends the reviewer together with an override that makes the leader a
singleton again.  `roles_cycle` has payloads that redefine the reviewer's base.

**Bounds of the other parts of the server.** Presence: two requests, one room and the
agent-wide scope; no counters.  MessageData: two workers, one image, one reactor, two
posts: one that is deleted and one that gets its id.  In `bus_parts` only the saves
and loads of the sections a behaviour is about may fail (`Failing`); the theorems are
without this bound.  UserData: two handlers; two records and a cap of two units, so
that one record fills it; one fleet of at most one, so that a second name meets the
limit; versions up to two: written, updated, and an update that comes too late.
Storage: three changes of a section: one of the JSON versions, one saved, one lost.

**Bounds of the agents' side.** Shims: two terminals, one with a wrapper, two names,
an agent is forgotten after one tick without a heartbeat, the tightest there is.
Wrapper: `Cap` 1 instead of the code's cap: the failure that ends the wrapper is the
second of its class.  Watchdog: budgets of 3, 5 and 2 ticks, which order the
deadlines in every way, bus_waits shorter and longer than the idle budget, three
tools in flight.

**Bounds of the account models.** `TokenRefresh`: `MaxToken` 3: the first login,
the one rotated from it, and one more, which is either rotated again or a person's.
`MaxFaults` 1: the write that fails can be any; two failing writes are outside the
bound.  `MaxStops` 1.  `MaxRescues` is 3 as in the code; no instance with one fault
writes a fourth file, so pruning is in the model but not exercised.
`refresh_shared` has no stop and `refresh_restart` no second profile; both at
once exceed what can be searched.  `SwitchSpec` names the steps `refresh_shared`
can take with the calls it allows.  `Switcher` and `Targets`: two profiles, two
accounts, two generations per token (a current and a spent one), one accident.
`MaxBackups` is 3 instead of 10: with 2, the backups of two more operations push
out a login that ten would have kept.
`MaxCalls` 2 operations of `Targets`: one that goes on while the
pass works and one that follows.  In `MCAgentSide` the first profile and its account
are fixed: the model treats all alike.  `Polling`: one switching request, two events
of any kind; with both refreshers one event, because the races of two refreshers
are among themselves.  `Clis` is empty: section 5 says what a command line does to
`NumbersOwn`.

**Fairness.** `Delivery`: the steps of a listener that wait for nobody, the timer of a
wait and the next `bus_wait` of an agent in `Readers` are weakly fair, because the Go
scheduler runs every goroutine and the hint of each "still_waiting" answer tells the
agent to call again; the successful answer is strongly fair: a client may fail, but
not forever.  Nothing is assumed of posters or of notifications. `TokenRefresh`: the
steps of a job are weakly fair (a CLI ends or runs into the timeout of four minutes),
and so are the startup pass and the settling of each entry; `Due` is strongly fair,
because the ticker visits every profile every 30 seconds and a profile that is due now
and then is met while it is.  `Targets`: an operation that has begun goes on, the
reconciler's pass runs once a minute, a renewal distributes what it renewed.
`AgentWrapper`: the wrapper's own steps are weakly fair and the choice of a waiting
signal strongly: Go's select picks among ready cases at random, so one that is ready
again and again is picked.  Nothing is assumed of users, harnesses, children or the
server.  In the composed runs each fairness condition is about the steps of one mode
(`Waits(...)`, `Files(...)`, `Refreshes(...)`, `Wraps(...)`), which is the same
condition where they are taken.

## 4 The proofs

All theorems hold for every value of the constants that satisfies the named assumption
of the module (`DeliveryAssumption`, `RoomsAssumption`, `RolesAssumption`,
`TokenRefreshAssumption`, `ShimAssumption`, `SwitcherAssumption`); some state a
hypothesis of their own besides: `NoSelfDM`, `Clis = {}` (no command line switches the
account), `Budgets` (budgets are positive and end), `StatesAreReal` (no state stands
for none), `LoginNames` (names are told apart and the caps are numbers),
`PostsBounded` (the cap on posts is a number), `RequestsFinite` (a server has finitely
many goroutines) and `OneAtATime` (an agent waits for the answer to one wait before it
sends the next).

Components that the runs compose are proved about in the composition. `BusPartsProofs`
and `AgentSideProofs` prove the invariant of each component for the component's own
specification, reached by INSTANCE, and then that every behaviour of `PartsSpec` or
`SideSpec` is one of the component (`PartsAreData`, `PartsAreUser`, `PartsAreStorage`,
`PartsArePresence`, `SideIsPusher`, `SideIsWatchdog`, `SideIsTargets`): each step is
one of its steps or leaves its variables alone. `RolesProofs` does the same for the
parts of `RacesSpec` (`RacesPoll`, `ShimsHold`), and `TokenRefreshProofs` for the
wrapper in `RecoverySpec`.  So the theorems are about the very specification and the
very property that TLC checks.

* `DeliveryProofs!TypeCorrect` and `RoomsProofs!TypeCorrect`,
  `RolesProofs!TypeCorrect`: types, one lemma per group of actions.
* `DeliveryProofs!IDsAreUnique`.  Uniqueness of stored ids is not inductive: an
  append must not bring an id that is already stored.  The invariant adds
  `FreshIDs`: the counter covers every id in use, and an id that was allocated and
  not appended yet belongs to one poster.  `AllocateID` takes the counter's
  successor, `AppendMessage` turns a held id into a stored one, and after a stop
  nobody holds one and the counter is at least the highest stored id.
* `DeliveryProofs!ReadingIsALedger`: `Spec => LedgerSpec`, the message path
  implements `ReadLedger` for every value of the constants.  The log is the set of
  all stored messages and `accounted` is `settled`.  Every step of `Delivery` is a
  post (`AppendMessage`, the "server started" of `Start`), a room's messages
  dropped, a move of one agent's cursors, or invisible to the ledger.  The
  invariant `LedgerInv` adds to that of `IDsAreUnique` that messages are stored
  in the room they were sent to (`Placed`) and that what a listener is about to
  move a cursor to was accounted for with its answer (`AcksSettled`).  A restart
  sorts the logs; it loses nothing because ids are unique (`ReloadsAll`).  The proof
  asks of each channel receive where its cursor was before: a room wait from an
  explicit since_id (`server.go:681`) leaves an unset cursor unset.
* `LossProofs!LostOnlyThroughRaces`: `Spec => []LostOnlyByRaces`.  What an agent lost is
  a matter of where its cursor is now, but the cursor was put there by a request
  that looked at the room earlier.  `Passable` names the positions a cursor may take
  whatever is stored: everything below is known to the agent or met a race, and
  (`Clear`) an id below that is still to be stored is one that will come out of order
  or was given out by a process that stopped.  The invariant `LossInv` says that
  cursors stand there (`CursorsPass`), that what a request is about to move one to is
  such a position (`AcksPass`), and so is where it reads from (`SincePasses`).  The rest
  says why an id heard on a channel is one: a request that listens has every stored
  message it does not know in its channel or about to be notified (`HearsAll`), and its
  channel brings them in order but for those that were overtaken (`Arrivals`).  A message
  published between the first look and the subscription, a full channel and a wait whose
  agent is out of the room are exactly the steps that break `HearsAll` unless the id
  counts as exposed.  TLC confirmed `LossInv` in two instances (one with joins, leaves,
  deletions and two waits at once) before it was proved.
* `LossProofs!NothingRepeated`: `Spec => []RepeatedOnlyOutOfOrder` for agents that
  have one wait open at a time (`OneAtATime`); two waits of one agent read from the
  same cursor and are both answered.  The invariant `OnceInv` is about rooms that are
  still stored in id order and a server that has not stopped.  What an agent was
  handed is behind its cursor, or the agent has no wait open and a request is about to
  move the cursor that far (`Behind`); a room wait reads from behind it, too
  (`SinceBehind`).  So a first look and the select loop, which both compare with one
  of the two, find nothing that was handed over (`SeenBefore`), and what they hand
  over is followed by the cursor: a room wait moves it to the message stored last,
  which in an ordered room has the highest id.  An id that was handed over or is on a
  channel belongs to nobody who is about to store it (`HandedUsed`, `SentUsed`). The
  proof needs `Arrivals` of `LossInv`.  TLC confirmed `OnceInv` in the instance of
  `delivery_races` and in two with two listeners before it was proved.
* `RoomsProofs!NoGhostHolds` and `NoGhostMembers`, from `Placement`: a holder is
  registered and seated; rooms that do not exist have no seats; and, unless
  somebody opens a DM with itself, an agent sits at most once in a room and only
  when it is registered.  The last part needs the first: the ways of removing an
  agent take out one entry of a member list, so a second entry would survive.
  `NoSelfDM` is therefore a hypothesis of `NoGhostMembers`, and section 5 shows
  what happens without it.
* `RolesProofs!LeaderIsAlone`.  A commit decides on a cardinality that was read
  under another lock.  The invariant `Agreed` says what makes this safe for a
  built-in singleton that no client redefines: every definition in memory, in the
  tables, and in the hands of a request still says singleton, so a stale
  cardinality is the right one.
* `RolesProofs!RolesFit` and `RolesSaved`, when one request is served at a time, from
  `OneClientInv`.  A request works in many steps, and a restart may cut it off after
  any. `Kept` says that what is held is defined in memory and in the tables, so that a
  restart takes no definition away from a holder; this is why a deletion unassigns
  before it drops and drops before it saves.  Where the table of custom roles could
  not be written or read a restart does take a definition away, or brings one back:
  `Kept` then speaks of the memory only (`Stored`), and the restart adds the key to
  `setBack`, which the property excepts.  `Synced` says that each table whose last
  write and read succeeded is that of the memory, but for the request on its way to
  save, and `Ready` what that request has behind it at each of its steps: which keys
  it found nobody to hold, and which part of the table it has written or failed to
  write.  A save copies both maps, so the next one that succeeds makes up for the one
  that failed.
* `RolesProofs!ShimsApart` and `SessionsKept`, from `ShimInv`.  A name is a shim's by
  what the server answered, which may be several stops ago.  `SpokenFor` joins the
  two: whoever speaks with a name, or is about to when its answer arrives, is its
  owner on the bus, or the name is one that was claimed or forgotten under a running
  shim.  `Heard` says that an agent's age and the time to its shim's next heartbeat
  are together at most one interval, unless a heartbeat was missed, and the interval
  is at most the stale window (`ShimAssumption`).
* `RolesProofs!AskedAgainInTime` is about the moment a request of the ticker goes out,
  which is long after the need for it was decided, while switches, settings and other
  refreshers go on.  `FetchInv` says why the reason still stands: there is one fetch
  at a time (`OneFetch`, which the provider lock gives), and a request about to go out
  is `Deserved`: its numbers are still old, or the credentials it was decided on still
  not those of the last fetch.  Only a fetch that ends files numbers or credentials,
  and that would be a second one; without the lock TLC finds the property violated.
* `RolesProofs!NumbersFiledRight`, an action property of the poller, too.  A fetch
  compares the owner, the generation and the active profile one after another, long
  after the request went out.  `Switching` says where the live file and the pointer
  stand while a switch is between its writes: they differ only then.  `Owned` follows
  the fetch: as long as another profile's numbers are under way, they can be told
  apart, because the live file is not the profile's now or the generation moved on, or
  a switch has its invalidations still to make.  With a command line that switches
  twice this fails (section 5), hence `Clis = {}`.  TLC checks switches with one
  refresher and two refreshers with one event; the theorem is about both at once.
* `TokenRefreshProofs!JudgedWereLaunched`.  A verdict is given from a journal
  entry, an exit status or a directory, some of them written by a process that is
  gone.  The invariant `IInv` says what each stands for: an entry past
  "spending", in memory, on disk or in the startup pass's backlog, a run past its
  launch, a directory whose login changed, and a container left behind all name a
  token a CLI was started on.
* `TokenRefreshProofs!OneRunPerToken`.  A run decides on a token, and then takes
  the lock of whatever token its profile holds by then; it goes on only if the
  profile still holds, or holds again, the token it decided on.  That the two are
  the same token is a matter of order, which `Order` adds: what a profile holds is
  only taken away or replaced by a younger login (`Rises`), because every rotated
  login, in the provider's answer, in memory or in a directory, is younger than
  the token it replaces.  So a profile never gets back the token a run waits with,
  and a run past its check has the lock of the token it spends.  `SettleRotated`
  and `CommitOne`, which work without that lock, do not spend.
* `TokenRefreshProofs!CommitsSpareLogins`, an action property.  What a commit writes
  was found hours or one process earlier, in a directory, in memory or in a rescue
  file.  The invariant `Trace` says that in each of these places it is the login the
  provider issued for the token the run is about, and `CommitOne` writes only over
  that token.
* `TokenRefreshProofs!SpentOnce`: `Spec => []RespentOnlyThroughGaps`.  "Sent at most
  once" is not inductive: the next run must know of the last one.  The invariant
  `Spend` says, of every token that met no gap (`SpentOK`):
  the request came from one run or one container left behind (`OnceOK`); once there
  may have been one, the token is named by exactly one slot of the journal, in
  memory and on disk, or has its verdict, or no profile holds it (`RecordOK`); an
  entry that says "spending" is of a token nothing was sent for, or of a run about
  to say "started" (`NotedOK`); what the settling read from such an entry earlier is
  settled as unspent only if nothing was sent, since a verdict, a pending login or
  the run itself would show (`ReadOK`); a run at its last step has earned the end of
  its entry (`ClearOK`); and a run that spends still has its slot and its directory
  (`SpenderOK`).  `Journal` then starts a run only on a token nothing was sent for.
  Two lemmas carry the case analysis: `AsideKeeps` for steps that leave the token
  alone or go on with it, `OverKeeps` for those that end its run; what is left are
  the steps that journal, start, answer and abandon a request, and the stop.  TLC
  found the gap about failed writes above when the invariant was checked with two
  faults and a stop, before it was proved.
* `TokenRefreshProofs!RotationsAreKept`: `Spec /\ []RoomForRescues => []RotationKept`.
  That the login is in a file, in memory or in a directory somewhere is not inductive:
  what a restart loses, and what the next run deletes, is decided by the journal.  The
  invariant `Keep` therefore says, of every token that met no gap, that the entry of
  some profile, in memory and on disk, leads to the login (`LeadsTo`): by the
  directory it says it has, or by its rescue file.  `Shaped` fixes what the entries of
  each phase name and which runs have a file (`EarlyOK`, `RunsShaped`); a container
  that may still bring the login works in a directory the journal names (`HomeOK`); a
  "spending" entry read earlier is of a run that shows or that brought nothing
  (`HandsOK`); and a run that is about to end its entry has committed the login or
  given the verdict (`EndsOK`, with `CarriesOK` for what the run of a CLI has by
  then).  The proof stands on `Spend`: a token has one slot and one run.
  `RoomForRescues` is the one hypothesis: either the server never stops (as in
  `refresh_shared`, where the copy in memory is then enough and the hypothesis is
  true), or no profile has `MaxRescues` rescue files already when the next is written.
  It is needed: `persistRotated` keeps the newest `maxRotatedRescues` files of a
  profile (`credential_copyback.go:252`) whatever the journal still names, so that a
  run of an old token, written meanwhile, pushes out the file of a newer one, and a
  stop then loses the copy in memory.  With a cap of one, a stop and two failing
  writes TLC finds that in 25 steps; with the code's three it takes as many such
  files.  `Keep` itself TLC checked on the instance of `refresh_shared` completely,
  and with a stop to a depth of 30 steps, before it was proved.
* `TokenRefreshProofs!NobodyIsLeftBehind`: `RecoverySpec => []NoGhostLeft`.  A
  shutdown asks for the agent's name once, sends one request to delete it, and may run
  while the child or the bootstrap is still registering.  `GhostInv` says that the
  wrapper knows, sees and registers one id only (`OneAgent`), and that during a
  shutdown an agent the server still knows is `Deletable`: the request on its way
  names it, or the bootstrap that found no name looks a second time, unless the server
  was away (`excused`).  Once the wrapper is down its child is gone and nothing
  registers any more (`Leaving`).

* `AgentSideProofs!StallsAreNoticed`, under `Budgets`: every budget is positive
  and below `Far`, which stands for no deadline.  The property speaks of ages, the
  goroutine only of the one timer it armed some time ago.  The invariant that
  joins them is `InTime`: while the goroutine sleeps, its timer is due no later
  than the nearest deadline of the state as it is now.  Whatever the child prints
  leaves a wake-up, so `InTime` asks nothing until `Run` has read the new state;
  `Run` re-arms the timer to the nearest deadline; a tick brings the timer nearer
  by one and no deadline nearer by more than one.  `Begun` (tools run in turns
  only; in a turn both ages have begun) is what makes the last step true.

* `AgentSideProofs!LatestIsPushed`, under `StatesAreReal`: no state is the value
  that stands for none.  The invariant adds `Armed`: until the output is drained, a
  state that waits for the debounce has a timer running.
* `BusPartsProofs!ReactionsStayTheirs`, under `PostsBounded`.  A reaction is
  stored under an id looked up earlier, and the room may be gone by then.  The
  invariant `ClaimsHold` says that every reaction in memory, in the table or in
  the hands of a handler is under an id the counter has passed, and that the message
  stored under it, if there still is one, is the one it was meant for; except for ids
  whose row a failed save or load left different from the memory (`unsaved`).  A
  later message gets a higher id.  A restart sets the counter back to the highest
  stored id (`HighestID`), and removes the reactions of all others before it serves.

* `BusPartsProofs!ReactionsStay`, the action property `ReactionsKept`.  A sweep
  removes the reactions of all messages it did not find in one look at the store,
  later. The invariant `KeepInv` adds `SweepsFind`: of the posts that are stored now
  it found all but those stored while it ran, which are the exception of the property;
  and whoever is clearing everything found none.  A start may lose a reaction whose
  row could not be saved or read, and no other step may.
* `BusPartsProofs!ImagesStay`.  `ImageInv` says what the handlers hold between two
  locks: an image on its way to the registry is on disk, too young for a sweep and
  nobody else's (`Uploading`); a registered image has its file and its row
  (`Registered`); what a deletion or a sweep is about to remove is in no stored
  message, but for messages that came meanwhile (`RemovalsSpare`).  `unserved` is
  where each of these fails: the clearing of registry and directory, which hold one
  lock and none, adds what is registered or being uploaded then, and a failed save or
  load what it kept from the table or the registry.
* `BusPartsProofs!StartsKnowLatest`.  A start that is cut short leaves a section in
  two places.  `Truth` says which of the two the next start will take: the JSON file,
  if it is still to be imported, before the table.  `StoreInv` says that of every
  section that is not `harmed` this is the latest version all along, and `Progress`
  which files and which mark each stage of a start has behind it, so that a stage
  removes a file only when its table has it.  A load that cannot read a section harms
  it only if what is left of the section differs from its table, and a failed save or
  clearing harms a section until its next save (`HarmedTold`).
* `BusPartsProofs!CuratorsAreKept`, `TablesFollowMemory` and `ListedSoundsPlay`,
  from `UserInv`.  A curator edits a record that was read under an earlier lock:
  `Edits` says that the record is as it was read, gone, or has a higher version, and
  `Adds` that an id is in one hand only and was never used, in memory or in the table.
  `RecordsOK` and `SavesOK` say that a table is behind only while somebody is on the way
  to save it, or when the section is `unsure`: its last save or load failed, or its last
  saves crossed; of several savers the last takes its copy after the last change, and the
  section is sure again when a save succeeds alone.  A sound on its way to the list is on
  disk and not listed (`SoundsOK`).
* `BusPartsProofs!ListenersAreShown`, from `ShownInv`.  Broadcasts are sent outside the
  lock that counts the waits.  `Counted` says that each counter is the number of
  handlers between entering and leaving, so that "the last wait ended" means what
  it says.  `Timely` says that a broadcast under way tells the truth about
  its scope as it is now, unless a wait began or ended since it was decided.
* `BusPartsProofs!DeparturesAlternate` and `DeparturesAreReal`, from `AlertInv` beside
  `ShownInv`.  The sweep looks at the waits under one lock and at the agent under
  another.  `Looked`: if it found nothing open and the agent has been away for the
  offline window, nothing has been opened since but a socket whose hello is not
  complete, because whoever waits was just seen.  `Alternating`: while the rooms are told
  that the agent is gone, its state is offline, its age is not in the stale window
  (one sweep at least ran in each window), and if it is fresh or something is
  open, it has shown itself since.  TLC confirmed both invariants for
  two requests and all ages before they were proved.

* `SwitcherProofs!LoginsStay`: `Spec => [](mixed \/ LoginsKept)`.  An operation writes
  several files and the harness writes the live one between any two, so the property
  needs to know what is true half-way through each operation.  `JobOK` says what each
  step has behind it; `Linked` that the link of a profile that follows the live file
  is the active one's, or that of the profile that an import or a rename is about to
  make active; `Owned` that every login in a profile, in its backups, or on its way
  there is of the account its profile keeps, and that no two profiles keep the same.
  `Found` is the promise itself, without the backups: the newest login of an account
  that was not given up is the live one or stored in a profile.  It is not inductive,
  because a switch overwrites the live file and a link overwrites a stored one.
  `Current` adds that a profile that is not shown by the live file (`Shown`) has the
  newest login of its account in its stored file, so that the live file may be
  replaced after the snapshot of `Capture`, and that the live file has it for the
  profile that is shown, so that `LinkIn` may drop the stored copy. `Switching` is
  what a switch still knows of a file it has no lock on: the bytes it captured are the
  live ones unless the harness has written since, and then the account is in
  `excused`.  `mixed` becomes true where the code lets the pointer and the live file
  part (`Halfway` for a process that is killed, a pointer that cannot be written or
  put back), and the theorem shows that there is no other way.  Here, too, TLC
  confirmed the invariant in three instances before it was proved.

* `AgentSideProofs!LoginsAreKept`, under `LoginNames` (profiles, accounts and the name
  of a race are told apart; the caps are numbers): `SideSpec /\ []RoomForLogins =>
  []LoginsKept`.  The promise is that a file always holds the newest login; a pass, a
  switch, an import and two migrations overwrite files in turn, any write may fail and
  the server may stop between any two.  `LoginInv` says what each step has behind it:
  the login that a pass files is among the rescues (`PassOK`); a login that a profile
  held is in its backups before another is stored there, and a profile that is made
  for a login is empty until then (`FileOK`, `ImportOK`), so that undoing it removes
  nothing else; from its first step on a migration has the live login in the backups
  of the profile it goes to (`MigrateOK`); once the full login is back in the live
  file, the stored one is the same or was given up (`UnmigrateOK`).  `Linked` is for
  the link model, where a tick replaces the active profile's file by a link at any
  time: if it still holds a login that counts, that login is in the live file too or
  has a copy. `AllIssued` (no file is newer than the last login issued) makes a login
  made now differ from every file, so that it never brings an old copy back to count.
  The hypothesis `RoomForLogins` says that no copy is dropped for a newer one: the
  rescues are below their cap of 5 and the backups of each profile below theirs of 10.
  It is needed: with caps of one TLC finds a behaviour of twelve steps in which a
  login made in the link model is left in a backup only, by a migration whose marker
  could not be written and a tick that put the link back, and the backup of the next
  migration evicts it. TLC confirmed `LoginInv` under that constraint, with three
  calls and with two accidents, before it was proved.

Only model-checked: `LoginKept` of `Switcher` after an accident, when the pointer
names a profile whose login is not the live one (whether the newest login survives
then depends on how many backups are written, and the invariant would have to count
them), `LoginsKept` of `MCAgentSide` once a rescue or a backup was dropped for a newer
one, the action properties that are not named above, and liveness (`ReadersCatchUp`,
`LoginFiled`, `CopyFollows`, `RotationsLand` and the like), which is out of the
prover's reach together with ENABLED.

## 5 What was found

Five disagreements have a run of their own and are quoted in `PROJECT.json`:

* `delivery_reissued_ids`: a deleted room keeps its cursors, ids start again
  below them after a restart, and a new message is born read.
* `roles_cycle`: PUT /roles accepts two roles that extend each other.
* `refresh_startup`: the startup pass of the refresher settles the entry of a run
  that is going on and deletes the directory its CLI works in.
* `switcher_stale_check`: a switch looks for the live login before it has the
  lock, and drops the link to one that appeared meanwhile.
* `pi_tool_time`: when a tool ends, the time it took counts as silence of the model.

Others were met while modelling.  The models contain them; where a formula is
given, it fails in the instance named.

Messages and rooms:

* A wait looks at the backlog (`server.go:635`) before it subscribes (666): a message
  between the two is passed by the cursor of a later delivery.
  `\A a \in Agents : Lost(a) = {}` in `Delivery_races.cfg`.
* Two senders append in another order than they took ids
  (`store_messages.go:105-137`), against "Storage order is ascending by ID"
  (`store_messages.go:266`).
* The prefs handler checks that nobody else is in the room and hides it in a later
  critical section (`server.go:1165-1169`); a DM deleted while hidden and opened
  again stays hidden, with both participants in it.
  `\A a \in Agents : \A r \in hidden[a] : Alone(a, r)` in `Bus_parts.cfg`.
* `POST /dm` with from = to seats an agent twice (`store_rooms.go:508-548`), and
  the stale sweep takes out one entry (`store.go:362-367`): a ghost member
  remains.  `MembersRegistered` with `Participants` a DM of alice with alice.
* `DELETE /rooms/_system` is accepted like any other; events are dropped until a
  registration or a restart brings the room back.
* `listRooms` copies room records but shares their member slices
  (`store_rooms.go:74`), which leave and kick shift in place.
* `docs/sqlite.md:56` says that plain prune clears conversation state;
  `store.go:213-244` and `docs/retention.md:84` keep it.

Roles: two concurrent requests can leave a role held that is not defined, an agent
with the name of a role key, and tables that differ from memory
(`AssignedRolesExist`, `NamesApart`, `SavedWhenQuiet` of `Roles` in `Roles_races.cfg`).

Presence:

* An agent that is offline and idle can age past the stale window and be alerted
  about again when the sweep interval is longer than the window, and again after a
  restart, which forgets that it was reported: `AlertsAlternate` asks only where
  sweeps are frequent and within one run of the server.
* A fetch of a room counts agent-wide waits (`store_messages.go:943-948`,
  `store_agents.go:966-971`), the events do not: the interface keeps showing
  "listening" for a wait whose end no event of that room reports
  (`app.js:5222`).  `wide` names these rooms.
* The broadcasts of two waits, and the reaction summaries
  (`broadcastReactionUpdate`), may be sent in another order than they were decided.

User data:

* Snapshots of fleets and prompts are written after the lock was released, and of
  two saves the older may be written last.  `unsure` names these sections.
* A save that fails is logged and not repeated, and no client is told; a table that
  cannot be read at a start leaves its section empty, and the next save makes that
  permanent (`memory.go:80-106`, `store_sounds.go:28-50`,
  `store_attachments.go:60-86`).  A removed record returns with a start after a failed
  save (`memory.go:131`).
* `prune -a` removes the directories of sounds and attachments outside their locks:
  an upload meanwhile keeps its entry and loses its file.

Storage: `openSQLite` removes the database whenever configuration or the core import
returns an error (`sqlite.go:53-69`, `98-156`, `237-245`): also when the import was
committed and some JSON files had already been moved away, so that the next start
imports only the files still in place, and also a complete database of a later
schema.  `docs/sqlite.md:39-40` speaks of "the partial database".
`[][exists /\ ~exists' => harmed' = harmed]_vars` in `Storage` with `MaxEdits = 2`.  On
the other hand corrupt JSON among the remaining files aborts the start and keeps
the database, and an index file that cannot be removed is imported again.

The agents' side:

* A failed heartbeat is ignored, and a `bus_wait` of an agent the server has
  forgotten times out like any other, so that a bare MCP session never learns that
  its registration is gone; `docs/retention.md:86` says "agents simply re-register".
  Calls other than waits have no client timeout.
* The wrapper's failure counter is not reset by exit errors between failures
  of a class, so "consecutive" (`README.md:270`) failures need not be; a
  registration that is lost and noticed only by the preflight is never counted.
* A signal that arrives while a stalled child is being stopped is used up to
  hasten that stop (`swallowed`); the wrapper then goes on.
* A pi child that is silent before its first turn has no deadline.
* The latest state is lost when it equals the last one pushed while an older one is
  pending (`agent_state.go:126-127`), a late flush can show "thinking" after
  "respawning", and a push that fails is not repeated.

Accounts, link model:

* A switch to an empty profile that stops between the pointer and the removal of
  the live file is called recoverable by the next login (`switch.go:236-240`); the
  server's `EnsureActiveLinks` may first link that profile to the old account's login.
* A failed write of `state.json` in `Rename` (`profile.go:275`) leaves the pointer on
  the old name and the renamed profile linked, although "Inactive profiles always
  hold plain files" (`switch.go:31`).

Accounts, token copies:

* `importLogin` takes the reconciler's decision as forced (`import.go:56`) and does
  not make it again under the lock; a pass may decide before its tool leaves the model.
* `SwitchClear` and `ClearActive` remove a login that landed after the check;
  `FanOutActiveReplacing` overwrites one that nobody filed.
* The comment of `switchTokenCopies` on what a failed write leaves holds for one
  target.

Token refresher: a refresh whose commit reached one of two profiles, or whose
verdict came between the decision of a tick and its lock, and the other gaps listed
with `TokenRefresh` in section 2, let a token be spent twice:
`\A t \in Tokens : sent[t] <= 1` fails in both passing instances of `TokenRefresh`.

Usage polling:

* A command line that switches the account twice within one fetch leaves
  generation and fingerprint as they were: with `Clis` not empty `NumbersOwn` fails,
  against `docs/usages.md:109-113`.  Through the server one window remains (the
  exception of `NumbersOwn`): a request that has swapped the live file and has yet to make
  its invalidations, which then remove the entry.  A fetch that runs between the two
  writes of a switch needs no exception of its own: the proof of `NumbersFiledRight`
  shows that its comparison fails, or that the invalidations are still to come.
* `aimebu usages` reads the cache with a manager that knows no profiles and saves
  it without their entries (`manager.go:797-838`), although "valid named history is
  retained" (`docs/usages.md:106-107`).
* A fetch of an inactive profile that ends expired or in a passing failure writes the
  previous entry back after an invalidation removed it; a passing failure keeps the
  old refresh time, so the next tick asks again (`docs/usages.md:88, 93`).
* Saving new settings of Ollama or Mistral removes their entry, and a fetch under
  way with the old cookie may put it back.

## 6 What is left out

* Addressing, log parsers, TLS, daemonisation, network rules, configuration,
  printing and the web front end: text, I/O or rendering without an order of
  steps that could go wrong.  What they do to the modelled parts (a stop, a start, an
  event read off a child's output, a broadcast shown) is an action there.
* The warm-up of Claude windows and the refreshers of the link model
  (`claude_warmup.go`, `claude_refresh.go`, `codex_maintenance.go`): one run of a vendor
  CLI each, with the schedule of the token refresher but without its journal.
* Agent sessions (`sessions.go`), pins, history paging, the SSE firehose and
  anonymous waits: read-only or last-writer-wins.
* What each modelled component leaves out is named with it in section 2.

## 7 What could follow

| Next | What it would add |
|---|---|
| `Switcher` beside `TokenRefresh` | the locks between them, with two processes on the same files |
