---------------------------- MODULE TokenRefresh ----------------------------
(***************************************************************************)
(* The spend-once protocol by which the aimebu server refreshes the logins *)
(* of the switcher's profiles.  A refresh token can be used once: the run   *)
(* is journaled, a CLI in a container spends the token on a throwaway copy, *)
(* and the rotated login is rescued to a file before it is committed to     *)
(* every profile that stores the spent token.  The server may stop at any   *)
(* step; what it left is settled from the journal.                          *)
(*                                                                         *)
(* Tokens are numbers in the order they are issued; a login is the refresh  *)
(* token it holds.  One tool is modelled: the two share no state but the     *)
(* goroutine that takes them in turn.                                        *)
(***************************************************************************)
EXTENDS Integers, Sequences, FiniteSets

CONSTANTS
  Profiles,    \* the profiles of the tool
  FirstLogins, \* profile -> the token it starts with; two may store one account
  Handlers,    \* goroutines serving switch requests
  Ticker,      \* the goroutine of TargetRefresher.Run
  Free,        \* the holder of an account lock nobody holds
  MaxRescues,  \* rescue files kept per profile, 3 in the code
  Calls,       \* bound: what happens around the refresher in this instance
  MaxToken,    \* bound: tokens issued
  MaxFaults,   \* bound: writes that fail
  MaxStops     \* bound: server stops

Jobs == Handlers \cup {Ticker}
Tokens == 1..MaxToken
NoToken == 0
Rejected == -1  \* a login whose refresh token the CLI wiped

ASSUME TokenRefreshAssumption ==
  /\ Ticker \notin Handlers /\ Free \notin Jobs
  /\ IsFiniteSet(Profiles) /\ Profiles # {}
  /\ FirstLogins \in [Profiles -> Tokens]
  /\ MaxRescues \in Nat \ {0} /\ MaxToken \in Nat \ {0}
  /\ MaxFaults \in Nat /\ MaxStops \in Nat
  /\ Calls \subseteq {"switch", "login", "remove", "toggle"}

VARIABLES
  stored,    \* profile -> the token in its store file, or NoToken
  removed,   \* removed.json: tokens of removed profiles
  saved,     \* refresh-state.json: the journal and the verdicts
  rescues,   \* profile -> its rescue files, oldest first
  temps,     \* profile, token -> the login in the run's throwaway directory
  state,     \* the server's view of saved: with the changes it could not save
  pending,   \* token -> its rotated login, in memory until it is committed
  jobs,      \* job -> the state of its run
  locks,     \* token -> the job that holds the lock of the account
  backlog,   \* profile -> journal entry the startup pass has still to settle
  booted,    \* has the startup pass run since the refresher was enabled?
  strays,    \* profile, token -> a container no job waits for any more
  successor, \* token -> the token the provider issued for it, or NoToken
  issued, faults, stops,
  \* What the properties talk about; no step reads these.
  sent,      \* token -> how often a request spending it reached the provider
  launched,  \* tokens a CLI was started on
  delivered, \* tokens whose successor was written into a throwaway directory
  exposed    \* tokens that met one of the gaps the code leaves open

disk == <<stored, removed, saved, rescues, temps>>
memory == <<state, pending, jobs, locks, backlog, booted>>
world == <<strays, successor, issued>>
history == <<sent, launched, delivered, exposed>>
vars == <<disk, memory, world, faults, stops, history>>

-----------------------------------------------------------------------------

Entry == [phase : {"none", "spending", "started", "rotated"}, token : Tokens \cup {NoToken},
          rescue : BOOLEAN, temp : BOOLEAN]
NoEntry == [phase |-> "none", token |-> NoToken, rescue |-> FALSE, temp |-> FALSE]
RefreshState == [journal : [Profiles -> Entry], verdicts : SUBSET Tokens]

\* own: written before the commit, so that the journal names it.
Rescue == [token : Tokens, own : BOOLEAN]

Run == [pc : {"idle", "lock", "look", "launch", "note", "wait", "rescue", "mark", "settle",
              "list", "commit", "clear"},
        profile : Profiles, token : Tokens \cup {NoToken},
        spends : BOOLEAN,   \* a run of its own, or the settling of an entry?
        entry : Entry,      \* the entry being settled
        exit : {"none", "running", "unsent", "clean", "failed", "rejected"},
        rotated : Tokens \cup {NoToken}, rescued : BOOLEAN, keep : BOOLEAN,
        todo : SUBSET Profiles, committed : BOOLEAN]

Idle == [pc |-> "idle", profile |-> CHOOSE p \in Profiles : TRUE, token |-> NoToken,
         spends |-> FALSE, entry |-> NoEntry, exit |-> "none", rotated |-> NoToken,
         rescued |-> FALSE, keep |-> FALSE, todo |-> {}, committed |-> FALSE]

TypeOK ==
  /\ stored \in [Profiles -> Tokens \cup {NoToken}] /\ removed \subseteq Tokens
  /\ saved \in RefreshState /\ state \in RefreshState
  /\ rescues \in [Profiles -> Seq(Rescue)]
  /\ temps \in [Profiles \X Tokens -> Tokens \cup {NoToken, Rejected}]
  /\ pending \in [Tokens -> Tokens \cup {NoToken}]
  /\ jobs \in [Jobs -> Run]
  /\ locks \in [Tokens -> Jobs \cup {Free}]
  /\ backlog \in [Profiles -> Entry] /\ booted \in BOOLEAN
  /\ strays \in [Profiles \X Tokens -> {"none", "home", "lost"}]
  /\ successor \in [Tokens -> Tokens \cup {NoToken}]
  /\ issued \in 0..MaxToken /\ faults \in 0..MaxFaults /\ stops \in 0..MaxStops
  /\ sent \in [Tokens -> Nat]
  /\ launched \subseteq Tokens /\ delivered \subseteq Tokens /\ exposed \subseteq Tokens

Init ==
  /\ stored = FirstLogins /\ removed = {}
  /\ saved = [journal |-> [p \in Profiles |-> NoEntry], verdicts |-> {}] /\ state = saved
  /\ rescues = [p \in Profiles |-> << >>]
  /\ temps = [d \in Profiles \X Tokens |-> NoToken]
  /\ pending = [t \in Tokens |-> NoToken]
  /\ jobs = [j \in Jobs |-> Idle] /\ locks = [t \in Tokens |-> Free]
  /\ backlog = [p \in Profiles |-> NoEntry] /\ booted = FALSE
  /\ strays = [d \in Profiles \X Tokens |-> "none"]
  /\ successor = [t \in Tokens |-> NoToken]
  /\ issued \in {n \in Tokens : /\ \E p \in Profiles : FirstLogins[p] = n
                                /\ \A p \in Profiles : FirstLogins[p] <= n}
  /\ faults = 0 /\ stops = 0
  /\ sent = [t \in Tokens |-> 0] /\ launched = {} /\ delivered = {} /\ exposed = {}

-----------------------------------------------------------------------------

Holders(t) == {p \in Profiles : stored[p] = t}
Open(e) == e.phase # "none"
Job(j) == jobs[j]
At(j, pc) == jobs[j].pc = pc
Becomes(j, run) == jobs' = [jobs EXCEPT ![j] = run]
GoTo(j, pc) == Becomes(j, [Job(j) EXCEPT !.pc = pc])
Dir(j) == <<Job(j).profile, Job(j).token>>

\* A write that works, and one that fails, which happens at most MaxFaults times.
Works == UNCHANGED faults
Fails == faults < MaxFaults /\ faults' = faults + 1

\* mutate: a change that cannot be saved stays in the server's view and goes to
\* disk with the next one that can.
Save(new) == state' = new /\ saved' = new /\ Works
SaveFails(new) == state' = new /\ UNCHANGED saved /\ Fails
SetEntry(p, e) == [state EXCEPT !.journal[p] = e]
SetVerdict(t) == [state EXCEPT !.verdicts = @ \cup {t}]

\* Throwaway directories disappear, also under a container still running in one.
Forget(dirs) ==
  /\ temps' = [d \in DOMAIN temps |-> IF d \in dirs THEN NoToken ELSE temps[d]]
  /\ strays' = [d \in DOMAIN strays |-> IF d \in dirs /\ strays[d] = "home" THEN "lost"
                                        ELSE strays[d]]

\* The run of j is over: it releases its lock and deletes its directory.
Leave(j) ==
  /\ Becomes(j, Idle)
  /\ locks' = [t \in Tokens |-> IF locks[t] = j THEN Free ELSE locks[t]]
OwnDir(j) == IF Job(j).spends /\ ~Job(j).keep THEN {Dir(j)} ELSE {}

DropPending(t) == pending' = [pending EXCEPT ![t] = NoToken]
HoldPending(t, s) == pending' = [pending EXCEPT ![t] = s]

\* Tokens whose entry p's journal slot would lose to a change made for token t.
Displaced(p, t) == {state.journal[p].token} \ {t, NoToken}

\* A request spending t was sent, or may be sent by a CLI still running.
Touched(t) ==
  \/ sent[t] > 0 \/ \E p \in Profiles : strays[<<p, t>>] # "none"
  \/ \E j \in Jobs : Job(j).exit = "running" /\ Job(j).token = t

\* clearJournal ends whatever entry the profile has by now, with its directory,
\* and the run is over.  Two gaps: the entry may be one for another token, and
\* the run it belongs to may still be going on.
InFlight(t, j) == \E k \in Jobs \ {j} : Job(k).spends /\ Job(k).token = t
ClearJournal(j, dirs) ==
  LET p == Job(j).profile  e == state.journal[p] IN
  /\ Save(SetEntry(p, NoEntry)) \/ SaveFails(SetEntry(p, NoEntry))
  /\ Forget(dirs \cup (IF e.temp THEN {<<p, e.token>>} ELSE {}))
  /\ exposed' = exposed \cup Displaced(p, Job(j).token)
                        \cup {t \in {Job(j).token} : InFlight(t, j)}
  /\ Leave(j)

-----------------------------------------------------------------------------
(* refreshProfile, up to the spend.                                        *)

\* The login is due and has no verdict.  One that was just rotated is not due, for
\* hours, while the run that commits it takes minutes at most.
Fresh(t) == \E j \in Jobs : Job(j).rotated = t
MayRefresh(p) ==
  /\ stored[p] # NoToken /\ ~Fresh(stored[p])
  /\ stored[p] \notin state.verdicts

\* The due pass reaches a profile that is due; the startup pass comes first.
Due(p) ==
  /\ booted /\ At(Ticker, "idle") /\ \A q \in Profiles : ~Open(backlog[q])
  /\ MayRefresh(p)
  /\ Becomes(Ticker, [Idle EXCEPT !.pc = "lock", !.profile = p, !.token = stored[p]])
  /\ UNCHANGED <<disk, state, pending, locks, backlog, booted, world, faults, stops, history>>

\* A switch holds the account lock before it asks for the refresh.
Incoming(h, p) ==
  /\ "switch" \in Calls /\ At(h, "idle")
  /\ MayRefresh(p) /\ locks[stored[p]] = Free
  /\ locks' = [locks EXCEPT ![stored[p]] = h]
  /\ Becomes(h, [Idle EXCEPT !.pc = "look", !.profile = p, !.token = stored[p]])
  /\ UNCHANGED <<disk, state, pending, backlog, booted, world, faults, stops, history>>

\* The lock is the one of the token the profile holds by now; a busy account is
\* skipped.
Lock(t, j) == IF t = NoToken THEN UNCHANGED locks ELSE locks' = [locks EXCEPT ![t] = j]

AcquireAnyway(j) ==
  /\ At(j, "lock") /\ Lock(stored[Job(j).profile], j) /\ GoTo(j, "look")
  /\ UNCHANGED <<disk, state, pending, backlog, booted, world, faults, stops, history>>

Acquire(j) ==
  LET t == stored[Job(j).profile] IN
  /\ At(j, "lock")
  /\ \/ t # NoToken /\ locks[t] # Free /\ Leave(j)
     \/ (t # NoToken => locks[t] = Free) /\ Lock(t, j) /\ GoTo(j, "look")
  /\ UNCHANGED <<disk, state, pending, backlog, booted, world, faults, stops, history>>

\* An entry of this profile for this token is settled, never spent again.
LeftoverStarted(j) == state.journal[Job(j).profile] = [phase |-> "started",
                        token |-> Job(j).token, rescue |-> FALSE, temp |-> TRUE]

Leftover(j) == LET e == state.journal[Job(j).profile] IN Open(e) /\ e.token = Job(j).token

SkipLeftover(j) ==
  /\ At(j, "look") /\ Leftover(j) /\ Leave(j)
  /\ UNCHANGED <<disk, state, pending, backlog, booted, world, faults, stops, history>>

SettleLeftover(j) ==
  /\ At(j, "look") /\ Leftover(j)
  /\ Becomes(j, [Job(j) EXCEPT !.pc = "settle", !.entry = state.journal[Job(j).profile]])
  /\ UNCHANGED <<disk, state, pending, locks, backlog, booted, world, faults, stops, history>>

\* The token was replaced since the decision, Docker is missing or out of reach,
\* or the throwaway copy cannot be made.
Abandon(j) ==
  /\ At(j, "look") /\ ~Leftover(j)
  /\ Leave(j)
  /\ UNCHANGED <<disk, state, pending, backlog, booted, world, faults, stops, history>>

\* The copy, and the journal entry: if it cannot be written the run does not start.
\* Three gaps: of the journal only the profile's own slot was looked at; what it
\* holds for another token is overwritten; and the verdicts were looked at before
\* the lock was taken.
Spending(j) == [phase |-> "spending", token |-> Job(j).token, rescue |-> FALSE, temp |-> TRUE]
NamedElsewhere(j) == \E q \in Profiles \ {Job(j).profile} :
                        Open(state.journal[q]) /\ state.journal[q].token = Job(j).token

Journal(j) ==
  LET p == Job(j).profile  t == Job(j).token  new == SetEntry(p, Spending(j)) IN
  /\ At(j, "look") /\ ~Leftover(j) /\ stored[p] = t
  /\ \/ /\ Save(new)
        /\ temps' = [temps EXCEPT ![<<p, t>>] = t]
        /\ strays' = [strays EXCEPT ![<<p, t>>] = IF @ = "home" THEN "lost" ELSE @]
        /\ Becomes(j, [Job(j) EXCEPT !.pc = "launch", !.spends = TRUE]) /\ UNCHANGED locks
     \/ SaveFails(new) /\ Leave(j) /\ UNCHANGED <<temps, strays>>
  /\ exposed' = exposed \cup Displaced(p, t)
                        \cup {u \in {t} : NamedElsewhere(j) \/ u \in state.verdicts}
  /\ UNCHANGED <<stored, removed, rescues, pending, backlog, booted, successor, issued,
                 stops, sent, launched, delivered>>

-----------------------------------------------------------------------------
(* spend: the run of the CLI, and what it left.                            *)

Launch(j) ==
  /\ At(j, "launch")
  /\ \/ /\ Becomes(j, [Job(j) EXCEPT !.pc = "note", !.exit = "running"])
        /\ launched' = launched \cup {Job(j).token}
     \/ Becomes(j, [Job(j) EXCEPT !.pc = "wait", !.exit = "unsent"]) /\ UNCHANGED launched
  /\ UNCHANGED <<disk, state, pending, locks, backlog, booted, world, faults, stops,
                 sent, delivered, exposed>>

\* onStart: the process exists by now; a failed write is only logged.
NoteStarted(j) ==
  LET p == Job(j).profile  new == SetEntry(p, [Spending(j) EXCEPT !.phase = "started"]) IN
  /\ At(j, "note")
  /\ Save(new) \/ SaveFails(new)
  /\ GoTo(j, "wait")
  /\ exposed' = exposed \cup Displaced(p, Job(j).token)
  /\ UNCHANGED <<stored, removed, rescues, temps, pending, locks, backlog, booted, world,
                 stops, sent, launched, delivered>>

\* The CLI in a container of a job, or in one that outlived its job, does nothing,
\* or spends the token: the answer arrives or is lost, or the token was spent.
Idles == UNCHANGED <<temps, successor, issued, sent, delivered>>
Writes(d, login) == temps' = [temps EXCEPT ![d] = login]

Spends(d, home, answered) ==
  LET t == d[2]  s == issued + 1 IN
  /\ successor[t] = NoToken /\ issued < MaxToken
  /\ successor' = [successor EXCEPT ![t] = s] /\ issued' = s
  /\ sent' = [sent EXCEPT ![t] = @ + 1]
  /\ IF answered /\ home /\ temps[d] # NoToken
     THEN Writes(d, s) /\ delivered' = delivered \cup {t}
     ELSE UNCHANGED <<temps, delivered>>

Refused(d, home) ==
  LET t == d[2] IN
  /\ successor[t] # NoToken
  /\ sent' = [sent EXCEPT ![t] = @ + 1]
  /\ IF home /\ temps[d] # NoToken THEN Writes(d, Rejected) ELSE UNCHANGED temps
  /\ UNCHANGED <<successor, issued, delivered>>

Exits(j, how) == Becomes(j, [Job(j) EXCEPT !.exit = how])

CliEnds(j) ==
  /\ Job(j).exit = "running"
  /\ \/ Idles /\ Exits(j, "unsent")
     \/ \E how \in {"clean", "failed"} : Spends(Dir(j), TRUE, TRUE) /\ Exits(j, how)
     \/ Spends(Dir(j), TRUE, FALSE) /\ Exits(j, "failed")
     \/ Refused(Dir(j), TRUE) /\ Exits(j, "rejected")
  /\ UNCHANGED <<stored, removed, saved, rescues, state, pending, locks, backlog, booted,
                 strays, faults, stops, launched, exposed>>

\* The run's timeout kills the docker client; the container goes on.
TimesOut(j) ==
  /\ Job(j).exit = "running" /\ At(j, "wait")
  /\ Exits(j, "failed")
  /\ strays' = [strays EXCEPT ![Dir(j)] = IF temps[Dir(j)] = NoToken THEN "lost" ELSE "home"]
  /\ UNCHANGED <<disk, state, pending, locks, backlog, booted, successor, issued, faults,
                 stops, history>>

StrayEnds(d) ==
  LET home == strays[d] = "home" IN
  /\ strays[d] # "none"
  /\ Idles \/ Spends(d, home, TRUE) \/ Spends(d, home, FALSE) \/ Refused(d, home)
  /\ strays' = [strays EXCEPT ![d] = "none"]
  /\ UNCHANGED <<stored, removed, saved, rescues, memory, faults, stops, launched, exposed>>

\* classifyRefreshRun.  A newer login in the copy is the proof, whatever the exit
\* says; a run that sent nothing ends; any other may have spent the token.
Advanced(d) == IF temps[d] \in Tokens \ {d[2]} THEN temps[d] ELSE NoToken
Ended(j) == At(j, "wait") /\ Job(j).exit # "running"
Unsent(j) == Job(j).exit \in {"unsent", "clean"}

FindRotated(j) ==
  /\ Ended(j) /\ Advanced(Dir(j)) # NoToken
  /\ Becomes(j, [Job(j) EXCEPT !.pc = "rescue", !.rotated = Advanced(Dir(j))])
  /\ UNCHANGED <<disk, state, pending, locks, backlog, booted, world, faults, stops, history>>

FindUnsent(j) ==
  /\ Ended(j) /\ Advanced(Dir(j)) = NoToken /\ Unsent(j)
  /\ ClearJournal(j, OwnDir(j))
  /\ UNCHANGED <<stored, removed, rescues, pending, backlog, booted, successor, issued, stops,
                 sent, launched, delivered>>

\* settle: the verdict, and then the journal; without the verdict the entry stays.
Judge(j) ==
  LET new == SetVerdict(Job(j).token) IN
  \/ Save(new) /\ GoTo(j, "clear") /\ UNCHANGED <<temps, strays, locks>>
  \/ SaveFails(new) /\ Leave(j) /\ Forget(OwnDir(j))

FindSpent(j) ==
  /\ Ended(j) /\ Advanced(Dir(j)) = NoToken /\ ~Unsent(j)
  /\ Judge(j)
  /\ UNCHANGED <<stored, removed, rescues, pending, backlog, booted, successor, issued, stops,
                 history>>

\* os.Remove: one rescue file is deleted, if it is still there.
Without(files, file) ==
  LET at == {i \in DOMAIN files : files[i] = file} IN
  IF at = {} THEN files
  ELSE LET i == CHOOSE i \in at : TRUE
       IN SubSeq(files, 1, i - 1) \o SubSeq(files, i + 1, Len(files))

\* The last step of a run that is settled: its rescue file is deleted, if it has
\* one, the journal entry ends, and the rotated login leaves memory.
Clear(j) ==
  LET p == Job(j).profile IN
  /\ At(j, "clear")
  /\ rescues' = [rescues EXCEPT ![p] = IF Job(j).rescued
       THEN Without(@, [token |-> Job(j).rotated, own |-> TRUE]) ELSE @]
  /\ IF Job(j).rotated = NoToken THEN UNCHANGED pending ELSE DropPending(Job(j).token)
  /\ ClearJournal(j, OwnDir(j))
  /\ UNCHANGED <<stored, removed, backlog, booted, successor, issued, stops, sent, launched,
                 delivered>>

-----------------------------------------------------------------------------
(* commitRotated: rescue file, journal, and then every holder.             *)

Kept(files) == SubSeq(files, IF Len(files) > MaxRescues THEN Len(files) - MaxRescues + 1 ELSE 1,
                      Len(files))
AddRescue(p, s, own) ==
  rescues' = [rescues EXCEPT ![p] = Kept(Append(@, [token |-> s, own |-> own]))]

WriteRescue(j) ==
  LET p == Job(j).profile  s == Job(j).rotated IN
  /\ At(j, "rescue")
  /\ \/ /\ AddRescue(p, s, TRUE) /\ Works
        /\ Becomes(j, [Job(j) EXCEPT !.pc = "mark", !.rescued = TRUE])
     \/ /\ Fails /\ UNCHANGED rescues
        /\ Becomes(j, [Job(j) EXCEPT !.pc = "mark", !.keep = TRUE])
  /\ HoldPending(Job(j).token, s)
  /\ UNCHANGED <<stored, removed, saved, temps, state, locks, backlog, booted, world, stops,
                 history>>

Mark(j) ==
  LET p == Job(j).profile  t == Job(j).token
      new == SetEntry(p, [phase |-> "rotated", token |-> t, rescue |-> Job(j).rescued,
                          temp |-> ~Job(j).rescued]) IN
  /\ At(j, "mark")
  /\ \/ Save(new) /\ GoTo(j, "list")
     \/ SaveFails(new) /\ Becomes(j, [Job(j) EXCEPT !.pc = "list", !.keep = TRUE])
  /\ exposed' = exposed \cup Displaced(p, t)
  /\ UNCHANGED <<stored, removed, rescues, temps, pending, locks, backlog, booted, world, stops,
                 sent, launched, delivered>>

List(j) ==
  /\ At(j, "list")
  /\ Becomes(j, [Job(j) EXCEPT !.pc = "commit", !.todo = Holders(Job(j).token)])
  /\ UNCHANGED <<disk, state, pending, locks, backlog, booted, world, faults, stops, history>>

\* commitRotatedCredentials, under the switcher lock: the profile, or the only
\* other holder when the profile is gone, gets the rotated login if it still
\* holds the spent token; otherwise a rescue file does, unless the account was
\* removed and nobody holds it, or the disk takes neither.  A gap: a commit retried
\* after hours does not ask whether a run spent the login elsewhere since.
ReceiversByName(p, t) == {p}

Receivers(p, t) ==
  IF stored[p] = t THEN {p}
  ELSE IF stored[p] = NoToken /\ Cardinality(Holders(t)) = 1 THEN Holders(t) ELSE {}

CommitOne(j) ==
  LET t == Job(j).token  s == Job(j).rotated IN
  \E p \in Job(j).todo :
  /\ At(j, "commit")
  /\ \/ \E q \in Receivers(p, t) :
          /\ stored' = [stored EXCEPT ![q] = s] /\ Works
          /\ Becomes(j, [Job(j) EXCEPT !.todo = @ \ {p}, !.committed = TRUE])
          /\ exposed' = exposed \cup {u \in {s} : Touched(u)}
          /\ UNCHANGED rescues
     \/ /\ \/ Receivers(p, t) = {} /\ Works
           \/ Receivers(p, t) # {} /\ Fails
        /\ \/ AddRescue(p, s, FALSE)
           \/ UNCHANGED rescues /\ (faults' # faults \/ (t \in removed /\ Holders(t) = {}))
        /\ Becomes(j, [Job(j) EXCEPT !.todo = @ \ {p}])
        /\ UNCHANGED <<stored, exposed>>
  /\ UNCHANGED <<removed, saved, temps, state, pending, locks, backlog, booted, world, stops,
                 sent, launched, delivered>>

\* A holder is left: the run ends with the journal entry and the rescue in place,
\* for the next pass to retry the commit.
FinishPartly(j) ==
  /\ At(j, "commit") /\ Job(j).todo = {} /\ Holders(Job(j).token) # {}
  /\ HoldPending(Job(j).token, Job(j).rotated)
  /\ Leave(j) /\ Forget(OwnDir(j))
  /\ UNCHANGED <<stored, removed, saved, rescues, state, backlog, booted, successor, issued,
                 faults, stops, history>>

FinishAnyway(j) ==
  /\ At(j, "commit") /\ Job(j).todo = {}
  /\ Becomes(j, [Job(j) EXCEPT !.pc = "clear", !.keep = FALSE])
  /\ UNCHANGED <<disk, state, pending, locks, backlog, booted, world, faults, stops, history>>

\* Nobody holds the spent token: a run that reached no profile keeps its rescue.
Finish(j) ==
  /\ At(j, "commit") /\ Job(j).todo = {} /\ Holders(Job(j).token) = {}
  /\ Becomes(j, [Job(j) EXCEPT !.pc = "clear", !.keep = FALSE,
                   !.rescued = @ /\ (Job(j).spends => Job(j).committed)])
  /\ UNCHANGED <<disk, state, pending, locks, backlog, booted, world, faults, stops, history>>

-----------------------------------------------------------------------------
(* recoverEntry: settle an entry an earlier run left, never spending.      *)

\* recoverRotated: the rescue file, else the copy in memory, else the directory.
Recovered(e, p) ==
  LET inFile == {s \in Tokens : \E i \in DOMAIN rescues[p] :
                    rescues[p][i] = [token |-> s, own |-> TRUE] /\ s = successor[e.token]} IN
  IF e.rescue /\ inFile # {} THEN successor[e.token]
  ELSE IF pending[e.token] # NoToken THEN pending[e.token]
  ELSE IF e.temp THEN Advanced(<<p, e.token>>) ELSE NoToken

Settling(j) == At(j, "settle") /\ UNCHANGED <<stored, removed, rescues, backlog, booted, stops>>

SettleGone(j) ==
  /\ Settling(j) /\ Holders(Job(j).token) = {}
  /\ ClearJournal(j, {})
  /\ DropPending(Job(j).token)
  /\ UNCHANGED <<successor, issued, sent, launched, delivered>>

SettleRotated(j) ==
  LET s == Recovered(Job(j).entry, Job(j).profile) IN
  /\ Settling(j) /\ Holders(Job(j).token) # {} /\ s # NoToken
  /\ Becomes(j, [Job(j) EXCEPT !.pc = "list", !.rotated = s, !.rescued = Job(j).entry.rescue])
  /\ UNCHANGED <<saved, temps, state, pending, locks, world, faults, history>>

\* A run that was journaled but not started never spent anything.
NotFound(j) == Holders(Job(j).token) # {} /\ Recovered(Job(j).entry, Job(j).profile) = NoToken

SettleUnsent(j) ==
  /\ Settling(j) /\ NotFound(j) /\ Job(j).entry.phase = "spending"
  /\ ClearJournal(j, {})
  /\ UNCHANGED <<pending, successor, issued, sent, launched, delivered>>

SettleAnyUnknown(j) ==
  /\ Settling(j) /\ NotFound(j)
  /\ Judge(j)
  /\ UNCHANGED <<pending, successor, issued, history>>

SettleUnknown(j) ==
  /\ Settling(j) /\ NotFound(j) /\ Job(j).entry.phase # "spending"
  /\ Judge(j)
  /\ UNCHANGED <<pending, successor, issued, history>>

-----------------------------------------------------------------------------
(* The goroutine's life, the profiles, and the server.                     *)

\* The startup pass reads the journal once and settles it entry by entry.
Bootstrap ==
  /\ ~booted /\ At(Ticker, "idle")
  /\ booted' = TRUE /\ backlog' = state.journal
  /\ UNCHANGED <<disk, state, pending, jobs, locks, world, faults, stops, history>>

\* No account lock is taken.
Recover(p) ==
  LET e == backlog[p] IN
  /\ At(Ticker, "idle") /\ Open(e)
  /\ Becomes(Ticker, [Idle EXCEPT !.pc = "settle", !.profile = p, !.token = e.token, !.entry = e])
  /\ backlog' = [backlog EXCEPT ![p] = NoEntry]
  /\ UNCHANGED <<disk, state, pending, locks, booted, world, faults, stops, history>>

\* Off and on again: the next tick runs the startup pass.
Toggle ==
  /\ "toggle" \in Calls
  /\ booted /\ At(Ticker, "idle") /\ \A p \in Profiles : ~Open(backlog[p])
  /\ booted' = FALSE
  /\ UNCHANGED <<disk, state, pending, jobs, locks, backlog, world, faults, stops, history>>

\* A new login replaces the profile's, under its account lock, or creates it.
Login(p) ==
  /\ "login" \in Calls /\ issued < MaxToken
  /\ stored[p] # NoToken => locks[stored[p]] = Free
  /\ stored' = [stored EXCEPT ![p] = issued + 1] /\ issued' = issued + 1
  /\ UNCHANGED <<removed, saved, rescues, temps, memory, strays, successor, faults, stops, history>>

\* Removal takes no account lock; the profile's rescue files go with it.  A gap:
\* another profile of the account may wait for one of them.
Remove(p) ==
  /\ "remove" \in Calls /\ stored[p] # NoToken
  /\ stored' = [stored EXCEPT ![p] = NoToken] /\ removed' = removed \cup {stored[p]}
  /\ rescues' = [rescues EXCEPT ![p] = << >>]
  /\ exposed' = exposed \cup {t \in Tokens : /\ Holders(t) \ {p} # {}
                                /\ \E i \in DOMAIN rescues[p] : rescues[p][i].token = successor[t]}
  /\ UNCHANGED <<saved, temps, memory, world, faults, stops, sent, launched, delivered>>

\* The process ends at any step and comes back with what is on disk.  A gap: the
\* CLI is started before the journal says so, and the write that says so may fail.
Unrecorded == {t \in Tokens : /\ Touched(t)
                 /\ \E p \in Profiles : /\ saved.journal[p].phase = "spending"
                                        /\ saved.journal[p].token = t}

Stop ==
  /\ stops < MaxStops /\ stops' = stops + 1
  /\ state' = saved
  /\ pending' = [t \in Tokens |-> NoToken]
  /\ jobs' = [j \in Jobs |-> Idle] /\ locks' = [t \in Tokens |-> Free]
  /\ backlog' = [p \in Profiles |-> NoEntry] /\ booted' = FALSE
  /\ strays' = [d \in DOMAIN strays |->
       IF \E j \in Jobs : Job(j).exit = "running" /\ Dir(j) = d
       THEN IF temps[d] = NoToken THEN "lost" ELSE "home" ELSE strays[d]]
  /\ exposed' = exposed \cup Unrecorded
  /\ UNCHANGED <<disk, successor, issued, faults, sent, launched, delivered>>

Step(j) ==
  \/ Acquire(j) \/ SettleLeftover(j) \/ Abandon(j) \/ Journal(j) \/ Launch(j) \/ NoteStarted(j)
  \/ CliEnds(j) \/ TimesOut(j) \/ FindRotated(j) \/ FindUnsent(j) \/ FindSpent(j)
  \/ WriteRescue(j) \/ Mark(j) \/ List(j) \/ CommitOne(j) \/ FinishPartly(j) \/ Finish(j)
  \/ Clear(j) \/ SettleGone(j) \/ SettleRotated(j) \/ SettleUnsent(j) \/ SettleUnknown(j)

Next ==
  \/ \E j \in Jobs : Step(j)
  \/ \E p \in Profiles : Due(p) \/ Recover(p) \/ Login(p) \/ Remove(p)
  \/ \E h \in Handlers, p \in Profiles : Incoming(h, p)
  \/ \E d \in Profiles \X Tokens : StrayEnds(d)
  \/ Bootstrap \/ Toggle \/ Stop

Spec == Init /\ [][Next]_vars

\* A goroutine goes on, a CLI ends or runs into its timeout, and the ticker comes
\* back to every profile that stays due.
FairSpec ==
  /\ Spec
  /\ \A j \in Jobs : WF_vars(Step(j))
  /\ WF_vars(Bootstrap) /\ \A p \in Profiles : WF_vars(Recover(p)) /\ SF_vars(Due(p))

-----------------------------------------------------------------------------

\* A refresh token is spent again only after one of the gaps marked above.
\* Target refresher: "must not spend again", for stops, faults and races of any kind.
RespentOnlyThroughGaps == \A t \in Tokens : sent[t] > 1 => t \in exposed

\* Two runs never spend one token at the same time, whichever profiles share it.
SingleFlight ==
  \A j, k \in Jobs : j # k /\ Job(j).spends /\ Job(k).spends => Job(j).token # Job(k).token

\* A rotated login that reached the server is somewhere the next pass finds it, as
\* long as a profile waits for it: in a rescue file (for the next pass or a person),
\* in memory, or in the directory of a run that the journal names; or the account
\* has its verdict, or met a gap.
Named(p, t) == \E e \in {state.journal[p], saved.journal[p]} : e.token = t /\ e.temp
InHand(t) ==
  \/ \E p \in Profiles : \E i \in DOMAIN rescues[p] : rescues[p][i].token = successor[t]
  \/ pending[t] = successor[t]
  \/ \E p \in Profiles : Named(p, t) /\ temps[<<p, t>>] = successor[t]
RotationKept ==
  \A t \in delivered : Holders(t) # {} => InHand(t) \/ t \in state.verdicts \cup exposed

\* An account is declared in need of a login only if a CLI was started on its token.
VerdictsEarned == state.verdicts \subseteq launched

\* What a profile holds changes to the login rotated from it, to a new one, or goes
\* with the profile: a commit never overwrites a login somebody made meanwhile.
LoginsSurvive ==
  [][\A p \in Profiles : stored'[p] # stored[p] =>
       \/ stored'[p] = NoToken
       \/ stored[p] # NoToken /\ stored'[p] = successor[stored[p]]
       \/ stored'[p] = issued' /\ issued' = issued + 1]_vars

\* A rotated login that reached the server gets to the profiles that hold the spent
\* token, or the account gets its verdict: no journal entry is left forever.
RotationLands ==
  \A t \in Tokens : []<>(t \in delivered => Holders(t) = {} \/ t \in state.verdicts)

\* The directory a running CLI works in stays until it ends: the startup pass settles
\* "the journal a previous process left", never a run of this one.
RunsKeepDirectory == \A j \in Jobs : Job(j).exit = "running" => temps[Dir(j)] # NoToken
=============================================================================
