------------------------------- MODULE Targets -------------------------------
(***************************************************************************)
(* Credentials under the token-copy model, for one tool.  The full logins   *)
(* are plain files in the profile store; the live file the sessions read    *)
(* holds a copy of the active profile's access token and no refresh token,   *)
(* so no session can spend one.  A login the user makes lands in the live    *)
(* file; the reconciler rescues it, files it in a profile and strips the     *)
(* file.  The refresher renews stored logins and distributes the new copies; *)
(* a switch distributes another profile's; the two migrations move a tool    *)
(* between this model and the link model of module Switcher.                 *)
(*                                                                         *)
(* A login is an account and the generation of its refresh token.  Locks:    *)
(* an account lock for each profile, then the switcher lock; the sessions    *)
(* and the user take neither.                                                *)
(***************************************************************************)
EXTENDS Integers, Sequences, FiniteSets, SequencesExt

CONSTANTS
  Profiles,    \* profile names, those of new-login profiles among them
  Accounts,    \* accounts the user can log in to
  Nobody,      \* no profile, no account
  MaxBackups,  \* backups kept per profile, 10 in the code
  MaxRescues,  \* rescued logins kept, 5 in the code
  MaxCalls,    \* bound: operations and log-outs in a behaviour
  MaxGen,      \* bound: generations of an account's token
  MaxAccidents \* bound: writes that fail and server processes that stop

VARIABLES
  live,      \* the live credential file: a copy, a login or nothing
  dirs,      \* profile directories that exist
  stored,    \* profile -> its stored credential file
  backups,   \* profile -> its backups, oldest first
  rescues,   \* logins rescued from the live file, oldest first
  active,    \* state.json: the active profile
  migrated,  \* the marker file: does the tool run the token-copy model?
  job,       \* the operation that holds the switcher lock
  pass,      \* the reconciler's pass
  renewed,   \* the profile whose renewed login waits for its fan-out
  newest,    \* account -> the generation of its last issued token, 0 before one
  accidents,
  calls,     \* operations begun
  \* What the properties talk about; no step reads these.
  owner,     \* profile -> the account the user keeps in it
  excused    \* accounts whose newest login the user or a race gave up, profiles a race
             \* gave another account's login, and whether a tool left the model
             \* while a pass was filing a login

store == <<dirs, stored, backups, rescues, active, migrated>>
history == <<owner, excused>>
vars == <<live, store, job, pass, renewed, newest, accidents, calls, history>>

-----------------------------------------------------------------------------
(* Files. *)

File(kind) == [is : {kind}, account : Accounts, gen : 1..MaxGen]
Logins == File("login")
NoFile == [is |-> "none"]
Link == [is |-> "link"]
CopyOf(login) == [login EXCEPT !.is = "copy"]
IsLogin(f) == f.is = "login"
IsCopy(f) == f.is = "copy"

Job == [op : {"none", "switch", "import", "migrate", "unmigrate", "file", "strip"},
        step : {"none", "fan", "point", "clear", "backup", "store", "strip", "restore", "catch",
                "mark", "unlink", "link"},
        name : Profiles \cup {Nobody}, from : Profiles \cup {Nobody},
        data : Logins \cup {NoFile}, old : Logins \cup {NoFile}]
NoJob == [op |-> "none", step |-> "none", name |-> Nobody, from |-> Nobody, data |-> NoFile, old |-> NoFile]
Pass == [step : {"idle", "heal", "decide", "file", "recheck", "strip", "fan"},
         name : Profiles \cup {Nobody}, create : BOOLEAN, attempt : 0..2, data : Logins \cup {NoFile}]
Idle == [step |-> "idle", name |-> Nobody, create |-> FALSE, attempt |-> 0, data |-> NoFile]

Capped(seq, cap) == SubSeq(seq, IF Len(seq) > cap THEN Len(seq) - cap + 1 ELSE 1, Len(seq))
Backed(p, login) ==
  IF backups[p] # << >> /\ Last(backups[p]) = login THEN backups
  ELSE [backups EXCEPT ![p] = Capped(Append(@, login), MaxBackups)]
\* An identical rescue is reused.
Rescued(login) ==
  IF login \in ToSet(rescues) THEN rescues ELSE Capped(Append(rescues, login), MaxRescues)

Called == calls < MaxCalls /\ calls' = calls + 1
Works == UNCHANGED accidents
Fails(n) == accidents + n <= MaxAccidents /\ accidents' = accidents + n

Unlocked == job = NoJob
At(op, step) == job.op = op /\ job.step = step
Goto(step) == job' = [job EXCEPT !.step = step]
Done == job' = NoJob
InPass(step) == pass.step = step
PassTo(step) == pass' = [pass EXCEPT !.step = step]
PassEnds == pass' = Idle

\* The account lock of a profile.
Held(p) ==
  \/ renewed = p
  \/ job.op \in {"switch", "migrate", "unmigrate"} /\ job.name = p
  \/ pass.step = "file" /\ ~pass.create /\ pass.name = p

\* A file that is overwritten or removed while it holds a login nobody stored.
Dropped == excused \cup (IF IsLogin(live) THEN {live.account} ELSE {})
\* An empty profile takes whatever login comes first.
Keeps(p, login) == owner' = IF stored[p] = NoFile THEN [owner EXCEPT ![p] = login.account] ELSE owner

\* The link model with one profile linked to the live file, or already migrated.
Init ==
  \E p \in Profiles, a \in Accounts, m \in BOOLEAN :
    LET first == [is |-> "login", account |-> a, gen |-> 1]
    IN /\ live = IF m THEN CopyOf(first) ELSE first
       /\ dirs = {p}
       /\ stored = [q \in Profiles |-> IF q # p THEN NoFile ELSE IF m THEN first ELSE Link]
       /\ backups = [q \in Profiles |-> << >>] /\ rescues = << >>
       /\ active = p /\ migrated = m
       /\ job = NoJob /\ pass = Idle /\ renewed = Nobody
       /\ newest = [b \in Accounts |-> IF b = a THEN 1 ELSE 0]
       /\ accidents = 0 /\ calls = 0
       /\ owner = [q \in Profiles |-> IF q = p THEN a ELSE Nobody] /\ excused = {}

-----------------------------------------------------------------------------
(* The reconciler's pass over the live file. *)

NoneLinked == \A p \in dirs : stored[p] # Link

\* A login is rescued before anything else happens to it.  A file just written is
\* left to settle for 15 s, so nothing that lands while a tool leaves the model, a
\* matter of a few file writes, is found before that is over.
PassFindsLogin ==
  /\ InPass("idle") /\ migrated /\ IsLogin(live) /\ NoneLinked /\ job.op # "unmigrate"
  /\ \/ Works /\ rescues' = Rescued(live) /\ pass' = [Idle EXCEPT !.step = "decide", !.data = live]
     \/ Fails(1) /\ UNCHANGED <<rescues, pass>>
  /\ UNCHANGED <<live, dirs, stored, backups, active, migrated, job, renewed, newest, calls, history>>

SameLogin(d) == {p \in dirs : stored[p] = d}
HoldersOf(a) == {p \in dirs : IsLogin(stored[p]) /\ stored[p].account = a}

\* An account that cannot be told matches nothing; this one matches the active profile.
ChooseActive(d, known) ==
  LET theirs == IF known THEN HoldersOf(d.account) ELSE {active}
  IN IF SameLogin(d) # {} THEN IF active \in SameLogin(d) THEN {active} ELSE SameLogin(d)
     ELSE IF active \in theirs THEN {active}
     ELSE IF Cardinality(theirs) = 1 THEN theirs
     ELSE {Nobody}

\* Where a login goes; a new profile if nothing proves whose it is.
ChooseImport(d, known) ==
  LET theirs == IF known THEN HoldersOf(d.account) ELSE {}
  IN IF SameLogin(d) # {} THEN IF active \in SameLogin(d) THEN {active} ELSE SameLogin(d)
     ELSE IF active # Nobody /\ stored[active] = NoFile THEN {active}
     ELSE IF active \in theirs THEN {active}
     ELSE IF Cardinality(theirs) = 1 THEN theirs
     ELSE {Nobody}

\* A profile that is replaced is locked; if it is busy, or a profile is linked, the
\* next pass tries again.
\* A login that moved while it was filed goes where the first one went.
PassDecides(known) ==
  /\ InPass("decide")
  /\ \E n \in IF pass.attempt > 0 THEN {pass.name} ELSE ChooseImport(pass.data, known) :
       IF (n # Nobody /\ Held(n)) \/ (pass.attempt = 0 /\ ~NoneLinked) THEN PassEnds
       ELSE pass' = [pass EXCEPT !.step = "file", !.name = n, !.create = (n = Nobody)]
  /\ UNCHANGED <<live, store, job, renewed, newest, calls, accidents, history>>

\* ImportLogin, under the switcher lock: a new name that is taken is changed.
FileBegin ==
  /\ InPass("file") /\ Unlocked
  /\ IF pass.create
     THEN \/ /\ Profiles = dirs /\ PassEnds /\ UNCHANGED <<dirs, backups, job>>
          \/ \E n \in Profiles \ dirs :
            /\ dirs' = dirs \cup {n} /\ backups' = [backups EXCEPT ![n] = << >>]
            /\ pass' = [pass EXCEPT !.name = n]
            /\ job' = [NoJob EXCEPT !.op = "file", !.step = "store", !.name = n, !.data = pass.data]
     ELSE /\ UNCHANGED <<dirs, backups>>
          /\ IF pass.name \in dirs /\ stored[pass.name] # Link
             THEN /\ job' = [NoJob EXCEPT !.op = "file", !.step = "backup", !.name = pass.name, !.data = pass.data]
                  /\ UNCHANGED pass
             ELSE PassEnds /\ UNCHANGED job
  /\ UNCHANGED <<live, stored, rescues, active, migrated, renewed, newest, calls, accidents, history>>

FileFails == Fails(1) /\ Done /\ PassEnds

\* Nothing a profile held is lost to an import.
FileBackUp ==
  /\ At("file", "backup")
  /\ \/ /\ Works /\ Goto("store") /\ UNCHANGED pass
        /\ backups' = IF IsLogin(stored[job.name]) /\ stored[job.name] # job.data
                      THEN Backed(job.name, stored[job.name]) ELSE backups
     \/ FileFails /\ UNCHANGED backups
  /\ UNCHANGED <<live, dirs, stored, rescues, active, migrated, renewed, newest, calls, history>>

\* The choice is not made again under the lock: a second login made while the first
\* was filed follows it, whoever's it is, and so does one whose profile was emptied
\* and imported anew.
FileStore ==
  /\ At("file", "store")
  /\ \/ /\ Works /\ Goto("point") /\ stored' = [stored EXCEPT ![job.name] = job.data]
        /\ Keeps(job.name, job.data) /\ UNCHANGED <<pass, dirs>>
        /\ excused' = excused \cup (IF migrated THEN {} ELSE {"overtaken"})
             \cup {p \in {job.name} \cap dirs : ~pass.create /\ \A known \in BOOLEAN : p \notin ChooseImport(job.data, known)}
     \/ /\ FileFails /\ dirs' = IF pass.create THEN dirs \ {job.name} ELSE dirs
        /\ UNCHANGED <<stored, history>>
  /\ UNCHANGED <<live, backups, rescues, active, migrated, renewed, newest, calls>>

\* The live file holds this account now, so the pointer follows it.
FilePoint ==
  /\ At("file", "point")
  /\ \/ Works /\ active' = job.name /\ Done /\ PassTo("recheck")
     \/ FileFails /\ active # job.name /\ UNCHANGED active
  /\ UNCHANGED <<live, dirs, stored, backups, rescues, migrated, renewed, newest, calls, history>>

\* The login that is in the file now is imported before anything is stripped.
TryAgain ==
  IF pass.attempt = 2 THEN PassEnds /\ UNCHANGED rescues
  ELSE /\ rescues' = Rescued(live)
       /\ pass' = [pass EXCEPT !.step = "decide", !.create = FALSE, !.attempt = @ + 1, !.data = live]

PassRechecks ==
  /\ InPass("recheck")
  /\ IF ~IsLogin(live) THEN PassEnds /\ UNCHANGED rescues
     ELSE IF live # pass.data THEN TryAgain
     ELSE PassTo("strip") /\ UNCHANGED rescues
  /\ UNCHANGED <<live, dirs, stored, backups, active, migrated, job, renewed, newest, calls, accidents, history>>

\* Under the switcher lock the file is looked at once more.
StripLook ==
  /\ InPass("strip") /\ Unlocked
  /\ IF IsLogin(live) /\ live # pass.data THEN TryAgain /\ UNCHANGED job
     ELSE /\ UNCHANGED rescues
          /\ IF IsLogin(live)
             THEN /\ job' = [NoJob EXCEPT !.op = "strip", !.step = "strip", !.data = pass.data]
                  /\ UNCHANGED pass
             ELSE PassTo("fan") /\ UNCHANGED job
  /\ UNCHANGED <<live, dirs, stored, backups, active, migrated, renewed, newest, calls, accidents, history>>

\* The strip goes through the write that refuses a file with a login.
StripRefused ==
  /\ At("strip", "strip") /\ Done
  /\ Works /\ IF IsLogin(live) THEN PassEnds ELSE PassTo("fan")
  /\ UNCHANGED <<live, store, renewed, newest, calls, history>>

\* The write itself takes whatever is there by then.
StripWrite ==
  /\ At("strip", "strip") /\ Done
  /\ \/ /\ Works /\ live' = CopyOf(job.data) /\ PassTo("fan")
        /\ excused' = IF live # job.data THEN Dropped ELSE excused
     \/ Fails(1) /\ PassEnds /\ UNCHANGED <<live, excused>>
  /\ UNCHANGED <<store, renewed, newest, calls, owner>>

\* The fan-out does not look at what it replaces.
FanOutBlindly(p, login) == live' = IF active = p THEN CopyOf(login) ELSE live

\* FanOut: a profile that is not active any more is not distributed, and a live
\* file that holds a login is never overwritten.
FanOut(p, login) ==
  live' = IF active = p /\ ~IsLogin(live) THEN CopyOf(login) ELSE live

PassFansOut ==
  /\ InPass("fan") /\ Unlocked /\ PassEnds
  /\ \/ Works /\ FanOut(pass.name, pass.data)
     \/ Fails(1) /\ UNCHANGED live
  /\ UNCHANGED <<store, job, renewed, newest, calls, history>>

\* Expiry order decides: a copy that is as new as the profile's is left alone.
HealOlder ==
  active # Nobody /\ IsLogin(stored[active]) /\ IsCopy(live) /\ live.gen < stored[active].gen

\* The live file is due when its token is not the active profile's.
HealDue == active # Nobody /\ IsLogin(stored[active]) /\ IsCopy(live) /\ live # CopyOf(stored[active])

PassFindsStale ==
  /\ InPass("idle") /\ migrated /\ HealDue
  /\ pass' = [Idle EXCEPT !.step = "heal", !.data = stored[active]]
  /\ UNCHANGED <<live, store, job, renewed, newest, calls, accidents, history>>

\* Everything is read again under the lock.
PassHeals ==
  /\ InPass("heal") /\ Unlocked /\ PassEnds
  /\ \/ Works /\ live' = IF HealDue THEN CopyOf(stored[active]) ELSE live
     \/ HealDue /\ Fails(1) /\ UNCHANGED live
  /\ UNCHANGED <<store, job, renewed, newest, calls, history>>

-----------------------------------------------------------------------------
(* The refresher: the renewed login is committed under both locks, then       *)
(* distributed under the switcher lock taken anew.                           *)

Renew(p) ==
  /\ Unlocked /\ migrated /\ renewed = Nobody /\ ~Held(p)
  /\ ~IsLogin(live)
  /\ IsLogin(stored[p]) /\ stored[p].gen = newest[stored[p].account] /\ stored[p].gen < MaxGen
  /\ stored' = [stored EXCEPT ![p].gen = @ + 1]
  /\ newest' = [newest EXCEPT ![stored[p].account] = @ + 1]
  /\ renewed' = p
  /\ UNCHANGED <<calls, live, dirs, backups, rescues, active, migrated, job, pass, accidents, history>>

RenewFansOut ==
  /\ renewed # Nobody /\ Unlocked /\ renewed' = Nobody
  /\ \/ Works /\ FanOut(renewed, stored[renewed])
     \/ Fails(1) /\ UNCHANGED live
  /\ UNCHANGED <<store, job, pass, newest, calls, history>>

-----------------------------------------------------------------------------
(* Switch between profiles of a migrated tool. *)

SwitchBegin(n) ==
  /\ Called /\ Unlocked /\ migrated
  /\ active # Nobody /\ n \in dirs \ {active} /\ ~Held(n)
  /\ ~IsLogin(live) /\ stored[n] # Link
  /\ job' = [op |-> "switch", step |-> IF stored[n] = NoFile THEN "point" ELSE "fan", name |-> n,
             from |-> active, data |-> stored[n],
             old |-> IF IsLogin(stored[active]) THEN stored[active] ELSE NoFile]
  /\ UNCHANGED <<live, store, pass, renewed, newest, accidents, history>>

\* The live file first: if it cannot be written the old account stays in place.
SwitchFan ==
  /\ At("switch", "fan")
  /\ \/ /\ Works
        /\ IF IsLogin(live) THEN Done /\ UNCHANGED live
           ELSE Goto("point") /\ live' = CopyOf(job.data)
     \/ ~IsLogin(live) /\ Fails(1) /\ Done /\ UNCHANGED live
  /\ UNCHANGED <<store, pass, renewed, newest, calls, history>>

\* The old account's copy is put back if the pointer cannot move.
SwitchPoint ==
  /\ At("switch", "point")
  /\ \/ /\ Works /\ active' = job.name /\ UNCHANGED live
        /\ IF job.data = NoFile THEN Goto("clear") ELSE Done
     \/ /\ Fails(1) /\ Done /\ UNCHANGED active
        /\ live' = IF NoFile \notin {job.data, job.old} /\ ~IsLogin(live) THEN CopyOf(job.old) ELSE live
     \/ Fails(2) /\ NoFile \notin {job.data, job.old} /\ Done /\ UNCHANGED <<active, live>>
  /\ UNCHANGED <<dirs, stored, backups, rescues, migrated, pass, renewed, newest, calls, history>>

\* An empty profile: the pointer has moved, then the live file goes, with a login
\* that landed in it since the switch looked.
SwitchClear ==
  /\ At("switch", "clear") /\ Done
  /\ \/ Works /\ live' = NoFile /\ excused' = Dropped /\ UNCHANGED active
     \/ /\ live # NoFile /\ UNCHANGED <<live, excused>>
        /\ \/ Fails(1) /\ active' = job.from
           \/ Fails(2) /\ UNCHANGED active
  /\ UNCHANGED <<dirs, stored, backups, rescues, migrated, pass, renewed, newest, calls, owner>>

-----------------------------------------------------------------------------
(* Add and Import of profiles of a migrated tool. *)

Add(n) ==
  /\ Called /\ Unlocked /\ migrated /\ n \notin dirs
  /\ dirs' = dirs \cup {n} /\ backups' = [backups EXCEPT ![n] = << >>]
  /\ UNCHANGED <<live, stored, rescues, active, migrated, job, pass, renewed, newest, accidents, history>>

\* A rescue, a backup, the profile, the pointer, and only then the live file.
ImportBegin(n) ==
  /\ Called /\ Unlocked /\ migrated /\ IsLogin(live) /\ n \notin dirs
  /\ rescues' = Rescued(live)
  /\ dirs' = dirs \cup {n} /\ backups' = [backups EXCEPT ![n] = <<live>>]
  /\ job' = [NoJob EXCEPT !.op = "import", !.step = "store", !.name = n, !.data = live]
  /\ UNCHANGED <<live, stored, active, migrated, pass, renewed, newest, accidents, history>>

UndoImport ==
  /\ Fails(1) /\ Done
  /\ dirs' = dirs \ {job.name} /\ backups' = [backups EXCEPT ![job.name] = << >>]
  /\ stored' = [stored EXCEPT ![job.name] = NoFile]

ImportStore ==
  /\ At("import", "store")
  /\ \/ /\ Works /\ Goto("point") /\ stored' = [stored EXCEPT ![job.name] = job.data]
        /\ owner' = [owner EXCEPT ![job.name] = job.data.account] /\ UNCHANGED <<dirs, backups>>
     \/ UndoImport /\ UNCHANGED owner
  /\ UNCHANGED <<live, rescues, active, migrated, pass, renewed, newest, calls, excused>>

ImportPoint ==
  /\ At("import", "point")
  /\ \/ Works /\ active' = job.name /\ Goto("strip") /\ UNCHANGED <<dirs, stored, backups, owner>>
     \/ UndoImport /\ owner' = [owner EXCEPT ![job.name] = Nobody] /\ UNCHANGED active
  /\ UNCHANGED <<live, rescues, migrated, pass, renewed, newest, calls, excused>>

\* The strip of an import or a migration replaces whatever is there; for the
\* import a failure is left to the reconciler.
ReplaceLive ==
  /\ job.op \in {"import", "migrate"} /\ job.step = "strip"
  /\ \/ /\ Works /\ live' = CopyOf(job.data)
        /\ excused' = IF live # job.data THEN Dropped ELSE excused
        /\ IF job.op = "import" THEN Done ELSE Goto("mark")
     \/ Fails(1) /\ Done /\ UNCHANGED <<live, excused>>
  /\ UNCHANGED <<store, pass, renewed, newest, calls, owner>>

-----------------------------------------------------------------------------
(* Migration between the two models, under the active profile's account lock. *)

MigrateBegin ==
  /\ Called /\ Unlocked /\ ~migrated /\ active # Nobody /\ ~Held(active)
  /\ CASE live = NoFile ->
            /\ stored' = [stored EXCEPT ![active] = IF @ = Link THEN NoFile ELSE @] /\ UNCHANGED job
       [] IsLogin(live) ->
            /\ job' = [NoJob EXCEPT !.op = "migrate", !.step = "backup", !.name = active, !.data = live]
            /\ UNCHANGED stored
       [] OTHER ->
            /\ IsLogin(stored[active]) /\ UNCHANGED stored
            /\ job' = [NoJob EXCEPT !.op = "migrate", !.step = "mark", !.name = active]
  /\ UNCHANGED <<live, dirs, backups, rescues, active, migrated, pass, renewed, newest, accidents, history>>

\* The live login has no other copy: a backup comes first.
MigrateBackUp ==
  /\ At("migrate", "backup")
  /\ \/ Works /\ backups' = Backed(job.name, job.data) /\ Goto("unlink")
     \/ Fails(1) /\ Done /\ UNCHANGED backups
  /\ UNCHANGED <<live, dirs, stored, rescues, active, migrated, pass, renewed, newest, calls, history>>

MigrateUnlink ==
  /\ At("migrate", "unlink")
  /\ \/ /\ Works /\ Goto("store")
        /\ stored' = [stored EXCEPT ![job.name] = IF @ = Link THEN NoFile ELSE @]
     \/ stored[job.name] = Link /\ Fails(1) /\ Done /\ UNCHANGED stored
  /\ UNCHANGED <<live, dirs, backups, rescues, active, migrated, pass, renewed, newest, calls, history>>

MigrateStore ==
  /\ At("migrate", "store")
  /\ \/ /\ Works /\ stored' = [stored EXCEPT ![job.name] = job.data] /\ Goto("strip")
        /\ excused' = IF owner[job.name] # job.data.account THEN excused \cup {job.name} ELSE excused
     \/ Fails(1) /\ Done /\ UNCHANGED <<stored, excused>>
  /\ UNCHANGED <<live, dirs, backups, rescues, active, migrated, pass, renewed, newest, calls, owner>>

\* The marker is written last.
MigrateMark ==
  /\ At("migrate", "mark") /\ Done
  /\ \/ Works /\ migrated' = TRUE
     \/ Fails(1) /\ UNCHANGED migrated
  /\ UNCHANGED <<live, dirs, stored, backups, rescues, active, pass, renewed, newest, calls, history>>

\* Back to the link model; a login that is not the active profile's is pending and
\* refuses.  The store is written first, with the same login.
UnmigrateBegin ==
  /\ Called /\ Unlocked /\ migrated /\ active # Nobody /\ ~Held(active)
  /\ IsLogin(stored[active]) /\ (IsLogin(live) => live = stored[active])
  /\ job' = [NoJob EXCEPT !.op = "unmigrate", !.step = IF IsLogin(live) THEN "mark" ELSE "restore",
                          !.name = active, !.data = stored[active]]
  /\ UNCHANGED <<live, store, pass, renewed, newest, accidents, history>>

RestoreFull ==
  /\ At("unmigrate", "restore")
  /\ \/ /\ Works
        /\ IF IsLogin(live) THEN Done /\ UNCHANGED live ELSE Goto("catch") /\ live' = job.data
     \/ Fails(1) /\ Done /\ UNCHANGED live
  /\ UNCHANGED <<store, pass, renewed, newest, calls, history>>

\* What the sessions wrote since then is what the store keeps.
CatchUp ==
  /\ At("unmigrate", "catch")
  /\ IF live = NoFile THEN Works /\ Done /\ UNCHANGED <<stored, excused>>
     ELSE \/ /\ Works /\ Goto("mark") /\ stored' = [stored EXCEPT ![job.name] = live]
             /\ excused' = IF owner[job.name] # live.account THEN excused \cup {job.name} ELSE excused
          \/ live # stored[job.name] /\ Fails(1) /\ Done /\ UNCHANGED <<stored, excused>>
  /\ UNCHANGED <<live, dirs, backups, rescues, active, migrated, pass, renewed, newest, calls, owner>>

UnmigrateMark ==
  /\ At("unmigrate", "mark")
  /\ \/ Works /\ migrated' = FALSE /\ Goto("link")
     \/ Fails(1) /\ Done /\ UNCHANGED migrated
  /\ UNCHANGED <<live, dirs, stored, backups, rescues, active, pass, renewed, newest, calls, history>>

UnmigrateLink ==
  /\ At("unmigrate", "link") /\ Done
  /\ \/ Works /\ stored' = [stored EXCEPT ![job.name] = Link]
     \/ Fails(1) /\ UNCHANGED stored
  /\ UNCHANGED <<live, dirs, backups, rescues, active, migrated, pass, renewed, newest, calls, history>>

\* With the setting off every tick repairs the link; what it replaces is backed up.
EnsureActiveLink ==
  /\ Unlocked /\ ~migrated /\ active \in dirs
  /\ stored[active] # Link /\ IsLogin(live)
  /\ backups' = IF IsLogin(stored[active]) THEN Backed(active, stored[active]) ELSE backups
  /\ stored' = [stored EXCEPT ![active] = Link]
  /\ UNCHANGED <<live, dirs, rescues, active, migrated, job, pass, renewed, newest, calls, accidents, history>>

-----------------------------------------------------------------------------
(* The sessions and the user; and a server that stops. *)

Issue(a) == newest' = [newest EXCEPT ![a] = @ + 1]
Newest(a, g) == [is |-> "login", account |-> a, gen |-> g]

\* A login, or a session that renews the full login it found there.  It overwrites
\* what is in the live file, in the link model the active profile's login with it: one
\* nobody stored is given up.
LogIn(a) ==
  /\ newest[a] < MaxGen /\ Issue(a)
  /\ live' = Newest(a, newest[a] + 1)
  /\ excused' = (Dropped \cup (IF migrated \/ active = Nobody THEN {} ELSE {owner[active]})) \ {a}
  /\ UNCHANGED <<calls, store, job, pass, renewed, accidents, owner>>

LogOut ==
  /\ Called /\ live # NoFile
  /\ live' = NoFile /\ excused' = Dropped
  /\ UNCHANGED <<store, job, pass, renewed, newest, accidents, owner>>

Stop ==
  /\ <<job, pass, renewed>> # <<NoJob, Idle, Nobody>>
  /\ Fails(1) /\ Done /\ PassEnds /\ renewed' = Nobody
  /\ UNCHANGED <<live, store, newest, calls, history>>

-----------------------------------------------------------------------------

PassSteps ==
  \/ PassFindsLogin \/ PassFindsStale
  \/ \E known \in BOOLEAN : PassDecides(known)
  \/ FileBegin \/ PassRechecks \/ StripLook \/ PassFansOut \/ PassHeals
JobSteps ==
  \/ FileBackUp \/ FileStore \/ FilePoint \/ StripWrite
  \/ SwitchFan \/ SwitchPoint \/ SwitchClear
  \/ ImportStore \/ ImportPoint \/ ReplaceLive
  \/ MigrateBackUp \/ MigrateUnlink \/ MigrateStore \/ MigrateMark
  \/ RestoreFull \/ CatchUp \/ UnmigrateMark \/ UnmigrateLink

Next ==
  \/ PassSteps \/ JobSteps
  \/ \E p \in Profiles : Renew(p)
  \/ RenewFansOut
  \/ \E n \in Profiles : SwitchBegin(n) \/ Add(n) \/ ImportBegin(n)
  \/ MigrateBegin \/ UnmigrateBegin \/ EnsureActiveLink
  \/ \E a \in Accounts : LogIn(a)
  \/ LogOut \/ Stop

Spec == Init /\ [][Next]_vars

\* An operation that has begun goes on, and the reconciler runs once a minute.
LiveSpec == Spec /\ WF_vars(JobSteps) /\ WF_vars(PassSteps) /\ WF_vars(RenewFansOut)

-----------------------------------------------------------------------------

\* No step of the server, stopped or failing anywhere, destroys the last copy of an
\* account's newest login: while it is rescued, filed, stripped, switched or
\* migrated some file always holds it (reconcile.go, login_import.go, migrate.go),
\* unless the user replaced or removed it, or it landed between a last look at the
\* live file and the write that follows, or a pass filed a login after the tool had left
\* the model.
LoginKept ==
  \A a \in Accounts \ excused :
    LET last == Newest(a, newest[a])
    IN newest[a] > 0 /\ "overtaken" \notin excused =>
         \/ live = last \/ last \in ToSet(rescues)
         \/ \E p \in dirs : stored[p] = last \/ last \in ToSet(backups[p])

\* The choice of import.go never replaces one account's stored login by another's,
\* known or unknown; the exceptions are logins that replaced another during its
\* import or during a migration, and those made in the link model.
OwnAccountOnly ==
  \A p \in Profiles \ excused : IsLogin(stored[p]) => stored[p].account = owner[p]

\* A login in the live file of a migrated tool does not stay there: within a few
\* passes it is filed and the sessions no longer hold a refresh token the server
\* holds too, whatever fails once, unless the tool leaves the model (or the instance has no name
\* left for a new profile).
LoginFiled == []<>(migrated /\ IsLogin(live) => dirs = Profiles)

\* Sessions do not keep working as the wrong account: a copy that is not the active
\* profile's is rewritten, after a switch or a renewal whose fan-out failed as after
\* one that overtook a pass (heal), unless that profile has no login.
WrongCopy ==
  /\ migrated /\ active # Nobody /\ IsLogin(stored[active])
  /\ IsCopy(live) /\ live # CopyOf(stored[active])
CopyFollows == []<>~WrongCopy
=============================================================================
