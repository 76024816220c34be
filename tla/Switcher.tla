------------------------------ MODULE Switcher ------------------------------
(***************************************************************************)
(* The account switcher under the link model, for one tool: the live        *)
(* credential file the harness works with, the profiles that store one       *)
(* login each, their backups, and the pointer to the active profile.  The    *)
(* stored file of the active profile is a symbolic link to the live file, so *)
(* it follows the harness's rotations.  Every operation is a row of file     *)
(* writes under the switcher lock, any of which may fail and between any two *)
(* of which the process may be killed or the harness, which takes no lock,   *)
(* may replace the live file.                                                *)
(*                                                                         *)
(* A login is an account and the generation of its refresh token: only the   *)
(* newest generation still works.                                            *)
(***************************************************************************)
EXTENDS Integers, Sequences, FiniteSets, SequencesExt

CONSTANTS
  Profiles,    \* profile names
  Accounts,    \* accounts the user can log in to
  Nobody,      \* no active profile; no account
  MaxBackups,  \* backups kept per profile, 10 in the code
  Calls,       \* bound: the operations and the harness's acts in this instance
  MaxWaiting,  \* bound: switches past their first check, waiting for the lock
  MaxGen,      \* bound: generations of an account's token
  MaxAccidents \* bound: writes that fail and processes that are killed

ASSUME SwitcherAssumption ==
  /\ Nobody \notin Profiles \cup Accounts
  /\ MaxBackups \in Nat /\ MaxGen \in Nat

VARIABLES
  live,     \* the live credential file
  dirs,     \* profile directories that exist
  stored,   \* profile -> its stored credential file
  backups,  \* profile -> its backups, oldest first
  active,   \* state.json: the active profile
  enabled,  \* state.json: is the switcher on?
  checked,  \* switches that read the live file and wait for the lock
  job,      \* the operation that holds the lock
  newest,   \* account -> the generation of its last issued token, 0 before one
  accidents,
  \* What the properties talk about; no step reads these.
  owner,    \* profile -> the account the user keeps in it
  excused,  \* accounts whose newest login the user or a race gave up
  mixed     \* did one of the named accidents leave live and pointer apart?

files == <<live, dirs, stored, backups, active, enabled>>
history == <<owner, excused, mixed>>
vars == <<files, checked, job, newest, accidents, history>>

-----------------------------------------------------------------------------
(* Files. *)

Logins == [is : {"login"}, account : Accounts, gen : 1..MaxGen]
NoFile == [is |-> "none"]
Link == [is |-> "link"]
Corrupt == [is |-> "corrupt"]
LiveFile == Logins \cup {NoFile, Corrupt}

\* What a reader of the stored path sees: a link is followed.
Read(p) == IF stored[p] = Link THEN live ELSE stored[p]
Copies(p) == ({stored[p]} \cup ToSet(backups[p])) \cap Logins

Job == [op : {"none", "switch", "import", "rename", "remove", "ensure"},
        step : {"none", "capture", "backup", "place", "clear", "restore", "state", "keep", "link",
                "relink", "adopt", "detach", "point", "move", "copy", "repoint", "purge", "logout", "unpoint"},
        name : Profiles \cup {Nobody}, from : Profiles \cup {Nobody},
        data : LiveFile, absent : BOOLEAN]
NoJob == [op |-> "none", step |-> "none", name |-> Nobody, from |-> Nobody,
          data |-> NoFile, absent |-> FALSE]

Init ==
  /\ live = NoFile /\ dirs = {} /\ stored = [p \in Profiles |-> NoFile]
  /\ backups = [p \in Profiles |-> << >>]
  /\ active = Nobody /\ enabled = FALSE
  /\ checked = {} /\ job = NoJob
  /\ newest = [a \in Accounts |-> 0]
  /\ accidents = 0
  /\ owner = [p \in Profiles |-> Nobody] /\ excused = {} /\ mixed = FALSE

Works == UNCHANGED accidents
Fails(n) == accidents + n <= MaxAccidents /\ accidents' = accidents + n

Unlocked == job = NoJob
At(op, step) == job.op = op /\ job.step = step
Goto(step) == job' = [job EXCEPT !.step = step]
Done == job' = NoJob

\* The newest backup is not written twice; the oldest beyond the cap go, but never
\* the only valid one (every backup is valid here, so the newest is).
Backed(p, login) ==
  IF backups[p] # << >> /\ Last(backups[p]) = login THEN backups
  ELSE LET all == Append(backups[p], login)
           over == IF Len(all) > MaxBackups THEN Len(all) - MaxBackups ELSE 0
       IN [backups EXCEPT ![p] = SubSeq(all, over + 1, Len(all))]

-----------------------------------------------------------------------------
(* Switch. *)

\* The eligibility check reads the live file before the lock: a corrupt one refuses.
SwitchCheck(n) ==
  /\ "switch" \in Calls /\ Cardinality(checked) < MaxWaiting
  /\ live # Corrupt
  /\ checked' = checked \cup {[name |-> n, absent |-> live = NoFile]}
  /\ UNCHANGED <<files, job, newest, accidents, history>>

Refused(s) ==
  \/ ~enabled \/ active = Nobody \/ s.name \notin dirs \/ s.name = active
  \/ ~s.absent /\ live \notin Logins

SwitchBegin(s) ==
  /\ Unlocked /\ checked' = checked \ {s}
  /\ IF Refused(s) THEN UNCHANGED <<job, excused, mixed>>
     ELSE /\ job' = [op |-> "switch", step |-> "capture", name |-> s.name, from |-> active,
                     data |-> IF s.absent THEN NoFile ELSE live, absent |-> s.absent]
          /\ excused' = IF s.absent /\ live \in Logins THEN excused \cup {live.account} ELSE excused
          /\ mixed' = (mixed \/ (live \in Logins /\ live.account # owner[active]))
  /\ UNCHANGED <<files, newest, accidents, owner>>

\* The outgoing profile gets a plain snapshot; with no live login its link goes.
Capture ==
  /\ At("switch", "capture")
  /\ \/ /\ Works /\ Goto(IF job.absent THEN "place" ELSE "backup")
        /\ stored' = IF job.absent
                     THEN [stored EXCEPT ![job.from] = IF @ = Link THEN NoFile ELSE @]
                     ELSE [stored EXCEPT ![job.from] = job.data]
        /\ dirs' = IF job.absent THEN dirs ELSE dirs \cup {job.from}
     \/ /\ Fails(1) /\ ~(job.absent /\ stored[job.from] # Link)
        /\ IF job.absent THEN Done ELSE Goto("relink")
        /\ UNCHANGED <<stored, dirs>>
  /\ UNCHANGED <<live, backups, active, enabled, checked, newest, history>>

BackUp ==
  /\ At("switch", "backup")
  /\ \/ Works /\ backups' = Backed(job.from, job.data) /\ Goto("place")
     \/ Fails(1) /\ Goto("relink") /\ UNCHANGED backups
  /\ UNCHANGED <<live, dirs, stored, active, enabled, checked, newest, history>>

\* A target without a login, or with a link that dangles, is empty.
Place ==
  /\ At("switch", "place")
  /\ IF Read(job.name) = NoFile
     THEN \/ /\ Works /\ Goto("clear")
             /\ stored' = [stored EXCEPT ![job.name] = NoFile]
          \/ /\ stored[job.name] = Link /\ Fails(1) /\ Goto("relink") /\ UNCHANGED stored
     ELSE Works /\ Goto("restore") /\ UNCHANGED stored
  /\ UNCHANGED <<live, dirs, backups, active, enabled, checked, newest, history>>

\* Empty target: the pointer first, then the live file.
PointToEmpty ==
  /\ At("switch", "clear") /\ active # job.name
  /\ \/ Works /\ active' = job.name /\ UNCHANGED job
     \/ Fails(1) /\ Goto("relink") /\ UNCHANGED active
  /\ UNCHANGED <<live, dirs, stored, backups, enabled, checked, newest, history>>

\* If the live file cannot be removed both are put back, each as far as it can be.
ClearLive ==
  /\ At("switch", "clear") /\ active = job.name
  /\ \/ Works /\ live' = NoFile /\ Done /\ UNCHANGED <<active, mixed>>
     \/ \E pointer, file \in BOOLEAN :
          /\ live # NoFile
          /\ Fails(1 + Cardinality({b \in {1} : ~pointer}) + Cardinality({b \in {1} : ~file}))
          /\ active' = IF pointer THEN job.from ELSE active
          /\ live' = IF ~file THEN live ELSE IF job.absent THEN Corrupt ELSE job.data
          /\ mixed' = (mixed \/ ~pointer)
          /\ Goto("relink")
  /\ UNCHANGED <<dirs, stored, backups, enabled, checked, newest, owner, excused>>

\* The captured bytes go back to the live file, or stay away if that fails too.
RollBack(cost) ==
  /\ \/ Fails(cost) /\ live' = job.data
     \/ Fails(cost + 1) /\ live' = live
  /\ Goto("relink")

Restore ==
  /\ At("switch", "restore")
  /\ \/ /\ Read(job.name) \in Logins
        /\ Works /\ live' = Read(job.name) /\ Goto("state")
     \/ /\ Read(job.name) \in Logins
        /\ IF job.absent THEN Fails(1) /\ Goto("relink") /\ UNCHANGED live ELSE RollBack(1)
     \/ /\ Read(job.name) \notin Logins
        /\ IF job.absent THEN Works /\ Goto("relink") /\ UNCHANGED live ELSE RollBack(0)
  /\ UNCHANGED <<dirs, stored, backups, active, enabled, checked, newest, history>>

SaveState ==
  /\ At("switch", "state")
  /\ \/ Works /\ active' = job.name /\ Goto("keep") /\ UNCHANGED <<live, mixed>>
     \/ RollBack(1) /\ mixed' = (mixed \/ live' # job.data) /\ UNCHANGED active
  /\ UNCHANGED <<dirs, stored, backups, enabled, checked, newest, owner, excused>>

\* Back up the bytes the link is about to replace, then link; both best effort.
\* The steps are shared with EnsureActiveLinks.
KeepStored ==
  /\ job.op \in {"switch", "ensure"} /\ job.step = "keep"
  /\ IF Read(job.name) \in Logins
     THEN \/ Works /\ backups' = Backed(job.name, Read(job.name)) /\ Goto("link")
          \/ Fails(1) /\ Done /\ UNCHANGED backups
     ELSE /\ Works /\ UNCHANGED backups
          /\ IF job.op = "ensure" THEN Goto("link") ELSE Done
  /\ UNCHANGED <<live, dirs, stored, active, enabled, checked, newest, history>>

\* A link needs a live file to point to.
LinkIn ==
  /\ job.op \in {"switch", "ensure"} /\ job.step = "link"
  /\ \/ /\ Works
        /\ stored' = IF live = NoFile THEN stored ELSE [stored EXCEPT ![job.name] = Link]
     \/ Fails(1) /\ UNCHANGED stored
  /\ Done
  /\ UNCHANGED <<live, dirs, backups, active, enabled, checked, newest, history>>

\* After a failure past the capture: link again only if the rollback really restored
\* the outgoing login.
Relink ==
  /\ At("switch", "relink")
  /\ \/ /\ Works
        /\ stored' = IF ~job.absent /\ active = job.from /\ live = job.data
                     THEN [stored EXCEPT ![job.from] = Link] ELSE stored
     \/ Fails(1) /\ UNCHANGED stored
  /\ Done
  /\ UNCHANGED <<live, dirs, backups, active, enabled, checked, newest, history>>

-----------------------------------------------------------------------------
(* The other operations. *)

SetEnabled ==
  /\ "toggle" \in Calls \/ ~enabled
  /\ Unlocked /\ enabled' = ~enabled
  /\ UNCHANGED <<live, dirs, stored, backups, active, checked, job, newest, accidents, history>>

\* A profile for an account that no other profile keeps.
Unowned == Accounts \ {owner[p] : p \in Profiles}

Add(p, a) ==
  /\ "add" \in Calls /\ Unlocked /\ p \notin dirs
  /\ dirs' = dirs \cup {p}
  /\ backups' = [backups EXCEPT ![p] = << >>]
  /\ owner' = [owner EXCEPT ![p] = a]
  /\ UNCHANGED <<live, stored, active, enabled, checked, job, newest, accidents, excused, mixed>>

RemoveDir(p) ==
  /\ dirs' = dirs \ {p} /\ stored' = [stored EXCEPT ![p] = NoFile]

\* The user imports a login that no profile keeps yet.
ImportBegin(p) ==
  /\ "import" \in Calls /\ Unlocked /\ p \notin dirs
  /\ live \in Logins /\ live.account \in Unowned
  /\ job' = [op |-> "import", step |-> "backup", name |-> p, from |-> active,
             data |-> live, absent |-> FALSE]
  /\ dirs' = dirs \cup {p}
  /\ backups' = [backups EXCEPT ![p] = << >>]
  /\ owner' = [owner EXCEPT ![p] = live.account]
  /\ UNCHANGED <<live, stored, active, enabled, checked, newest, accidents, excused, mixed>>

GiveUp == RemoveDir(job.name) /\ Done /\ owner' = [owner EXCEPT ![job.name] = Nobody]

ImportBackUp ==
  /\ At("import", "backup")
  /\ \/ /\ Works /\ backups' = Backed(job.name, job.data) /\ Goto("adopt")
        /\ UNCHANGED <<dirs, stored, owner>>
     \/ Fails(1) /\ GiveUp /\ UNCHANGED backups
  /\ UNCHANGED <<live, active, enabled, checked, newest, excused, mixed>>

ImportLink ==
  /\ At("import", "adopt")
  /\ \/ /\ live # NoFile /\ Works /\ Goto("detach")
        /\ stored' = [stored EXCEPT ![job.name] = Link]
        /\ UNCHANGED <<dirs, owner>>
     \/ /\ live = NoFile /\ Works /\ GiveUp
     \/ /\ live # NoFile /\ Fails(1) /\ GiveUp
  /\ UNCHANGED <<live, backups, active, enabled, checked, newest, excused, mixed>>

\* A detached profile takes a snapshot of the live file.
DetachedSnapshot(p) ==
  IF p \notin Profiles \/ p = job.name THEN stored
  ELSE IF stored[p] # Link THEN stored ELSE [stored EXCEPT ![p] = live]

\* The profile that was active loses its link: its newest backup takes its place.
Detached(p) ==
  IF p \notin Profiles \/ p = job.name THEN stored
  ELSE IF stored[p] # Link THEN stored
  ELSE [stored EXCEPT ![p] = IF backups[p] = << >> THEN NoFile ELSE Last(backups[p])]

Detach ==
  /\ At("import", "detach")
  /\ \/ /\ Works /\ Goto("point")
        /\ stored' = Detached(job.from)
        /\ UNCHANGED <<dirs, owner>>
     \/ Detached(job.from) # stored /\ Fails(1) /\ GiveUp
  /\ UNCHANGED <<live, backups, active, enabled, checked, newest, excused, mixed>>

\* rollbackImport: the profile and its backup go, the previous one is linked again.
ImportPoint ==
  /\ At("import", "point") /\ Done
  /\ \/ Works /\ active' = job.name /\ UNCHANGED <<dirs, stored, backups, owner>>
     \/ /\ Fails(1) /\ UNCHANGED active
        /\ dirs' = dirs \ {job.name}
        /\ stored' = [p \in Profiles |->
             CASE p = job.name -> NoFile
               [] p = job.from /\ live # NoFile -> Link
               [] OTHER -> stored[p]]
        /\ backups' = [backups EXCEPT ![job.name] = << >>]
        /\ owner' = [owner EXCEPT ![job.name] = Nobody]
  /\ UNCHANGED <<live, enabled, checked, newest, excused, mixed>>

\* A rename does not look whether the new name is taken.
RenameOver(p, q) ==
  /\ "rename" \in Calls /\ Unlocked /\ p \in dirs /\ q # p
  /\ job' = [NoJob EXCEPT !.op = "rename", !.step = "move", !.name = q, !.from = p]
  /\ dirs' = (dirs \ {p}) \cup {q}
  /\ stored' = [stored EXCEPT ![q] = stored[p], ![p] = NoFile]
  /\ backups' = [backups EXCEPT ![q] = << >>]
  /\ owner' = [owner EXCEPT ![q] = owner[p], ![p] = Nobody]
  /\ UNCHANGED <<live, active, enabled, checked, newest, accidents, excused, mixed>>

RenameBegin(p, q) ==
  /\ "rename" \in Calls /\ Unlocked /\ p \in dirs /\ q \notin dirs
  /\ job' = [NoJob EXCEPT !.op = "rename", !.step = "move", !.name = q, !.from = p]
  /\ dirs' = (dirs \ {p}) \cup {q}
  /\ stored' = [stored EXCEPT ![q] = stored[p], ![p] = NoFile]
  /\ backups' = [backups EXCEPT ![q] = << >>]
  /\ owner' = [owner EXCEPT ![q] = owner[p], ![p] = Nobody]
  /\ UNCHANGED <<live, active, enabled, checked, newest, accidents, excused, mixed>>

MoveBackups ==
  /\ At("rename", "move") /\ Works
  /\ backups' = [backups EXCEPT ![job.name] = backups[job.from], ![job.from] = << >>]
  /\ IF active = job.from THEN Goto("copy") ELSE Done
  /\ UNCHANGED <<live, dirs, stored, active, enabled, checked, newest, history>>

\* The live login is backed up under the new name, best effort; then the pointer moves.
BackUpRenamed ==
  /\ At("rename", "copy") /\ Goto("repoint")
  /\ \/ Works /\ backups' = IF live \in Logins THEN Backed(job.name, live) ELSE backups
     \/ live \in Logins /\ Fails(1) /\ UNCHANGED backups
  /\ mixed' = (mixed \/ (live \in Logins /\ live.account # owner[job.name]))
  /\ UNCHANGED <<live, dirs, stored, active, enabled, checked, newest, owner, excused>>

Repoint ==
  /\ At("rename", "repoint") /\ Done
  /\ \/ Works /\ active' = job.name /\ UNCHANGED mixed
     \/ Fails(1) /\ mixed' = TRUE /\ UNCHANGED active
  /\ UNCHANGED <<live, dirs, stored, backups, enabled, checked, newest, owner, excused>>

\* The active profile is removed only when the user forces it.
RemoveBegin(p) ==
  /\ "remove" \in Calls /\ Unlocked /\ p \in dirs
  /\ job' = [NoJob EXCEPT !.op = "remove", !.step = "purge", !.name = p,
                          !.from = IF active = p THEN p ELSE Nobody]
  /\ RemoveDir(p)
  /\ owner' = [owner EXCEPT ![p] = Nobody]
  /\ excused' = excused \cup ({owner[p]} \cap Accounts)
       \cup {f.account : f \in Copies(p) \cup (IF active = p THEN {live} \cap Logins ELSE {})}
  /\ UNCHANGED <<live, backups, active, enabled, checked, newest, accidents, mixed>>

Purge ==
  /\ At("remove", "purge")
  /\ \/ Works /\ backups' = [backups EXCEPT ![job.name] = << >>]
     \/ Fails(1) /\ UNCHANGED backups
  /\ IF job.from = Nobody THEN Done ELSE Goto("logout")
  /\ UNCHANGED <<live, dirs, stored, active, enabled, checked, newest, history>>

RemoveLive ==
  /\ At("remove", "logout") /\ Goto("unpoint")
  /\ \/ Works /\ live' = NoFile
     \/ live # NoFile /\ Fails(1) /\ UNCHANGED live
  /\ UNCHANGED <<dirs, stored, backups, active, enabled, checked, newest, history>>

Unpoint ==
  /\ At("remove", "unpoint") /\ Done
  /\ \/ Works /\ active' = Nobody /\ UNCHANGED mixed
     \/ Fails(1) /\ mixed' = TRUE /\ UNCHANGED active
  /\ UNCHANGED <<live, dirs, stored, backups, enabled, checked, newest, owner, excused>>

\* The server's periodic pass; its unlocked first look is repeated under the lock.
LinkNeeded ==
  /\ enabled /\ active \in dirs
  /\ stored[active] # Link /\ live \in Logins

EnsureBegin ==
  /\ Unlocked /\ LinkNeeded
  /\ job' = [NoJob EXCEPT !.op = "ensure", !.step = "keep", !.name = active]
  /\ UNCHANGED <<files, checked, newest, accidents, history>>

-----------------------------------------------------------------------------
(* The harness and the user, who take no lock; and processes that die. *)

\* A login written to the live file while an operation that has read it will
\* overwrite it, or drop it, is a race the switcher does not see.
Overtaken ==
  \/ job.op = "switch" /\ job.step \notin {"keep", "link"}
  \/ job.op = "remove"

Rotate ==
  /\ "rotate" \in Calls /\ live \in Logins
  /\ live.gen = newest[live.account] /\ live.gen < MaxGen
  /\ live' = [live EXCEPT !.gen = @ + 1]
  /\ newest' = [newest EXCEPT ![live.account] = @ + 1]
  /\ excused' = IF Overtaken THEN excused \cup {live.account} ELSE excused
  /\ UNCHANGED <<dirs, stored, backups, active, enabled, checked, job, accidents, owner, mixed>>

\* The user logs in to the account of the active profile, or to one that no profile
\* keeps, to import it.
LogIn(a) ==
  /\ "login" \in Calls /\ newest[a] < MaxGen
  /\ a \in Unowned \/ (active # Nobody /\ owner[active] = a)
  /\ live' = [is |-> "login", account |-> a, gen |-> newest[a] + 1]
  /\ newest' = [newest EXCEPT ![a] = @ + 1]
  /\ excused' = (IF Overtaken THEN excused \cup {a} ELSE excused \ {a})
                  \cup (IF live \in Logins THEN {live.account} \ {a} ELSE {})
  /\ UNCHANGED <<dirs, stored, backups, active, enabled, checked, job, accidents, owner, mixed>>

\* A log-out, or a write of the harness that was cut short.
LoseLive(f) ==
  /\ "logout" \in Calls /\ live \in Logins
  /\ live' = f
  /\ excused' = excused \cup {live.account}
  /\ UNCHANGED <<dirs, stored, backups, active, enabled, checked, job, newest, accidents, owner, mixed>>

\* The pointer and what it stands for are written one after the other.
Halfway ==
  \/ job.step \in {"state", "detach", "point", "repoint", "unpoint"}
  \/ job.step = "clear" /\ active = job.name
  \/ job.step \in {"move", "copy"} /\ active = job.from
  \/ job.step \in {"purge", "logout"} /\ job.from # Nobody

\* The lock goes with the process.
Kill ==
  /\ ~Unlocked /\ Fails(1)
  /\ mixed' = (mixed \/ Halfway)
  /\ Done
  /\ UNCHANGED <<files, checked, newest, owner, excused>>

-----------------------------------------------------------------------------

SwitchSteps ==
  \/ Capture \/ BackUp \/ Place \/ PointToEmpty \/ ClearLive \/ Restore \/ SaveState
  \/ KeepStored \/ LinkIn \/ Relink
OtherSteps ==
  \/ ImportBackUp \/ ImportLink \/ Detach \/ ImportPoint
  \/ MoveBackups \/ BackUpRenamed \/ Repoint
  \/ Purge \/ RemoveLive \/ Unpoint
Steps == SwitchSteps \/ OtherSteps

Next ==
  \/ \E n \in Profiles : SwitchCheck(n)
  \/ \E s \in checked : SwitchBegin(s)
  \/ Steps
  \/ SetEnabled
  \/ \E p \in Profiles, a \in Unowned : Add(p, a)
  \/ \E p \in Profiles : ImportBegin(p)
  \/ \E p, q \in Profiles : RenameBegin(p, q)
  \/ \E p \in Profiles : RemoveBegin(p)
  \/ EnsureBegin
  \/ Rotate \/ \E a \in Accounts : LogIn(a)
  \/ \E f \in {NoFile, Corrupt} : LoseLive(f)
  \/ Kill

Spec == Init /\ [][Next]_vars

-----------------------------------------------------------------------------
(* Properties. *)

Kept(a) == \E f \in {live} \cup UNION {Copies(p) : p \in Profiles} :
             f = [is |-> "login", account |-> a, gen |-> newest[a]]

\* The newest login of every account is in the live file, in a profile or in a
\* backup, whatever write fails and wherever a process is killed, unless the user
\* gave it up, the harness wrote it while a switch was under way, or a profile that
\* an accident left with another account's login has since filled up its backups.
LoginKept ==
  \A a \in Accounts : newest[a] > 0 /\ ~Kept(a) =>
    a \in excused \/ (mixed /\ \E p \in Profiles : Len(backups[p]) = MaxBackups)

\* A profile and its backups hold logins of its own account only, short of the
\* accidents that leave the live file and the pointer apart.
OwnAccountOnly ==
  mixed \/ \A p \in dirs : \A f \in Copies(p) : f.account = owner[p]

\* Between operations only the active profile follows the live file.
OnlyActiveLinked ==
  Unlocked => mixed \/ \A p \in Profiles : stored[p] = Link => p = active

\* "that link now dangles (the harness logged out or the live file was deleted): drop
\* it": a switch drops the outgoing profile's link only if there is no live file.
OnlyDanglingDropped ==
  [][\A p \in Profiles :
       stored[p] = Link /\ stored'[p] = NoFile /\ p \in dirs' => live = NoFile]_vars
=============================================================================
