---------------------------- MODULE SwitcherProofs ----------------------------
(***************************************************************************)
(* Theorems about Switcher, for any number of profiles, accounts, token    *)
(* generations, failing writes and killed processes.                       *)
(*                                                                         *)
(* An operation is a row of writes, and the harness writes the live file   *)
(* between any two of them.  The invariant says where the newest login of  *)
(* an account is while an operation is half done, and what the operation   *)
(* knows of the live file at each step, until an accident has left the     *)
(* live file and the pointer apart.                                        *)
(***************************************************************************)
EXTENDS MCSwitcher, SequenceTheorems, TLAPS

\* The login with the newest token of an account.
Latest(a) == [is |-> "login", account |-> a, gen |-> newest[a]]

\* A login whose account's newest login was not given up.
Counts(f) == f \in Logins /\ f.account \notin excused

\* A switch that will still overwrite the live file, or has to restore it.
InSwitch == job.op = "switch" /\ job.step \notin {"keep", "link"}
Renamed(p) == job.op = "rename" /\ active = job.from /\ p = job.name

\* The live file holds, or is to hold, the login of p.
Shown(p) ==
  IF InSwitch THEN p = (IF job.step = "state" THEN job.name ELSE job.from)
  ELSE p = active \/ Renamed(p) \/ (job.op = "import" /\ p = job.name)

\* The logins of p: in files, under its old name while p is renamed, or in the hands of
\* the import that makes p.
Moving(p) == job.op = "rename" /\ job.step = "move" /\ p = job.name
Importing(p) == job.op = "import" /\ p = job.name
Holds(p) == Copies(p) \cup (IF Moving(p) THEN ToSet(backups[job.from]) ELSE {})
                      \cup (IF Importing(p) THEN {job.data} ELSE {})

-----------------------------------------------------------------------------
(* The invariant.                                                          *)

JobTyped ==
  /\ job \in Job
  /\ job.op # "none" => job.name \in Profiles
  /\ job.op \in {"switch", "rename"} => job.from \in Profiles
  /\ job.op = "switch" =>
       /\ job.data \in Logins \cup {NoFile} /\ (job.absent <=> job.data = NoFile)
       /\ job.step = "backup" => ~job.absent
  /\ job.op = "import" => job.data \in Logins

Typed ==
  /\ live \in LiveFile /\ dirs \subseteq Profiles
  /\ stored \in [Profiles -> Logins \cup {NoFile, Link}]
  /\ backups \in [Profiles -> Seq(Logins)]
  /\ active \in Profiles \cup {Nobody}
  /\ checked \subseteq [name : Profiles, absent : BOOLEAN]
  /\ newest \in [Accounts -> Nat]
  /\ owner \in [Profiles -> Accounts \cup {Nobody}]
  /\ JobTyped

\* Profiles keep logins of their own account, and no two keep the same.
Owned ==
  /\ \A p \in Profiles \ dirs : stored[p] = NoFile /\ owner[p] = Nobody
  /\ \A p \in dirs : owner[p] \in Accounts /\ \A f \in Holds(p) : f.account = owner[p]
  /\ \A p, q \in dirs : owner[p] = owner[q] => p = q

\* What an operation has behind it at each of its steps.
SwitchOK ==
  job.op = "switch" =>
    /\ job.step \in {"capture", "backup", "place", "clear", "restore", "state", "relink",
                     "keep", "link"}
    /\ job.name \in dirs /\ job.from \in dirs /\ job.name # job.from
    /\ job.step \notin {"clear", "keep", "link"} => active = job.from
    /\ job.step = "clear" => active \in {job.from, job.name} /\ stored[job.name] = NoFile
    /\ job.step \in {"keep", "link"} => active = job.name
    /\ ~job.absent => job.data.account = owner[job.from]
    /\ stored[job.name] # Link
    /\ job.step = "restore" => stored[job.name] # NoFile
    /\ job.step \in {"state", "keep", "link"} => stored[job.name] \in Logins
    /\ ~job.absent /\ job.step \in {"backup", "place", "clear", "restore", "state"} =>
         stored[job.from] = job.data
    /\ job.step \notin {"capture", "relink", "keep", "link"} => stored[job.from] # Link

EnsureOK ==
  job.op = "ensure" =>
    /\ job.step \in {"keep", "link"}
    /\ job.name = active /\ active \in dirs /\ stored[active] # Link

ImportOK ==
  job.op = "import" =>
    /\ job.step \in {"backup", "adopt", "detach", "point"}
    /\ job.name \in dirs /\ job.name # active /\ job.from = active
    /\ stored[job.name] = IF job.step \in {"backup", "adopt"} THEN NoFile ELSE Link
    /\ job.step = "point" /\ active # Nobody => stored[active] # Link

RenameOK ==
  job.op = "rename" =>
    /\ job.step \in {"move", "copy", "repoint"}
    /\ job.name \in dirs /\ job.from \notin dirs
    /\ active # job.from =>
         active \in dirs \cup {Nobody} /\ job.step = "move" /\ active # job.name
    /\ job.step = "move" => backups[job.name] = << >>

RemoveOK ==
  job.op = "remove" =>
    /\ job.step \in {"purge", "logout", "unpoint"} /\ job.name \notin dirs
    /\ job.from = Nobody => active \in dirs \cup {Nobody} /\ job.step = "purge"
    /\ job.from # Nobody =>
         active = job.name /\ (live \in Logins => live.account \in excused)

JobOK ==
  /\ job.op \notin {"rename", "remove"} => active \in dirs \cup {Nobody}
  /\ job.op = "none" => job = NoJob
  /\ SwitchOK /\ EnsureOK /\ ImportOK /\ RenameOK /\ RemoveOK

\* Who follows the live file.
Linked ==
  \A p \in Profiles : stored[p] = Link =>
    \/ p = active /\ ~(job.op = "import" /\ job.step = "point")
    \/ job.op = "import" /\ p = job.name
    \/ Renamed(p)

\* The newest login of an account, if it counts, is where the switcher will look for
\* it; a stored login of the account shown may be older.
LiveNew ==
  \A a \in Accounts \ excused : live \in Logins /\ live.account = a => live = Latest(a)
Found ==
  \A a \in Accounts \ excused : newest[a] > 0 =>
    live = Latest(a) \/ \E p \in Profiles : stored[p] = Latest(a)
Current ==
  \A p \in dirs : \A a \in Accounts \ excused : owner[p] = a /\ Holds(p) # {} =>
    \/ live = Latest(a)
    \/ ~Shown(p) /\ stored[p] = Latest(a)

\* What a switch knows of the live file, which it takes no lock on.
Switching ==
  InSwitch =>
    /\ job.step # "state" /\ Counts(live) => live = job.data
    /\ job.step = "state" /\ Counts(live) => live = stored[job.name]
    /\ job.step # "state" /\ Counts(job.data) => live = job.data
    /\ \A p \in dirs : p = job.from /\ job.absent /\ Holds(p) # {} => owner[p] \in excused

Clean == Owned /\ JobOK /\ Linked /\ LiveNew /\ Found /\ Current /\ Switching
SwitcherInv == Typed /\ (mixed \/ Clean)

-----------------------------------------------------------------------------
(* Files, backups and jobs.                                                *)

LEMMA Kinds ==
  /\ NoFile \notin Logins /\ Link \notin Logins /\ Corrupt \notin Logins
  /\ NoFile # Link /\ NoFile # Corrupt /\ Link # Corrupt
BY DEF Logins, NoFile, Link, Corrupt

LEMMA LatestLogin ==
  /\ \A a : Latest(a).account = a
  /\ \A f \in Logins : f.account \in Accounts /\ f.gen \in 1..MaxGen
                        /\ (f.gen = newest[f.account] => f = Latest(f.account))
BY DEF Logins, Latest

LEMMA SameLatest == newest' = newest => \A a : Latest(a)' = Latest(a)
BY DEF Latest

LEMMA NoBackups == ToSet(<< >>) = {} BY DEF ToSet

\* A backup adds at most the login that is backed up.
LEMMA BackUpAdds ==
  ASSUME SwitcherAssumption, backups \in [Profiles -> Seq(Logins)], NEW p \in Profiles,
         NEW f \in Logins
  PROVE  /\ Backed(p, f) \in [Profiles -> Seq(Logins)]
         /\ \A q \in Profiles \ {p} : Backed(p, f)[q] = backups[q]
         /\ ToSet(Backed(p, f)[p]) \subseteq ToSet(backups[p]) \cup {f}
<1> DEFINE all == Append(backups[p], f)
           over == IF Len(all) > MaxBackups THEN Len(all) - MaxBackups ELSE 0
           kept == SubSeq(all, over + 1, Len(all))
<1>1. CASE backups[p] # << >> /\ Last(backups[p]) = f BY <1>1 DEF Backed
<1>2. CASE ~(backups[p] # << >> /\ Last(backups[p]) = f)
  <2>1. all \in Seq(Logins) /\ Len(all) = Len(backups[p]) + 1 OBVIOUS
  <2>2. over \in 0..Len(all) BY <2>1 DEF SwitcherAssumption
  <2> HIDE DEF all, over
  <2>3. /\ kept \in Seq(Logins) /\ Len(kept) = Len(all) - over
        /\ \A i \in 1..(Len(all) - over) : kept[i] = all[over + i]
    <3>1. /\ Len(all) \in Nat /\ over \in Nat /\ over <= Len(all)
          BY <2>1, <2>2
    <3>2. over + 1 \in 1..(Len(all) + 1) /\ Len(all) \in (over + 1 - 1)..Len(all)
      BY <3>1
    <3>3. /\ kept \in Seq(Logins)
          /\ Len(kept) = IF over + 1 <= Len(all) THEN Len(all) - (over + 1) + 1 ELSE 0
          /\ \A i \in 1..(Len(all) - (over + 1) + 1) : kept[i] = all[(over + 1) + i - 1]
      BY <2>1, <3>2, SubSeqProperties
    <3>4. Len(kept) = Len(all) - over BY <3>1, <3>3
    <3>5. \A i \in 1..(Len(all) - over) : kept[i] = all[over + i]
      <4> TAKE i \in 1..(Len(all) - over)
      <4>1. i \in 1..(Len(all) - (over + 1) + 1) /\ (over + 1) + i - 1 = over + i BY <3>1
      <4>2. QED BY <3>3, <4>1
    <3>6. QED BY <3>3, <3>4, <3>5
  <2>4. \A i \in 1..Len(all) : all[i] \in ToSet(backups[p]) \cup {f}
    BY <2>1 DEF ToSet, all
  <2> HIDE DEF kept
  <2>5. ToSet(kept) \subseteq ToSet(backups[p]) \cup {f}
    <3>1. DOMAIN kept = 1..Len(kept) BY <2>3
    <3>2. \A i \in DOMAIN kept : i \in 1..(Len(all) - over) /\ over + i \in 1..Len(all)
      BY <2>1, <2>2, <2>3, <3>1
    <3>3. QED BY <2>3, <2>4, <3>2 DEF ToSet
  <2>6. Backed(p, f) = [backups EXCEPT ![p] = kept] BY <1>2 DEF Backed, kept, over, all
  <2>7. QED BY <2>3, <2>5, <2>6
<1>3. QED BY <1>1, <1>2

LEMMA LastBackup ==
  ASSUME NEW s \in Seq(Logins), s # << >>
  PROVE  Last(s) \in ToSet(s) /\ Last(s) \in Logins
BY DEF Last, ToSet

LEMMA JobGoes ==
  ASSUME job \in Job, NEW step \in {"none", "capture", "backup", "place", "clear", "restore", "state",
           "keep", "link", "relink", "adopt", "detach", "point", "move", "copy", "repoint", "purge",
           "logout", "unpoint"}, Goto(step)
  PROVE  /\ job' \in Job /\ job'.op = job.op /\ job'.step = step /\ job'.name = job.name
         /\ job'.from = job.from /\ job'.data = job.data /\ job'.absent = job.absent
BY DEF Job, Goto

LEMMA JobDone ==
  Done => /\ job' = NoJob /\ job'.op = "none" /\ job'.step = "none" /\ job' \in Job
BY DEF Done, NoJob, Job, LiveFile

-----------------------------------------------------------------------------
(* Types.                                                                  *)

LEMMA TypedInit == SwitcherAssumption /\ Init => Typed
BY Kinds DEF Init, Typed, JobTyped, NoJob, Job, LiveFile

\* A job that goes on, and one that ends.
LEMMA TypedGoes ==
  ASSUME JobTyped, NEW step \in {"capture", "place", "clear", "restore", "state", "keep", "link",
           "relink", "adopt", "detach", "point", "copy", "repoint", "logout", "unpoint"},
         Goto(step)
  PROVE  JobTyped'
BY JobGoes DEF JobTyped

LEMMA TypedDone == Done => JobTyped'
BY JobDone DEF JobTyped

LEMMA TypedSwitching ==
  ASSUME SwitcherAssumption, Typed, SwitchSteps
  PROVE  Typed'
<1> USE DEF history
<1>0. job \in Job /\ JobTyped /\ job.op \in {"switch", "ensure"} BY DEF Typed, JobTyped, SwitchSteps, At,
  Capture, BackUp, Place, PointToEmpty, ClearLive, Restore, SaveState, KeepStored, LinkIn, Relink
<1>1. CASE Capture
  <2>1. JobTyped'
    <3>1. CASE ~job.absent /\ Goto("backup") BY <1>0, <3>1, JobGoes DEF JobTyped
    <3>2. CASE Goto("place") \/ Goto("relink") BY <1>0, <3>2, TypedGoes
    <3>3. CASE Done BY <3>3, TypedDone
    <3>4. QED BY <1>1, <3>1, <3>2, <3>3 DEF Capture
  <2>2. stored' \in [Profiles -> Logins \cup {NoFile, Link}] /\ dirs' \subseteq Profiles
    BY <1>1 DEF Capture, At, Typed, JobTyped
  <2>3. QED BY <1>1, <2>1, <2>2 DEF Capture, Typed
<1>2. CASE BackUp
  <2>1. JobTyped' BY <1>0, <1>2, TypedGoes DEF BackUp
  <2>2. job.from \in Profiles /\ job.data \in Logins
    BY <1>0, <1>2 DEF JobTyped, BackUp, At
  <2>3. backups' \in [Profiles -> Seq(Logins)]
    BY <1>2, <2>2, BackUpAdds DEF BackUp, Typed
  <2>4. QED BY <1>2, <2>1, <2>3 DEF BackUp, Typed
<1>3. CASE Place \/ PointToEmpty
  <2>1. JobTyped'
    <3>1. CASE UNCHANGED job BY <1>0, <3>1 DEF JobTyped
    <3>2. CASE ~UNCHANGED job BY <1>0, <1>3, <3>2, TypedGoes DEF Place, PointToEmpty
    <3>3. QED BY <3>1, <3>2
  <2>2. job.name \in Profiles BY <1>0 DEF JobTyped
  <2>3. QED BY <1>3, <2>1, <2>2 DEF Place, PointToEmpty, Typed
<1>4. CASE ClearLive
  <2>1. JobTyped' BY <1>0, <1>4, TypedGoes, TypedDone DEF ClearLive
  <2>2. job.from \in Profiles /\ live' \in LiveFile
    BY <1>0, <1>4 DEF JobTyped, ClearLive, At, Typed, LiveFile
  <2>3. QED BY <1>4, <2>1, <2>2 DEF ClearLive, Typed
<1>5. CASE Restore \/ SaveState
  <2>1. JobTyped' BY <1>0, <1>5, TypedGoes DEF Restore, SaveState, RollBack
  <2>2. job.name \in Profiles /\ live' \in LiveFile
    BY <1>0, <1>5 DEF JobTyped, Restore, SaveState, RollBack, At, Typed, LiveFile
  <2>3. QED BY <1>5, <2>1, <2>2 DEF Restore, SaveState, Typed
<1>6. CASE KeepStored
  <2>1. JobTyped' BY <1>0, <1>6, TypedGoes, TypedDone DEF KeepStored
  <2>2. job.name \in Profiles BY <1>0 DEF JobTyped
  <2>3. backups' \in [Profiles -> Seq(Logins)]
    BY <1>6, <2>2, BackUpAdds DEF KeepStored, Typed
  <2>4. QED BY <1>6, <2>1, <2>2, <2>3 DEF KeepStored, Typed
<1>7. CASE LinkIn \/ Relink
  <2>1. JobTyped' BY <1>7, TypedDone DEF LinkIn, Relink
  <2>2. job.name \in Profiles BY <1>0 DEF JobTyped
  <2>3. QED BY <1>7, <2>1, <2>2 DEF LinkIn, Relink, Typed
<1>8. QED BY <1>1, <1>2, <1>3, <1>4, <1>5, <1>6, <1>7 DEF SwitchSteps

LEMMA TypedOthers ==
  ASSUME SwitcherAssumption, Typed, OtherSteps
  PROVE  Typed'
<1> USE DEF history
<1>0. job \in Job /\ JobTyped /\ job.name \in Profiles
  BY DEF Typed, JobTyped, OtherSteps, At,
    ImportBackUp, ImportLink, Detach, ImportPoint, MoveBackups, BackUpRenamed, Repoint, Purge,
    RemoveLive, Unpoint
<1>e. << >> \in Seq(Logins) OBVIOUS
<1>1. CASE ImportBackUp
  <2>1. JobTyped' BY <1>0, <1>1, TypedGoes, TypedDone DEF ImportBackUp, GiveUp
  <2>2. backups' \in [Profiles -> Seq(Logins)]
    BY <1>0, <1>1, BackUpAdds DEF ImportBackUp, At, Typed, JobTyped
  <2>3. QED BY <1>0, <1>1, <2>1, <2>2 DEF ImportBackUp, GiveUp, RemoveDir, Typed
<1>2. CASE ImportLink
  <2>1. JobTyped' BY <1>0, <1>2, TypedGoes, TypedDone DEF ImportLink, GiveUp
  <2>2. QED BY <1>0, <1>2, <2>1 DEF ImportLink, GiveUp, RemoveDir, Typed
<1>3. CASE Detach
  <2>1. JobTyped' BY <1>0, <1>3, TypedGoes, TypedDone DEF Detach, GiveUp
  <2>2. Detached(job.from) \in [Profiles -> Logins \cup {NoFile, Link}]
    BY <1>0, LastBackup DEF Detached, Typed
  <2>3. QED BY <1>0, <1>3, <2>1, <2>2 DEF Detach, GiveUp, RemoveDir, Typed
<1>4. CASE ImportPoint
  <2>1. JobTyped' BY <1>4, TypedDone DEF ImportPoint
  <2>2. stored' \in [Profiles -> Logins \cup {NoFile, Link}] BY <1>4 DEF ImportPoint, Typed
  <2>3. backups' \in [Profiles -> Seq(Logins)] BY <1>0, <1>e, <1>4 DEF ImportPoint, Typed
  <2>4. owner' \in [Profiles -> Accounts \cup {Nobody}] BY <1>0, <1>4 DEF ImportPoint, Typed
  <2>5. dirs' \subseteq Profiles /\ active' \in Profiles \cup {Nobody}
    BY <1>0, <1>4 DEF ImportPoint, Typed
  <2>6. QED BY <1>4, <2>1, <2>2, <2>3, <2>4, <2>5 DEF ImportPoint, Typed
<1>5. CASE MoveBackups
  <2>1. JobTyped' BY <1>0, <1>5, TypedGoes, TypedDone DEF MoveBackups
  <2>2. job.from \in Profiles BY <1>0, <1>5 DEF MoveBackups, At, JobTyped
  <2>3. QED BY <1>0, <1>e, <1>5, <2>1, <2>2 DEF MoveBackups, Typed
<1>6. CASE BackUpRenamed
  <2>1. JobTyped' BY <1>0, <1>6, TypedGoes DEF BackUpRenamed
  <2>2. backups' \in [Profiles -> Seq(Logins)]
    BY <1>0, <1>6, BackUpAdds DEF BackUpRenamed, Typed
  <2>3. QED BY <1>6, <2>1, <2>2 DEF BackUpRenamed, Typed
<1>7. CASE Repoint \/ Unpoint
  <2>1. JobTyped' BY <1>7, TypedDone DEF Repoint, Unpoint
  <2>2. QED BY <1>0, <1>7, <2>1 DEF Repoint, Unpoint, Typed
<1>8. CASE Purge
  <2>1. JobTyped' BY <1>0, <1>8, TypedGoes, TypedDone DEF Purge
  <2>2. backups' \in [Profiles -> Seq(Logins)] BY <1>0, <1>e, <1>8 DEF Purge, Typed
  <2>3. QED BY <1>8, <2>1, <2>2 DEF Purge, Typed
<1>9. CASE RemoveLive
  <2>1. JobTyped' BY <1>0, <1>9, TypedGoes DEF RemoveLive
  <2>2. live' \in LiveFile BY <1>9 DEF RemoveLive, Typed, LiveFile
  <2>3. QED BY <1>9, <2>1, <2>2 DEF RemoveLive, Typed
<1>10. QED
  BY <1>1, <1>2, <1>3, <1>4, <1>5, <1>6, <1>7, <1>8, <1>9 DEF OtherSteps

LEMMA TypedBegins ==
  ASSUME SwitcherAssumption, Typed,
         \/ \E p \in Profiles : \/ SwitchCheck(p) \/ ImportBegin(p) \/ RemoveBegin(p)
                                \/ \E a \in Accounts : Add(p, a)
                                \/ \E q \in Profiles : RenameBegin(p, q)
         \/ \E s \in checked : SwitchBegin(s)
         \/ SetEnabled \/ EnsureBegin
  PROVE  Typed'
<1> USE DEF files, history
<1>0. << >> \in Seq(Logins) OBVIOUS
<1>1. ASSUME NEW p \in Profiles, SwitchCheck(p) PROVE Typed'
  <2>1. checked' \subseteq [name : Profiles, absent : BOOLEAN]
    <3>1. [name |-> p, absent |-> live = NoFile] \in [name : Profiles, absent : BOOLEAN]
      BY Zenon
    <3>2. QED BY <1>1, <3>1 DEF SwitchCheck, Typed
  <2>2. UNCHANGED <<live, dirs, stored, backups, active, newest, owner, job>>
    BY <1>1 DEF SwitchCheck
  <2>3. QED BY <2>1, <2>2 DEF Typed, JobTyped
<1>2. ASSUME NEW s \in checked, SwitchBegin(s) PROVE Typed'
  <2>0. s.name \in Profiles /\ s.absent \in BOOLEAN BY DEF Typed
  <2>1. JobTyped'
    <3>1. CASE Refused(s) BY <1>2, <3>1 DEF SwitchBegin, Typed, JobTyped
    <3>2. CASE ~Refused(s)
      <4>1. active \in Profiles /\ (~s.absent => live \in Logins)
        BY <3>2 DEF Refused, Typed
      <4>2. job' = [op |-> "switch", step |-> "capture", name |-> s.name, from |-> active,
                    data |-> IF s.absent THEN NoFile ELSE live, absent |-> s.absent]
        BY <1>2, <3>2 DEF SwitchBegin
      <4>3. job' \in Job BY <2>0, <4>1, <4>2 DEF Job, LiveFile
      <4>4. QED BY <2>0, <4>1, <4>2, <4>3, Kinds DEF JobTyped
    <3>3. QED BY <3>1, <3>2
  <2>2. QED BY <1>2, <2>1 DEF SwitchBegin, Typed
<1>3. ASSUME NEW p \in Profiles, NEW a \in Accounts, Add(p, a) PROVE Typed'
  BY <1>0, <1>3 DEF Add, Typed, JobTyped
<1>4. ASSUME NEW p \in Profiles, ImportBegin(p) PROVE Typed'
  <2>1. job' = [op |-> "import", step |-> "backup", name |-> p, from |-> active,
                data |-> live, absent |-> FALSE] /\ live \in Logins
    BY <1>4 DEF ImportBegin
  <2>2. JobTyped' BY <2>1 DEF JobTyped, Job, LiveFile, Typed
  <2>3. live.account \in Accounts BY <2>1, LatestLogin
  <2>4. QED BY <1>0, <1>4, <2>2, <2>3 DEF ImportBegin, Typed
<1>5. ASSUME NEW p \in Profiles, NEW q \in Profiles, RenameBegin(p, q) PROVE Typed'
  <2>1. job' = [op |-> "rename", step |-> "move", name |-> q, from |-> p,
                data |-> NoFile, absent |-> FALSE]
    BY <1>5 DEF RenameBegin, NoJob
  <2>2. JobTyped' BY <2>1 DEF JobTyped, Job, LiveFile
  <2>3. QED BY <1>0, <1>5, <2>2 DEF RenameBegin, Typed
<1>6. ASSUME NEW p \in Profiles, RemoveBegin(p) PROVE Typed'
  <2>1. job' = [op |-> "remove", step |-> "purge", name |-> p,
                from |-> IF active = p THEN p ELSE Nobody, data |-> NoFile, absent |-> FALSE]
    BY <1>6 DEF RemoveBegin, NoJob
  <2>2. JobTyped' BY <2>1 DEF JobTyped, Job, LiveFile
  <2>3. QED BY <1>0, <1>6, <2>2 DEF RemoveBegin, RemoveDir, Typed
<1>7. CASE EnsureBegin
  <2>1. job' = [op |-> "ensure", step |-> "keep", name |-> active, from |-> Nobody,
                data |-> NoFile, absent |-> FALSE] /\ active \in dirs
    BY <1>7 DEF EnsureBegin, NoJob, LinkNeeded
  <2>2. JobTyped' BY <2>1 DEF JobTyped, Job, LiveFile, Typed
  <2>3. QED BY <1>7, <2>2 DEF EnsureBegin, Typed
<1>8. CASE SetEnabled BY <1>8 DEF SetEnabled, Typed, JobTyped
<1>9. QED BY <1>1, <1>2, <1>3, <1>4, <1>5, <1>6, <1>7, <1>8

LEMMA TypedWorld ==
  ASSUME SwitcherAssumption, Typed,
         \/ Rotate \/ \E a \in Accounts : LogIn(a)
         \/ \E f \in {NoFile, Corrupt} : LoseLive(f)
         \/ Kill \/ UNCHANGED vars
  PROVE  Typed'
<1>1. CASE Rotate
  <2>1. /\ live = [is |-> "login", account |-> live.account, gen |-> live.gen]
        /\ live.account \in Accounts /\ live.gen \in 1..MaxGen /\ live.gen < MaxGen
    BY <1>1 DEF Rotate, Logins
  <2>2. live' = [is |-> "login", account |-> live.account, gen |-> live.gen + 1]
    BY <1>1, <2>1 DEF Rotate
  <2>3. live' \in Logins BY <2>1, <2>2 DEF Logins, SwitcherAssumption
  <2>4. QED BY <1>1, <2>1, <2>3 DEF Rotate, Typed, LiveFile, JobTyped
<1>2. CASE \E a \in Accounts : LogIn(a)
  <2>1. PICK a \in Accounts : LogIn(a) BY <1>2
  <2>2. newest[a] \in Nat /\ newest[a] < MaxGen BY <2>1 DEF LogIn, Typed
  <2>3. live' \in Logins BY <2>1, <2>2 DEF LogIn, Logins, SwitcherAssumption
  <2>4. QED BY <2>1, <2>2, <2>3 DEF LogIn, Typed, LiveFile, JobTyped
<1>3. CASE \E f \in {NoFile, Corrupt} : LoseLive(f)
  BY <1>3 DEF LoseLive, Typed, LiveFile, JobTyped
<1>4. CASE Kill
  <2>1. JobTyped' BY <1>4, TypedDone DEF Kill
  <2>2. QED BY <1>4, <2>1 DEF Kill, files, Typed
<1>5. CASE UNCHANGED vars BY <1>5 DEF vars, files, history, Typed, JobTyped
<1>6. QED BY <1>1, <1>2, <1>3, <1>4, <1>5

LEMMA TypedStep == SwitcherAssumption /\ Typed /\ [Next]_vars => Typed'
<1> SUFFICES ASSUME SwitcherAssumption, Typed, [Next]_vars PROVE Typed' OBVIOUS
<1>1. CASE Steps BY <1>1, TypedSwitching, TypedOthers DEF Steps
<1>2. CASE \/ \E p \in Profiles : \/ SwitchCheck(p) \/ ImportBegin(p) \/ RemoveBegin(p)
                                  \/ \E a \in Accounts : Add(p, a)
                                  \/ \E q \in Profiles : RenameBegin(p, q)
           \/ \E s \in checked : SwitchBegin(s)
           \/ SetEnabled \/ EnsureBegin
  BY <1>2, TypedBegins
<1>3. CASE \/ Rotate \/ \E a \in Accounts : LogIn(a)
           \/ \E f \in {NoFile, Corrupt} : LoseLive(f)
           \/ Kill \/ UNCHANGED vars
  BY <1>3, TypedWorld
<1>4. Unowned \subseteq Accounts BY DEF Unowned
<1>5. CASE Next
  <2>1. CASE \E p \in Profiles, a \in Unowned : Add(p, a) BY <1>2, <1>4, <2>1
  <2>2. QED BY <1>1, <1>2, <1>3, <1>5, <2>1 DEF Next
<1>6. QED BY <1>3, <1>5

-----------------------------------------------------------------------------
(* Who keeps what.                                                         *)

LEMMA LatestIs ==
  ASSUME Typed
  PROVE  /\ \A a : live = Latest(a) => live \in Logins /\ live.account = a
         /\ \A a : \A p \in Profiles :
              stored[p] = Latest(a) => stored[p] \in Logins /\ stored[p].account = a
<1>1. \A a : Latest(a).is = "login" /\ Latest(a).account = a BY DEF Latest
<1>2. NoFile.is = "none" /\ Corrupt.is = "corrupt" /\ Link.is = "link"
  BY DEF NoFile, Corrupt, Link
<1>3. live \in Logins \/ live = NoFile \/ live = Corrupt BY DEF Typed, LiveFile
<1>4. \A p \in Profiles : stored[p] \in Logins \/ stored[p] = NoFile \/ stored[p] = Link
  BY DEF Typed
<1>5. QED BY <1>1, <1>2, <1>3, <1>4

\* A stored login is of the account its profile keeps, and nobody else keeps it.
LEMMA Keeper ==
  ASSUME Typed, Clean, NEW p \in Profiles, stored[p] \in Logins
  PROVE  /\ p \in dirs /\ owner[p] = stored[p].account /\ stored[p] \in Holds(p)
         /\ \A q \in dirs : owner[q] = owner[p] => q = p
<1>1. p \in dirs BY Kinds DEF Clean, Owned
<1>2. stored[p] \in Holds(p) BY DEF Holds, Copies
<1>3. QED BY <1>1, <1>2 DEF Clean, Owned

\* The live login of an account that was not given up is the only one of a shown profile.
LEMMA ShownIsLive ==
  ASSUME Typed, Clean, NEW p \in Profiles, stored[p] \in Logins, Shown(p), owner[p] \notin excused
  PROVE  live = Latest(owner[p])
<1>1. p \in dirs /\ Holds(p) # {} BY Keeper
<1>2. owner[p] \in Accounts \ excused BY <1>1 DEF Clean, Owned
<1>3. QED BY <1>1, <1>2 DEF Clean, Current

\* Steps that leave the files and the accounts as they are.
LEMMA FilesSame ==
  ASSUME Typed, Clean, UNCHANGED <<live, dirs, stored, newest, owner>>, excused \subseteq excused',
         \A p \in dirs : Holds(p)' \subseteq Holds(p),
         \A p \in dirs : Shown(p)' => Shown(p)
  PROVE  Owned' /\ LiveNew' /\ Found' /\ Current'
<1>1. \A a : Latest(a)' = Latest(a) BY SameLatest
<1>2. Owned' BY DEF Clean, Owned
<1>3. LiveNew' BY <1>1 DEF Clean, LiveNew
<1>4. Found' BY <1>1 DEF Clean, Found
<1>5. Current' BY <1>1 DEF Clean, Current
<1>6. QED BY <1>2, <1>3, <1>4, <1>5

\* Steps that leave the accounts as they are, and may back up or lose a login.
LEMMA OwnedKept ==
  ASSUME Clean, UNCHANGED <<dirs, owner>>,
         \A p \in Profiles \ dirs : stored'[p] = stored[p],
         \A p \in dirs : \A f \in Holds(p)' : f \in Holds(p) \/ f.account = owner[p]
  PROVE  Owned'
BY DEF Clean, Owned

LEMMA LiveNewKept ==
  ASSUME Clean, UNCHANGED <<live, newest>>, excused \subseteq excused'
  PROVE  LiveNew'
<1>1. \A a : Latest(a)' = Latest(a) BY SameLatest
<1>2. QED BY <1>1 DEF Clean, LiveNew

\* An operation that ends.
LEMMA Ends ==
  ASSUME Done
  PROVE  /\ active' \in dirs' \cup {Nobody} => JobOK'
         /\ Switching'
         /\ (\A p \in Profiles : stored'[p] = Link => p = active') => Linked'
         /\ \A p : (Shown(p)' <=> p = active') /\ Holds(p)' = Copies(p)'
<1>1. job' = NoJob /\ job'.op = "none" BY JobDone
<1>2. active' \in dirs' \cup {Nobody} => JobOK'
  BY <1>1 DEF JobOK, SwitchOK, EnsureOK, ImportOK, RenameOK, RemoveOK
<1>3. Switching' BY <1>1 DEF Switching, InSwitch
<1>4. (\A p \in Profiles : stored'[p] = Link => p = active') => Linked' BY <1>1 DEF Linked
<1>5. \A p : Shown(p)' <=> p = active' BY <1>1 DEF Shown, InSwitch, Renamed
<1>6. \A p : Holds(p)' = Copies(p)' BY <1>1 DEF Holds, Moving, Importing
<1>7. QED BY <1>2, <1>3, <1>4, <1>5, <1>6

\* What a profile holds does not change with other profiles' files.
LEMMA HoldsMore == \A p : Copies(p) \subseteq Holds(p) BY DEF Holds

LEMMA CopiesSame ==
  ASSUME NEW p, stored'[p] = stored[p], backups'[p] = backups[p]
  PROVE  Copies(p)' = Copies(p)
BY DEF Copies

\* A switch or the server's pass: no profile has logins elsewhere.
LEMMA HoldsCopies ==
  ASSUME job.op \notin {"rename", "import"}
  PROVE  \A p : Holds(p) = Copies(p)
BY DEF Holds, Moving, Importing

LEMMA HoldsCopiesThen ==
  ASSUME job'.op \notin {"rename", "import"}
  PROVE  \A p : Holds(p)' = Copies(p)'
BY DEF Holds, Moving, Importing

-----------------------------------------------------------------------------
(* Switches.                                                               *)

LEMMA CleanSame ==
  ASSUME Clean, UNCHANGED <<live, dirs, stored, backups, active, newest, owner, excused, job>>
  PROVE  Clean'
<1>1. /\ \A a : Latest(a)' = Latest(a)
      /\ \A p : Holds(p)' = Holds(p) /\ (Shown(p)' <=> Shown(p)) /\ (Renamed(p)' <=> Renamed(p))
      /\ InSwitch' <=> InSwitch
  BY SameLatest DEF Holds, Copies, Moving, Importing, Shown, InSwitch, Renamed
<1>2. Owned' BY <1>1 DEF Clean, Owned
<1>3. JobOK' BY DEF Clean, JobOK, SwitchOK, EnsureOK, ImportOK, RenameOK, RemoveOK
<1>4. Linked' BY <1>1 DEF Clean, Linked
<1>5. LiveNew' BY <1>1 DEF Clean, LiveNew
<1>6. Found' BY <1>1 DEF Clean, Found
<1>7. Current' BY <1>1 DEF Clean, Current
<1>8. Switching' BY <1>1 DEF Clean, Switching, Counts
<1>9. QED BY <1>2, <1>3, <1>4, <1>5, <1>6, <1>7, <1>8 DEF Clean

LEMMA CleanSwitchBegin ==
  ASSUME SwitcherAssumption, Typed, Clean, ~mixed', NEW s \in checked, SwitchBegin(s)
  PROVE  Clean'
<1> USE DEF files
<1>1. CASE Refused(s) BY <1>1, CleanSame DEF SwitchBegin
<1>2. CASE ~Refused(s)
  <2>1. /\ job.op = "none" /\ active \in dirs /\ s.name \in dirs /\ s.name # active
        /\ s.absent \in BOOLEAN /\ (~s.absent => live \in Logins)
    BY <1>2 DEF SwitchBegin, Unlocked, NoJob, Refused, Typed, Clean, JobOK
  <2>2. /\ job'.op = "switch" /\ job'.step = "capture" /\ job'.name = s.name
        /\ job'.from = active /\ job'.absent = s.absent
        /\ job'.data = IF s.absent THEN NoFile ELSE live
    BY <1>2 DEF SwitchBegin
  <2>3. /\ UNCHANGED <<live, dirs, stored, backups, active, newest, owner>>
        /\ excused \subseteq excused'
        /\ s.absent /\ live \in Logins => live.account \in excused'
        /\ live \in Logins => live.account = owner[active]
    BY <1>2 DEF SwitchBegin, Typed
  <2>4. \A p : /\ Holds(p)' = Holds(p)
               /\ Shown(p) <=> p = active
               /\ Shown(p)' <=> p = active
    BY <2>1, <2>2, <2>3 DEF Holds, Copies, Moving, Importing, Shown, InSwitch, Renamed
  <2>5. Owned' /\ LiveNew' /\ Found' /\ Current' BY <2>3, <2>4, FilesSame
  <2>6. \A p \in Profiles : stored[p] = Link => p = active
    BY <2>1 DEF Clean, Linked, Renamed
  <2>7. Linked' BY <2>2, <2>3, <2>6 DEF Linked
  <2>8. JobOK'
    <3>1. dirs \subseteq Profiles BY DEF Typed
    <3>2. SwitchOK' BY <2>1, <2>2, <2>3, <2>6, <3>1 DEF SwitchOK
    <3>3. QED BY <2>1, <2>2, <2>3, <3>2 DEF JobOK, EnsureOK, ImportOK, RenameOK, RemoveOK
  <2>9. Switching'
    <3>1. live' \in Logins /\ live'.account \notin excused' => live' = job'.data
      BY <2>1, <2>2, <2>3
    <3>2. job'.data \in Logins => live' = job'.data BY <2>1, <2>2, <2>3, Kinds
    <3>3. ASSUME NEW p \in dirs, p = active, s.absent, Holds(p) # {}
          PROVE  owner[p] \in excused'
      <4>1. SUFFICES ASSUME owner[p] \notin excused PROVE owner[p] \in excused' BY <2>3
      <4>2. owner[p] \in Accounts \ excused BY <4>1 DEF Clean, Owned
      <4>3. live = Latest(owner[p]) BY <2>4, <3>3, <4>2 DEF Clean, Current
      <4>4. QED BY <2>3, <3>3, <4>3, LatestIs
    <3>4. QED BY <2>2, <2>3, <2>4, <3>1, <3>2, <3>3 DEF Switching, Counts
  <2>10. QED BY <2>5, <2>7, <2>8, <2>9 DEF Clean
<1>3. QED BY <1>1, <1>2

\* What a switch under way knows.
LEMMA SwitchFacts ==
  ASSUME Typed, Clean, job.op = "switch"
  PROVE  /\ job \in Job /\ job.name \in Profiles /\ job.from \in Profiles
         /\ dirs \subseteq Profiles /\ SwitchOK
         /\ job.data \in Logins \cup {NoFile} /\ (job.absent <=> job.data = NoFile)
         /\ owner[job.name] # owner[job.from]
         /\ \A p \in Profiles : stored[p] = Link => p = active
         /\ \A p : Holds(p) = Copies(p)
BY HoldsCopies DEF Typed, JobTyped, Clean, JobOK, SwitchOK, Owned, Linked, Renamed

\* A switch goes on to a step before the state is saved, or to its failure.
LEMMA SwitchGoes ==
  ASSUME Typed, Clean, InSwitch, job.step # "state",
         NEW step \in {"backup", "place", "clear", "restore", "relink"}, Goto(step)
  PROVE  /\ job'.op = "switch" /\ job'.step = step /\ job'.name = job.name
         /\ job'.from = job.from /\ job'.data = job.data /\ job'.absent = job.absent
         /\ \A p : /\ Holds(p)' = Copies(p)'
                   /\ Shown(p) <=> p = job.from
                   /\ Shown(p)' <=> p = job.from
         /\ (\A p \in Profiles : stored'[p] = Link => p = active') => Linked'
         /\ dirs' = dirs /\ SwitchOK' => JobOK'
<1>1. /\ job'.op = "switch" /\ job'.step = step /\ job'.name = job.name
      /\ job'.from = job.from /\ job'.data = job.data /\ job'.absent = job.absent
  BY SwitchFacts, JobGoes DEF InSwitch
<1>2. \A p : Holds(p)' = Copies(p)' BY <1>1, HoldsCopiesThen
<1>3. \A p : (Shown(p) <=> p = job.from) /\ (Shown(p)' <=> p = job.from)
  BY <1>1 DEF Shown, InSwitch
<1>4. (\A p \in Profiles : stored'[p] = Link => p = active') => Linked' BY <1>1 DEF Linked
<1>5. dirs' = dirs /\ SwitchOK' => JobOK'
  BY <1>1 DEF SwitchOK, JobOK, EnsureOK, ImportOK, RenameOK, RemoveOK
<1>6. QED BY <1>1, <1>2, <1>3, <1>4, <1>5

\* A switch that goes on without touching the files, or saves a backup of the outgoing login.
LEMMA SwitchSame ==
  ASSUME Typed, Clean, InSwitch, job.step # "state",
         NEW step \in {"backup", "place", "clear", "restore", "relink"}, Goto(step),
         UNCHANGED <<live, dirs, stored, newest, owner, excused>>,
         active' = active, active = job.from,
         \A p \in dirs : Copies(p)' \subseteq Copies(p),
         step = "backup" => ~job.absent,
         step = "clear" => stored[job.name] = NoFile,
         step = "restore" => stored[job.name] # NoFile,
         step # "relink" => /\ stored[job.from] # Link
                            /\ ~job.absent => stored[job.from] = job.data
  PROVE  Clean'
<1>1. job.op = "switch" BY DEF InSwitch
<1> USE <1>1
<1>2. Owned' /\ LiveNew' /\ Found' /\ Current' BY SwitchFacts, SwitchGoes, FilesSame
<1>3. Linked' BY SwitchFacts, SwitchGoes
<1>4. JobOK'
  <2>1. SwitchOK' BY SwitchFacts, SwitchGoes DEF SwitchOK, InSwitch
  <2>2. QED BY <2>1, SwitchGoes
<1>5. Switching'
  <2>1. \A p \in dirs : Holds(p)' \subseteq Holds(p) BY SwitchFacts, SwitchGoes
  <2>2. QED BY <2>1, SwitchGoes DEF Clean, Switching, InSwitch, Counts
<1>6. QED BY <1>2, <1>3, <1>4, <1>5 DEF Clean

LEMMA CleanCapture ==
  ASSUME SwitcherAssumption, Typed, Clean, Capture
  PROVE  Clean'
<1> USE DEF history
<1>0. /\ job.op = "switch" /\ job.step = "capture" /\ InSwitch
      /\ active = job.from /\ job.from \in dirs /\ job.name \in dirs /\ job.name # job.from
      /\ dirs \subseteq Profiles /\ stored[job.name] # Link
      /\ ~job.absent => job.data \in Logins /\ job.data.account = owner[job.from]
  BY SwitchFacts DEF Capture, At, InSwitch, SwitchOK
<1>1. \A a : Latest(a)' = Latest(a) BY SameLatest DEF Capture
<1>2. UNCHANGED <<live, dirs, backups, active, newest, owner, excused>>
  BY <1>0 DEF Capture
<1>3. LiveNew' BY <1>2, LiveNewKept
<1>4. ASSUME job.absent, Goto("place"),
             stored' = [stored EXCEPT ![job.from] = IF @ = Link THEN NoFile ELSE @]
      PROVE  Clean'
  <2>1. /\ stored'[job.from] # Link
        /\ \A p \in Profiles : p # job.from => stored'[p] = stored[p]
        /\ \A p \in Profiles : stored[p] \in Logins => stored'[p] = stored[p]
        /\ \A p \in Profiles : stored'[p] \in Logins => stored'[p] = stored[p]
    BY <1>0, <1>4, Kinds DEF Typed
  <2>2. \A p \in Profiles : Copies(p)' \subseteq Copies(p)
    BY <1>2, <2>1 DEF Copies
  <2>3. Owned' BY <1>0, <1>2, <1>4, <2>1, <2>2, SwitchFacts, SwitchGoes, OwnedKept
  <2>4. Found' BY <1>1, <1>2, <2>1, LatestIs DEF Clean, Found
  <2>h. \A p \in dirs : (Holds(p)' # {} => Holds(p) # {}) /\ (Shown(p)' => Shown(p))
    BY <1>0, <1>4, <2>2, SwitchFacts, SwitchGoes
  <2>5. Current'
    <3>1. SUFFICES ASSUME NEW p \in dirs, NEW a \in Accounts \ excused, owner[p] = a,
                          Holds(p) # {}, live # Latest(a)
                   PROVE  ~Shown(p)' /\ stored'[p] = Latest(a)
      BY <1>1, <1>2, <2>h DEF Current
    <3>2. ~Shown(p) /\ stored[p] = Latest(a) BY <3>1 DEF Clean, Current
    <3>3. QED BY <1>0, <2>1, <2>h, <3>2, LatestIs
  <2>6. Linked' BY <1>0, <1>2, <1>4, <2>1, SwitchFacts, SwitchGoes
  <2>7. SwitchOK' BY <1>0, <1>2, <1>4, <2>1, SwitchGoes DEF SwitchOK
  <2>g. job'.step = "place" /\ job'.from = job.from /\ job'.data = job.data /\ job'.absent = job.absent
    BY <1>0, <1>4, SwitchGoes
  <2>8. Switching'
    <3>1. \A p \in dirs : p = job.from /\ job.absent /\ Holds(p)' # {} => owner[p] \in excused
      BY <1>0, <2>h DEF Clean, Switching
    <3>2. QED BY <1>0, <1>2, <2>g, <3>1 DEF Clean, Switching, InSwitch, Counts
  <2>9. QED BY <1>0, <1>2, <1>3, <1>4, <2>3, <2>4, <2>5, <2>6, <2>7, <2>8, SwitchGoes DEF Clean
<1>5. ASSUME ~job.absent, Goto("backup"), stored' = [stored EXCEPT ![job.from] = job.data]
      PROVE  Clean'
  <2>1. /\ stored'[job.from] = job.data /\ stored'[job.from] # Link
        /\ \A p \in Profiles : p # job.from => stored'[p] = stored[p]
    BY <1>0, <1>5, Kinds DEF Typed
  <2>2. /\ \A p \in Profiles : p # job.from => Copies(p)' = Copies(p)
        /\ \A p \in Profiles : p = job.from => Copies(p)' \subseteq Copies(p) \cup {job.data}
    BY <1>2, <2>1 DEF Copies
  <2>3. Owned' BY <1>0, <1>2, <1>5, <2>1, <2>2, SwitchFacts, SwitchGoes, OwnedKept
  <2>4. ASSUME NEW a \in Accounts \ excused, owner[job.from] = a PROVE live = Latest(a)
    <3>1. live = job.data BY <1>0, <1>5, <2>4 DEF Clean, Switching, Counts
    <3>2. QED BY <1>0, <1>5, <2>4, <3>1 DEF Clean, LiveNew
  <2>5. Found'
    <3>1. ASSUME NEW a \in Accounts \ excused, stored[job.from] = Latest(a)
          PROVE  live = Latest(a)
      BY <1>0, <2>4, <3>1, Keeper, LatestIs
    <3>2. QED BY <1>1, <1>2, <2>1, <3>1 DEF Clean, Found
  <2>6. Current'
    BY <1>0, <1>1, <1>2, <1>5, <2>1, <2>2, <2>4, SwitchFacts, SwitchGoes DEF Clean, Current
  <2>7. Linked' BY <1>0, <1>2, <1>5, <2>1, SwitchFacts, SwitchGoes
  <2>8. SwitchOK' BY <1>0, <1>2, <1>5, <2>1, SwitchGoes DEF SwitchOK
  <2>9. Switching' BY <1>0, <1>2, <1>5, SwitchGoes DEF Clean, Switching, InSwitch, Counts
  <2>10. QED BY <1>0, <1>2, <1>3, <1>5, <2>3, <2>5, <2>6, <2>7, <2>8, <2>9, SwitchGoes DEF Clean
<1>6. ASSUME ~job.absent, Goto("relink"), UNCHANGED stored PROVE Clean'
  <2>1. \A p \in dirs : Copies(p)' \subseteq Copies(p) BY <1>2, <1>6 DEF Copies
  <2>2. QED BY <1>0, <1>2, <1>6, <2>1, SwitchSame
<1>7. ASSUME Done, UNCHANGED stored PROVE Clean'
  <2>1. \A p \in dirs : Copies(p)' \subseteq Copies(p) BY <1>2, <1>7 DEF Copies
  <2>2. \A p : Shown(p) <=> p = active BY <1>0 DEF Shown, InSwitch
  <2>3. QED BY <1>0, <1>2, <1>7, <2>1, <2>2, SwitchFacts, Ends, FilesSame DEF Clean
<1>8. QED BY <1>0, <1>2, <1>4, <1>5, <1>6, <1>7 DEF Capture

LEMMA CleanBackUp ==
  ASSUME SwitcherAssumption, Typed, Clean, BackUp
  PROVE  Clean'
<1> USE DEF history
<1>0. /\ job.op = "switch" /\ job.step = "backup" /\ InSwitch /\ ~job.absent
      /\ active = job.from /\ job.from \in Profiles /\ job.data \in Logins
      /\ stored[job.from] = job.data
  BY SwitchFacts DEF BackUp, At, InSwitch, SwitchOK, Typed, JobTyped
<1>1. UNCHANGED <<live, dirs, stored, active, newest, owner, excused>> BY DEF BackUp
<1>2. \A p \in Profiles : Copies(p)' \subseteq Copies(p)
  <2>1. CASE UNCHANGED backups BY <1>1, <2>1 DEF Copies
  <2>2. CASE backups' = Backed(job.from, job.data)
    <3>1. /\ \A q \in Profiles \ {job.from} : backups'[q] = backups[q]
          /\ \A q \in Profiles : q = job.from =>
               ToSet(backups'[q]) \subseteq ToSet(backups[q]) \cup {job.data}
      BY <1>0, <2>2, BackUpAdds DEF Typed
    <3>2. QED BY <1>0, <1>1, <3>1 DEF Copies
  <2>3. QED BY <2>1, <2>2 DEF BackUp
<1>3. Goto("place") \/ Goto("relink") BY DEF BackUp
<1>4. QED BY <1>0, <1>1, <1>2, <1>3, SwitchFacts, SwitchSame, Kinds

LEMMA CleanPlace ==
  ASSUME SwitcherAssumption, Typed, Clean, Place
  PROVE  Clean'
<1> USE DEF history
<1>0. /\ job.op = "switch" /\ job.step = "place" /\ InSwitch
      /\ active = job.from /\ job.from \in Profiles /\ job.name \in Profiles
      /\ stored[job.name] # Link /\ stored[job.from] # Link
      /\ ~job.absent => stored[job.from] = job.data
  BY SwitchFacts DEF Place, At, InSwitch, SwitchOK
<1>1. /\ stored' = stored
      /\ \/ Goto("clear") /\ stored[job.name] = NoFile
         \/ Goto("restore") /\ stored[job.name] # NoFile
  <2>1. Read(job.name) = stored[job.name] BY <1>0 DEF Read
  <2>2. stored[job.name] = NoFile => [stored EXCEPT ![job.name] = NoFile] = stored
    BY <1>0 DEF Typed
  <2>3. QED BY <1>0, <2>1, <2>2 DEF Place
<1>2. UNCHANGED <<live, dirs, backups, active, newest, owner, excused>> BY DEF Place
<1>3. \A p \in dirs : Copies(p)' \subseteq Copies(p) BY <1>1, <1>2 DEF Copies
<1>4. QED BY <1>0, <1>1, <1>2, <1>3, SwitchSame

LEMMA CleanPointToEmpty ==
  ASSUME SwitcherAssumption, Typed, Clean, PointToEmpty
  PROVE  Clean'
<1> USE DEF history
<1>0. /\ job.op = "switch" /\ job.step = "clear" /\ InSwitch /\ job \in Job
      /\ active = job.from /\ job.from \in Profiles /\ job.name \in dirs
      /\ stored[job.name] # Link /\ stored[job.from] # Link
  BY SwitchFacts, Kinds DEF PointToEmpty, At, InSwitch, SwitchOK
<1>1. UNCHANGED <<live, dirs, stored, backups, newest, owner, excused>> BY DEF PointToEmpty
<1>2. \A p \in dirs : Copies(p)' \subseteq Copies(p) BY <1>1 DEF Copies
<1>3. CASE Goto("relink") /\ UNCHANGED active BY <1>0, <1>1, <1>2, <1>3, SwitchSame
<1>4. CASE active' = job.name /\ UNCHANGED job
  <2>1. \A p : /\ Holds(p)' = Holds(p) /\ (Shown(p)' <=> Shown(p))
    BY <1>0, <1>1, <1>4 DEF Holds, Copies, Moving, Importing, Shown, InSwitch
  <2>2. Owned' /\ LiveNew' /\ Found' /\ Current' BY <1>1, <2>1, FilesSame
  <2>3. Linked' BY <1>0, <1>1, SwitchFacts DEF Linked
  <2>4. JobOK'
    <3>1. SwitchOK' BY <1>0, <1>1, <1>4, SwitchFacts DEF SwitchOK
    <3>2. QED BY <1>0, <1>1, <1>4, <3>1 DEF JobOK, EnsureOK, ImportOK, RenameOK, RemoveOK
  <2>5. Switching' BY <1>0, <1>1, <1>4, <2>1 DEF Clean, Switching, InSwitch, Counts
  <2>6. QED BY <2>2, <2>3, <2>4, <2>5 DEF Clean
<1>5. QED BY <1>3, <1>4 DEF PointToEmpty

\* A switch that fails before it saves the state puts the captured login back, if it was
\* not still there.
LEMMA RollsBack ==
  ASSUME SwitcherAssumption, Typed, Clean, InSwitch, job.step \in {"clear", "restore"}, Goto("relink"),
         UNCHANGED <<dirs, stored, backups, newest, owner, excused>>, active' = job.from,
         \/ live' \in {live, job.data}
         \/ job.absent /\ live' = Corrupt
  PROVE  Clean'
<1>0. /\ job.op = "switch" /\ job.from \in dirs /\ job.name \in dirs /\ dirs \subseteq Profiles
      /\ stored[job.from] # Link /\ stored[job.name] # Link
      /\ active \in {job.from, job.name}
      /\ job.data \in Logins => ~job.absent
  BY SwitchFacts, Kinds DEF InSwitch, SwitchOK
<1>1. \A a : Latest(a)' = Latest(a) BY SameLatest
<1>2. \A p : Copies(p)' = Copies(p) BY DEF Copies
<1>3. \A a \in Accounts \ excused : live = Latest(a) => live' = live
  BY <1>0, LatestIs DEF Clean, Switching, Counts
<1>4. live' \in Logins /\ live'.account \notin excused => live' = live
  BY Kinds DEF Clean, Switching, Counts
<1>5. Owned' BY <1>0, <1>2, SwitchFacts, SwitchGoes, OwnedKept
<1>6. LiveNew' BY <1>1, <1>4 DEF Clean, LiveNew
<1>7. Found' BY <1>1, <1>3 DEF Clean, Found
<1>8. \A p \in dirs : Holds(p)' = Holds(p) /\ (Shown(p)' <=> Shown(p))
  BY <1>0, <1>2, SwitchFacts, SwitchGoes
<1>9. Current' BY <1>1, <1>3, <1>8 DEF Clean, Current
<1>10. Linked' BY <1>0, SwitchFacts, SwitchGoes
<1>11. SwitchOK' BY <1>0, SwitchFacts, SwitchGoes DEF SwitchOK
<1>12. Switching'
  <2>1. /\ job'.step = "relink" /\ job'.from = job.from /\ job'.data = job.data
        /\ job'.absent = job.absent
    BY <1>0, SwitchGoes
  <2>2. job.data \in Logins /\ job.data.account \notin excused => live' = job.data
    BY <1>0 DEF Clean, Switching, Counts
  <2>3. live' \in Logins /\ live'.account \notin excused => live' = job.data
    BY <1>0, <1>4 DEF Clean, Switching, Counts
  <2>4. \A p \in dirs : p = job.from /\ job.absent /\ Holds(p)' # {} => owner[p] \in excused
    BY <1>8 DEF Clean, Switching
  <2>5. QED BY <2>1, <2>2, <2>3, <2>4 DEF Switching, Counts
<1>13. QED BY <1>0, <1>5, <1>6, <1>7, <1>9, <1>10, <1>11, <1>12, SwitchGoes DEF Clean

\* What is still in the live file before the state is saved is stored with the outgoing profile.
LEMMA OutgoingStored ==
  ASSUME Typed, Clean, InSwitch, job.step \in {"clear", "restore"},
         NEW a \in Accounts \ excused, live = Latest(a)
  PROVE  stored[job.from] = Latest(a) /\ owner[job.from] = a
<1>1. live = job.data /\ job.data \in Logins /\ live.account = a
  BY LatestIs DEF Clean, Switching, Counts
<1>2. ~job.absent BY <1>1, SwitchFacts, Kinds DEF InSwitch
<1>3. QED BY <1>1, <1>2, SwitchFacts DEF InSwitch, SwitchOK

LEMMA CleanClearLive ==
  ASSUME SwitcherAssumption, Typed, Clean, ~mixed', ClearLive
  PROVE  Clean'
<1> USE DEF history
<1>0. /\ job.op = "switch" /\ job.step = "clear" /\ InSwitch /\ active = job.name
      /\ job.from \in dirs /\ job.name \in dirs /\ dirs \subseteq Profiles /\ job.name # job.from
      /\ stored[job.from] # Link /\ stored[job.name] = NoFile
      /\ job.data \in Logins \cup {NoFile}
  BY SwitchFacts DEF ClearLive, At, InSwitch, SwitchOK
<1>1. \A a : Latest(a)' = Latest(a) BY SameLatest DEF ClearLive
<1>2. UNCHANGED <<dirs, stored, backups, newest, owner, excused>> BY DEF ClearLive
<1>3. ASSUME live' = NoFile, Done, UNCHANGED active PROVE Clean'
  <2>1. \A p : Copies(p)' = Copies(p) BY <1>2 DEF Copies
  <2>2. Owned' BY <1>0, <1>2, <1>3, <2>1, SwitchFacts, Ends, OwnedKept
  <2>3. LiveNew' BY <1>3, Kinds DEF LiveNew
  <2>4. Found' BY <1>0, <1>1, <1>2, OutgoingStored DEF Clean, Found
  <2>5. Current'
    <3>1. SUFFICES ASSUME NEW p \in dirs, NEW a \in Accounts \ excused, owner[p] = a,
                          Holds(p) # {}
                   PROVE  p # active /\ stored[p] = Latest(a)
      BY <1>1, <1>2, <1>3, <2>1, SwitchFacts, <1>0, Ends DEF Current
    <3>2. CASE live = Latest(a)
      BY <1>0, <3>1, <3>2, OutgoingStored DEF Clean, Owned
    <3>3. CASE live # Latest(a)
      <4>1. stored[p] = Latest(a) BY <3>1, <3>3 DEF Clean, Current
      <4>2. QED BY <1>0, <4>1, LatestIs, Kinds
    <3>4. QED BY <3>2, <3>3
  <2>6. Linked' BY <1>0, <1>2, <1>3, SwitchFacts, Ends
  <2>7. JobOK' /\ Switching' BY <1>0, <1>2, <1>3, Ends
  <2>8. QED BY <2>2, <2>3, <2>4, <2>5, <2>6, <2>7 DEF Clean
<1>4. ASSUME NEW pointer \in BOOLEAN, NEW file \in BOOLEAN,
             active' = (IF pointer THEN job.from ELSE active),
             live' = (IF ~file THEN live ELSE IF job.absent THEN Corrupt ELSE job.data),
             mixed' = (mixed \/ ~pointer), Goto("relink")
      PROVE  Clean'
  <2>1. active' = job.from BY <1>4
  <2>2. live' \in {live, job.data} \/ (job.absent /\ live' = Corrupt) BY <1>4
  <2>3. QED BY <1>0, <1>2, <1>4, <2>1, <2>2, RollsBack
<1>5. QED BY <1>3, <1>4 DEF ClearLive

LEMMA CleanRestore ==
  ASSUME SwitcherAssumption, Typed, Clean, Restore
  PROVE  Clean'
<1> USE DEF history
<1>0. /\ job.op = "switch" /\ job.step = "restore" /\ InSwitch /\ active = job.from /\ job \in Job
      /\ job.from \in dirs /\ job.name \in dirs /\ dirs \subseteq Profiles /\ job.name # job.from
      /\ stored[job.from] # Link /\ stored[job.name] # Link /\ stored[job.name] # NoFile
      /\ owner[job.name] # owner[job.from]
  BY SwitchFacts DEF Restore, At, InSwitch, SwitchOK
<1>1. \A a : Latest(a)' = Latest(a) BY SameLatest DEF Restore
<1>2. UNCHANGED <<dirs, stored, backups, active, newest, owner, excused>> BY DEF Restore
<1>3. Read(job.name) = stored[job.name] /\ stored[job.name] \in Logins
  BY <1>0 DEF Read, Typed
<1>4. CASE Goto("relink")
  <2>1. live' \in {live, job.data} BY <1>0, <1>4, <1>3, JobGoes DEF Restore, RollBack, Goto
  <2>2. QED BY <1>0, <1>2, <1>4, <2>1, RollsBack
<1>5. ASSUME live' = stored[job.name], Goto("state") PROVE Clean'
  <2>1. /\ job'.op = "switch" /\ job'.step = "state" /\ job'.name = job.name
        /\ job'.from = job.from /\ job'.data = job.data /\ job'.absent = job.absent
    BY <1>0, <1>5, JobGoes
  <2>2. \A p : Copies(p)' = Copies(p) BY <1>2 DEF Copies
  <2>3. \A p : /\ Holds(p)' = Holds(p)
               /\ Shown(p) <=> p = job.from
               /\ Shown(p)' <=> p = job.name
    BY <1>0, <2>1, <2>2, HoldsCopies, HoldsCopiesThen DEF Shown, InSwitch
  <2>4. Owned' BY <1>2, <2>3, OwnedKept
  <2>5. ASSUME NEW a \in Accounts \ excused, owner[job.name] = a
        PROVE  stored[job.name] = Latest(a)
    <3>1. Holds(job.name) # {} BY <1>0, <1>3, Keeper
    <3>2. live # Latest(a) BY <1>0, <2>5, OutgoingStored
    <3>3. QED BY <1>0, <2>5, <3>1, <3>2 DEF Clean, Current
  <2>6. stored[job.name].account = owner[job.name] BY <1>0, <1>3, Keeper
  <2>7. LiveNew' BY <1>1, <1>2, <1>5, <2>5, <2>6 DEF LiveNew
  <2>8. Found' BY <1>0, <1>1, <1>2, <1>5, OutgoingStored DEF Clean, Found
  <2>9. Current'
    <3>1. SUFFICES ASSUME NEW p \in dirs, NEW a \in Accounts \ excused, owner[p] = a,
                          Holds(p) # {}
                   PROVE  live' = Latest(a) \/ (p # job.name /\ stored[p] = Latest(a))
      BY <1>1, <1>2, <2>3 DEF Current
    <3>2. CASE live = Latest(a)
      BY <1>0, <3>1, <3>2, OutgoingStored DEF Clean, Owned
    <3>3. CASE live # Latest(a)
      <4>1. stored[p] = Latest(a) BY <3>1, <3>3 DEF Clean, Current
      <4>2. QED BY <1>5, <4>1
    <3>4. QED BY <3>2, <3>3
  <2>10. Linked' BY <1>0, <1>2, <2>1, SwitchFacts DEF Linked
  <2>11. JobOK'
    <3>1. SwitchOK' BY <1>0, <1>2, <1>3, <2>1, SwitchFacts DEF SwitchOK
    <3>2. QED BY <1>0, <1>2, <2>1, <3>1 DEF JobOK, EnsureOK, ImportOK, RenameOK, RemoveOK
  <2>12. Switching'
    <3>1. \A p \in dirs : p = job.from /\ job.absent /\ Holds(p)' # {} => owner[p] \in excused
      BY <1>0, <2>3 DEF Clean, Switching
    <3>2. QED BY <1>2, <1>5, <2>1, <3>1 DEF Switching, Counts
  <2>13. QED BY <2>4, <2>7, <2>8, <2>9, <2>10, <2>11, <2>12 DEF Clean
<1>6. QED BY <1>3, <1>4, <1>5 DEF Restore, RollBack

\* What is in the live file before the state is saved is stored with the target.
LEMMA IncomingStored ==
  ASSUME Typed, Clean, InSwitch, job.step = "state",
         NEW a \in Accounts \ excused, live = Latest(a)
  PROVE  stored[job.name] = Latest(a) /\ owner[job.name] = a
<1>1. live = stored[job.name] /\ live \in Logins /\ live.account = a
  BY LatestIs DEF Clean, Switching, Counts
<1>2. QED BY <1>1, SwitchFacts, Keeper DEF InSwitch

LEMMA CleanSaveState ==
  ASSUME SwitcherAssumption, Typed, Clean, ~mixed', SaveState
  PROVE  Clean'
<1> USE DEF history
<1>0. /\ job.op = "switch" /\ job.step = "state" /\ InSwitch /\ active = job.from /\ job \in Job
      /\ job.from \in dirs /\ job.name \in dirs /\ dirs \subseteq Profiles /\ job.name # job.from
      /\ stored[job.from] # Link /\ stored[job.name] \in Logins
      /\ owner[job.name] # owner[job.from]
      /\ ~job.absent => stored[job.from] = job.data
      /\ job.data \in Logins => ~job.absent
      /\ ~job.absent => job.data.account = owner[job.from]
  BY SwitchFacts, Kinds DEF SaveState, At, InSwitch, SwitchOK
<1>1. \A a : Latest(a)' = Latest(a) BY SameLatest DEF SaveState
<1>2. UNCHANGED <<dirs, stored, backups, newest, owner, excused>> BY DEF SaveState
<1>3. \A p : Copies(p)' = Copies(p) BY <1>2 DEF Copies
<1>4. \A p \in Profiles : stored[p] # Link BY <1>0, SwitchFacts
<1>5. ASSUME active' = job.name, Goto("keep"), UNCHANGED live PROVE Clean'
  <2>1. /\ job'.op = "switch" /\ job'.step = "keep" /\ job'.name = job.name
        /\ job'.from = job.from /\ job'.data = job.data /\ job'.absent = job.absent
    BY <1>0, <1>5, JobGoes
  <2>2. \A p : /\ Holds(p)' = Holds(p)
               /\ Shown(p) <=> p = job.name
               /\ Shown(p)' <=> p = job.name
    BY <1>0, <1>3, <1>5, <2>1, HoldsCopies, HoldsCopiesThen DEF Shown, InSwitch, Renamed
  <2>3. Owned' /\ LiveNew' /\ Found' /\ Current' BY <1>2, <1>5, <2>2, FilesSame
  <2>4. Linked' BY <1>2, <1>4 DEF Linked
  <2>5. JobOK'
    <3>1. SwitchOK' BY <1>0, <1>2, <1>5, <2>1, <1>4 DEF SwitchOK
    <3>2. QED BY <1>0, <1>2, <1>5, <2>1, <3>1 DEF JobOK, EnsureOK, ImportOK, RenameOK, RemoveOK
  <2>6. Switching' BY <2>1 DEF Switching, InSwitch
  <2>7. QED BY <2>3, <2>4, <2>5, <2>6 DEF Clean
<1>6. ASSUME live' = job.data, Goto("relink"), UNCHANGED active PROVE Clean'
  <2>1. /\ job'.op = "switch" /\ job'.step = "relink" /\ job'.name = job.name
        /\ job'.from = job.from /\ job'.data = job.data /\ job'.absent = job.absent
    BY <1>0, <1>6, JobGoes
  <2>2. \A p : /\ Holds(p)' = Holds(p)
               /\ Shown(p) <=> p = job.name
               /\ Shown(p)' <=> p = job.from
    BY <1>0, <1>3, <1>6, <2>1, HoldsCopies, HoldsCopiesThen DEF Shown, InSwitch, Renamed
  <2>3. Owned' BY <1>2, <2>2, OwnedKept
  <2>4. ASSUME NEW a \in Accounts \ excused, owner[job.from] = a, Holds(job.from) # {}
        PROVE  job.data = Latest(a)
    <3>1. ~job.absent BY <1>0, <2>4 DEF Clean, Switching
    <3>2. live # Latest(a) BY <1>0, <2>4, IncomingStored
    <3>3. QED BY <1>0, <2>4, <3>1, <3>2 DEF Clean, Current
  <2>5. LiveNew'
    <3>1. ASSUME NEW a \in Accounts \ excused, job.data \in Logins, job.data.account = a
          PROVE  job.data = Latest(a)
      BY <1>0, <2>4, <3>1, Keeper
    <3>2. QED BY <1>1, <1>2, <1>6, <3>1 DEF LiveNew
  <2>6. Found' BY <1>0, <1>1, <1>2, IncomingStored DEF Clean, Found
  <2>7. Current'
    <3>1. SUFFICES ASSUME NEW p \in dirs, NEW a \in Accounts \ excused, owner[p] = a,
                          Holds(p) # {}
                   PROVE  job.data = Latest(a) \/ (p # job.from /\ stored[p] = Latest(a))
      BY <1>1, <1>2, <1>6, <2>2 DEF Current
    <3>2. CASE p = job.from BY <2>4, <3>1, <3>2
    <3>3. CASE p # job.from /\ live = Latest(a)
      BY <1>0, <3>1, <3>3, IncomingStored DEF Clean, Owned
    <3>4. CASE p # job.from /\ live # Latest(a) BY <3>1, <3>4 DEF Clean, Current
    <3>5. QED BY <3>2, <3>3, <3>4
  <2>8. Linked' BY <1>2, <1>4 DEF Linked
  <2>9. JobOK'
    <3>1. SwitchOK' BY <1>0, <1>2, <1>6, <2>1, Kinds DEF SwitchOK
    <3>2. QED BY <1>0, <1>2, <1>6, <2>1, <3>1 DEF JobOK, EnsureOK, ImportOK, RenameOK, RemoveOK
  <2>10. Switching'
    <3>1. \A p \in dirs : p = job.from /\ job.absent /\ Holds(p)' # {} => owner[p] \in excused
      BY <1>0, <2>2 DEF Clean, Switching
    <3>2. QED BY <1>2, <1>6, <2>1, <3>1 DEF Switching, Counts
  <2>11. QED BY <2>3, <2>5, <2>6, <2>7, <2>8, <2>9, <2>10 DEF Clean
<1>7. QED BY <1>5, <1>6 DEF SaveState, RollBack

\* The end of a switch, or of the server's pass: the profile is the active one.
LEMMA LinkingFacts ==
  ASSUME Typed, Clean, job.op \in {"switch", "ensure"}, job.step \in {"keep", "link"}
  PROVE  /\ job \in Job /\ ~InSwitch /\ job.name = active /\ active \in dirs
         /\ dirs \subseteq Profiles /\ stored[active] # Link
         /\ \A p \in Profiles : stored[p] # Link
         /\ \A p : Holds(p) = Copies(p) /\ (Shown(p) <=> p = active)
BY HoldsCopies
DEF Typed, JobTyped, Clean, JobOK, SwitchOK, EnsureOK, InSwitch, Shown, Renamed, Linked

LEMMA CleanKeepStored ==
  ASSUME SwitcherAssumption, Typed, Clean, KeepStored
  PROVE  Clean'
<1> USE DEF history
<1>0. /\ job.op \in {"switch", "ensure"} /\ job.step = "keep" /\ job \in Job
      /\ job.name = active /\ active \in dirs /\ active \in Profiles /\ stored[active] # Link
  BY LinkingFacts DEF KeepStored
<1>1. UNCHANGED <<live, dirs, stored, active, newest, owner, excused>> BY DEF KeepStored
<1>2. Read(job.name) = stored[job.name] BY <1>0 DEF Read
<1>3. \A p \in Profiles : Copies(p)' \subseteq Copies(p)
  <2>1. CASE UNCHANGED backups BY <1>1, <2>1 DEF Copies
  <2>2. CASE stored[job.name] \in Logins /\ backups' = Backed(job.name, stored[job.name])
    <3>1. /\ \A q \in Profiles \ {job.name} : backups'[q] = backups[q]
          /\ \A q \in Profiles : q = job.name =>
               ToSet(backups'[q]) \subseteq ToSet(backups[q]) \cup {stored[q]}
      BY <1>0, <2>2, BackUpAdds DEF Typed
    <3>2. QED BY <1>0, <1>1, <2>2, <3>1 DEF Copies
  <2>3. QED BY <1>2, <2>1, <2>2 DEF KeepStored
<1>4. ASSUME Goto("link"), job.op = "switch" => stored[job.name] \in Logins PROVE Clean'
  <2>1. /\ job'.op = job.op /\ job'.step = "link" /\ job'.name = job.name
        /\ job'.from = job.from /\ job'.data = job.data /\ job'.absent = job.absent
    BY <1>0, <1>4, JobGoes
  <2>2. \A p \in dirs : Holds(p)' \subseteq Holds(p) /\ (Shown(p)' => Shown(p))
    BY <1>0, <1>1, <1>3, <2>1, LinkingFacts, HoldsCopiesThen DEF Shown, InSwitch, Renamed
  <2>3. Owned' /\ LiveNew' /\ Found' /\ Current' BY <1>1, <2>2, FilesSame
  <2>4. Linked' BY <1>0, <1>1, LinkingFacts DEF Linked
  <2>5. JobOK'
    <3>1. SwitchOK'
      <4>1. CASE job.op = "switch" BY <1>0, <1>1, <2>1, <4>1 DEF Clean, JobOK, SwitchOK
      <4>2. CASE job.op = "ensure" BY <2>1, <4>2 DEF SwitchOK
      <4>3. QED BY <1>0, <4>1, <4>2
    <3>2. QED BY <1>0, <1>1, <2>1, <3>1 DEF JobOK, EnsureOK, ImportOK, RenameOK, RemoveOK
  <2>6. Switching' BY <2>1 DEF Switching, InSwitch
  <2>7. QED BY <2>3, <2>4, <2>5, <2>6 DEF Clean
<1>5. ASSUME Done PROVE Clean'
  <2>1. \A p \in dirs : Holds(p)' \subseteq Holds(p) /\ (Shown(p)' => Shown(p))
    BY <1>0, <1>1, <1>3, <1>5, LinkingFacts, Ends
  <2>2. Owned' /\ LiveNew' /\ Found' /\ Current' BY <1>1, <2>1, FilesSame
  <2>3. QED BY <1>0, <1>1, <1>5, <2>2, LinkingFacts, Ends DEF Clean
<1>6. QED BY <1>2, <1>4, <1>5, <1>0 DEF KeepStored

\* A shown profile is linked, and its operation ends: its own file is not needed.
LEMMA CleanLinked ==
  ASSUME SwitcherAssumption, Typed, Clean, Done, active \in dirs,
         UNCHANGED <<live, dirs, backups, active, newest, owner, excused>>,
         \A p : Shown(p) <=> p = active,
         \A p : Holds(p) = Copies(p),
         \A p \in Profiles : stored[p] = Link => p = active,
         \/ stored' = [stored EXCEPT ![active] = Link]
         \/ UNCHANGED stored
  PROVE  Clean'
<1>0. active \in Profiles BY DEF Typed
<1>1. \A a : Latest(a)' = Latest(a) BY SameLatest
<1>2. \A p \in Profiles : /\ p # active => stored'[p] = stored[p]
                          /\ stored'[p] \in {stored[p], Link}
  BY <1>0 DEF Typed
<1>3. \A p \in Profiles : Holds(p)' \subseteq Holds(p)
  BY <1>2, Kinds, Ends DEF Copies
<1>4. Owned' BY <1>0, <1>2, <1>3, OwnedKept DEF Typed
<1>5. LiveNew' BY LiveNewKept
<1>6. Found'
  <2>1. ASSUME NEW p \in Profiles, NEW a \in Accounts \ excused, stored[p] = Latest(a)
        PROVE  live = Latest(a) \/ stored'[p] = Latest(a)
    <3>1. CASE p = active
      <4>1. stored[p] \in Logins /\ stored[p].account = a BY <2>1, LatestIs
      <4>2. owner[p] = a BY <4>1, Keeper
      <4>3. QED BY <2>1, <3>1, <4>1, <4>2, ShownIsLive
    <3>2. QED BY <1>2, <2>1, <3>1
  <2>2. QED BY <1>1, <2>1 DEF Clean, Found
<1>7. Current'
  <2>1. \A p \in dirs : Holds(p)' # {} => Holds(p) # {} BY <1>3 DEF Typed
  <2>2. SUFFICES ASSUME NEW p \in dirs, NEW a \in Accounts \ excused, owner[p] = a,
                        Holds(p) # {}, live # Latest(a)
                 PROVE  p # active /\ stored'[p] = Latest(a)
    BY <1>1, <2>1, Ends DEF Current
  <2>3. p # active /\ stored[p] = Latest(a) BY <2>2 DEF Clean, Current
  <2>4. QED BY <1>2, <2>3 DEF Typed
<1>8. Linked' BY <1>2, Ends
<1>9. QED BY <1>4, <1>5, <1>6, <1>7, <1>8, Ends DEF Clean

LEMMA CleanLinkIn ==
  ASSUME SwitcherAssumption, Typed, Clean, LinkIn
  PROVE  Clean'
<1> USE DEF history
<1>1. UNCHANGED <<live, dirs, backups, active, newest, owner, excused>> /\ Done BY DEF LinkIn
<1>2. \/ stored' = [stored EXCEPT ![active] = Link]
      \/ UNCHANGED stored
  BY LinkingFacts DEF LinkIn
<1>3. QED BY <1>1, <1>2, LinkingFacts, CleanLinked DEF LinkIn

LEMMA CleanRelink ==
  ASSUME SwitcherAssumption, Typed, Clean, Relink
  PROVE  Clean'
<1> USE DEF history
<1>0. /\ job.op = "switch" /\ job.step = "relink" /\ active = job.from /\ active \in dirs
  BY SwitchFacts DEF Relink, At, SwitchOK
<1>1. UNCHANGED <<live, dirs, backups, active, newest, owner, excused>> /\ Done BY DEF Relink
<1>2. \/ stored' = [stored EXCEPT ![active] = Link]
      \/ UNCHANGED stored
  BY <1>0 DEF Relink
<1>3. \A p : Shown(p) <=> p = active BY <1>0 DEF Shown, InSwitch
<1>4. QED BY <1>0, <1>1, <1>2, <1>3, SwitchFacts, CleanLinked

-----------------------------------------------------------------------------
(* The other operations.                                                   *)

\* No operation is under way.
LEMMA IdleFacts ==
  ASSUME SwitcherAssumption, Typed, Clean, Unlocked
  PROVE  /\ job.op = "none" /\ active \in dirs \cup {Nobody} /\ dirs \subseteq Profiles
         /\ Nobody \notin Profiles
         /\ \A p \in Profiles : stored[p] = Link => p = active
         /\ \A p : Holds(p) = Copies(p) /\ (Shown(p) <=> p = active)
BY HoldsCopies
DEF Unlocked, NoJob, Typed, Clean, JobOK, Linked, Shown, InSwitch, Renamed, SwitcherAssumption

\* A new profile, empty or about to take the live login.
LEMMA CleanNew ==
  ASSUME SwitcherAssumption, Typed, Clean, Unlocked, NEW p \in Profiles, p \notin dirs,
         NEW a \in Unowned,
         dirs' = dirs \cup {p}, owner' = [owner EXCEPT ![p] = a],
         backups' = [backups EXCEPT ![p] = << >>],
         UNCHANGED <<live, stored, active, newest, excused>>,
         \/ UNCHANGED job
         \/ /\ live \in Logins /\ live.account = a
            /\ job' = [op |-> "import", step |-> "backup", name |-> p, from |-> active,
                       data |-> live, absent |-> FALSE]
  PROVE  Clean'
<1>1. \A b : Latest(b)' = Latest(b) BY SameLatest
<1>2. /\ stored[p] = NoFile /\ a \in Accounts /\ \A q \in Profiles : owner[q] # a
      /\ p # active
  BY IdleFacts DEF Clean, Owned, Unowned
<1>3. /\ owner'[p] = a /\ backups'[p] = << >>
      /\ \A q \in Profiles : q # p => owner'[q] = owner[q] /\ backups'[q] = backups[q]
  BY DEF Typed
<1>4. \/ job'.op = "none" /\ job' = job
      \/ /\ job'.op = "import" /\ job'.step = "backup" /\ job'.name = p /\ job'.from = active
         /\ job'.data = live /\ live.account = a /\ live \in Logins
  BY IdleFacts
<1>5. /\ \A q \in Profiles : q # p => Holds(q)' = Holds(q)
      /\ Copies(p)' = {}
      /\ Holds(p)' = IF job'.op = "import" THEN {live} ELSE {}
  <2>1. Copies(p)' = {} BY <1>2, <1>3, NoBackups, Kinds DEF Copies
  <2>2. \A q \in Profiles : q # p => Copies(q)' = Copies(q) BY <1>3, CopiesSame
  <2>3. Holds(p)' = IF job'.op = "import" THEN {live} ELSE {}
    BY <1>4, <2>1 DEF Holds, Moving, Importing
  <2>4. \A q \in Profiles : q # p => Holds(q)' = Copies(q)'
    BY <1>4 DEF Holds, Moving, Importing
  <2>5. QED BY <2>1, <2>2, <2>3, <2>4, IdleFacts
<1>6. \A q : Shown(q)' <=> q = active \/ (job'.op = "import" /\ q = p)
  BY <1>4 DEF Shown, InSwitch, Renamed
<1>7. Owned'
  <2>1. \A q \in Profiles \ dirs' : stored'[q] = NoFile /\ owner'[q] = Nobody
    BY <1>3 DEF Clean, Owned
  <2>2. \A q \in dirs' : owner'[q] \in Accounts /\ \A f \in Holds(q)' : f.account = owner'[q]
    <3>1. TAKE q \in dirs'
    <3>2. CASE q = p BY <1>2, <1>3, <1>4, <1>5, <3>2
    <3>3. CASE q # p BY <1>3, <1>5, <3>1, <3>3 DEF Clean, Owned, Typed
    <3>4. QED BY <3>2, <3>3
  <2>3. \A q, r \in dirs' : owner'[q] = owner'[r] => q = r
    BY <1>2, <1>3 DEF Clean, Owned, Typed
  <2>4. QED BY <2>1, <2>2, <2>3 DEF Owned
<1>8. LiveNew' BY LiveNewKept
<1>9. Found' BY <1>1 DEF Clean, Found
<1>10. Current'
  <2>1. SUFFICES ASSUME NEW q \in dirs', NEW b \in Accounts \ excused, owner'[q] = b,
                        Holds(q)' # {}
                 PROVE  live = Latest(b) \/ (~Shown(q)' /\ stored[q] = Latest(b))
    BY <1>1 DEF Current
  <2>2. CASE q = p BY <1>3, <1>4, <1>5, <2>1, <2>2 DEF Clean, LiveNew
  <2>3. CASE q # p
    <3>1. q \in dirs /\ q \in Profiles BY <2>3, IdleFacts
    <3>2. owner[q] = b /\ Holds(q) # {} BY <1>3, <1>5, <2>1, <2>3, <3>1
    <3>3. Shown(q)' => Shown(q) BY <1>6, <2>3, IdleFacts
    <3>4. live = Latest(b) \/ (~Shown(q) /\ stored[q] = Latest(b))
      BY <3>1, <3>2 DEF Clean, Current
    <3>5. QED BY <3>3, <3>4
  <2>4. QED BY <2>2, <2>3
<1>11. Linked' BY <1>4, IdleFacts DEF Linked
<1>12. JobOK'
  <2>1. CASE job'.op = "none"
    BY <1>4, <2>1, IdleFacts DEF Clean, JobOK, SwitchOK, EnsureOK, ImportOK, RenameOK, RemoveOK
  <2>2. CASE job'.op = "import"
    BY <1>2, <1>4, <2>2, IdleFacts DEF JobOK, SwitchOK, EnsureOK, ImportOK, RenameOK, RemoveOK
  <2>3. QED BY <1>4, <2>1, <2>2
<1>13. Switching' BY <1>4 DEF Switching, InSwitch
<1>14. QED BY <1>7, <1>8, <1>9, <1>10, <1>11, <1>12, <1>13 DEF Clean

LEMMA CleanBegins ==
  ASSUME SwitcherAssumption, Typed, Clean,
         \/ \E n \in Profiles : SwitchCheck(n)
         \/ SetEnabled
         \/ \E p \in Profiles, a \in Unowned : Add(p, a)
         \/ \E p \in Profiles : ImportBegin(p)
         \/ EnsureBegin
  PROVE  Clean'
<1> USE DEF history, files
<1>1. CASE (\E n \in Profiles : SwitchCheck(n)) \/ SetEnabled
  BY <1>1, CleanSame DEF SwitchCheck, SetEnabled
<1>2. ASSUME NEW p \in Profiles, NEW a \in Unowned, Add(p, a) PROVE Clean'
  BY <1>2, CleanNew DEF Add
<1>3. ASSUME NEW p \in Profiles, ImportBegin(p) PROVE Clean'
  <2>1. /\ Unlocked /\ p \notin dirs /\ live \in Logins /\ live.account \in Unowned
        /\ dirs' = dirs \cup {p} /\ owner' = [owner EXCEPT ![p] = live.account]
        /\ backups' = [backups EXCEPT ![p] = << >>]
        /\ UNCHANGED <<live, stored, active, newest, excused>>
        /\ job' = [op |-> "import", step |-> "backup", name |-> p, from |-> active,
                   data |-> live, absent |-> FALSE]
    BY <1>3 DEF ImportBegin
  <2>2. \A a \in Unowned : live.account = a => Clean' BY <2>1, CleanNew
  <2>3. QED BY <2>1, <2>2
<1>4. CASE EnsureBegin
  <2>1. Unlocked /\ active \in dirs /\ stored[active] # Link
    BY <1>4 DEF EnsureBegin, LinkNeeded
  <2>2. UNCHANGED <<live, dirs, stored, backups, active, newest, owner, excused>>
    BY <1>4 DEF EnsureBegin
  <2>3. job'.op = "ensure" /\ job'.step = "keep" /\ job'.name = active
    BY <1>4 DEF EnsureBegin, NoJob
  <2>4. \A p : Holds(p)' = Holds(p) /\ (Shown(p)' <=> Shown(p))
    BY <2>1, <2>2, <2>3, IdleFacts, HoldsCopiesThen DEF Copies, Shown, InSwitch, Renamed
  <2>5. Owned' /\ LiveNew' /\ Found' /\ Current' BY <2>2, <2>4, FilesSame
  <2>6. Linked' BY <2>1, <2>2, <2>3, IdleFacts DEF Linked
  <2>7. JobOK' BY <2>1, <2>2, <2>3 DEF JobOK, SwitchOK, EnsureOK, ImportOK, RenameOK, RemoveOK
  <2>8. Switching' BY <2>3 DEF Switching, InSwitch
  <2>9. QED BY <2>5, <2>6, <2>7, <2>8 DEF Clean
<1>5. QED BY <1>1, <1>2, <1>3, <1>4

\* What an import knows.
LEMMA ImportFacts ==
  ASSUME SwitcherAssumption, Typed, Clean, job.op = "import"
  PROVE  /\ job \in Job /\ job.name \in dirs /\ dirs \subseteq Profiles /\ job.from = active
         /\ job.name # active /\ active \in dirs \cup {Nobody} /\ Nobody \notin Profiles
         /\ ImportOK /\ job.data \in Logins
         /\ \A p : Shown(p) <=> p = active \/ p = job.name
         /\ \A p : Holds(p) = Copies(p) \cup (IF p = job.name THEN {job.data} ELSE {})
         /\ \A p \in Profiles : stored[p] = Link =>
              p = job.name \/ (p = active /\ job.step # "point")
<1>1. \A p : Holds(p) = Copies(p) \cup (IF p = job.name THEN {job.data} ELSE {})
  BY DEF Holds, Moving, Importing
<1>2. \A p : Shown(p) <=> p = active \/ p = job.name BY DEF Shown, InSwitch, Renamed
<1>3. QED
  BY <1>1, <1>2
  DEF Typed, JobTyped, Clean, JobOK, ImportOK, Linked, Renamed, SwitcherAssumption

\* An import that goes on.
LEMMA ImportGoes ==
  ASSUME SwitcherAssumption, Typed, Clean, job.op = "import",
         NEW step \in {"adopt", "detach", "point"}, Goto(step), UNCHANGED active
  PROVE  /\ job'.op = "import" /\ job'.step = step /\ job'.name = job.name
         /\ job'.from = active /\ job'.data = job.data
         /\ \A p : Shown(p)' <=> Shown(p)
         /\ \A p : Holds(p)' = Copies(p)' \cup (IF p = job.name THEN {job.data} ELSE {})
         /\ UNCHANGED dirs /\ ImportOK' => JobOK'
         /\ Switching'
<1>1. /\ job'.op = "import" /\ job'.step = step /\ job'.name = job.name
      /\ job'.from = active /\ job'.data = job.data
  BY ImportFacts, JobGoes
<1>2. \A p : Shown(p)' <=> Shown(p) BY <1>1, ImportFacts DEF Shown, InSwitch, Renamed
<1>3. \A p : Holds(p)' = Copies(p)' \cup (IF p = job.name THEN {job.data} ELSE {})
  BY <1>1 DEF Holds, Moving, Importing
<1>4. UNCHANGED dirs /\ ImportOK' => JobOK'
  BY <1>1, ImportFacts DEF JobOK, SwitchOK, EnsureOK, RenameOK, RemoveOK
<1>5. Switching' BY <1>1 DEF Switching, InSwitch
<1>6. QED BY <1>1, <1>2, <1>3, <1>4, <1>5

\* An import that fails takes its profile with it; what the profile that was active kept
\* is in the live file.
LEMMA CleanGivenUp ==
  ASSUME SwitcherAssumption, Typed, Clean, job.op = "import", Done,
         dirs' = dirs \ {job.name}, owner' = [owner EXCEPT ![job.name] = Nobody],
         UNCHANGED <<live, active, newest, excused>>,
         stored'[job.name] = NoFile,
         \A p \in Profiles : p # job.name =>
           /\ stored'[p] = stored[p] \/ (p = active /\ stored'[p] = Link)
           /\ stored'[p] = Link => p = active
           /\ backups'[p] = backups[p]
  PROVE  Clean'
<1>1. \A b : Latest(b)' = Latest(b) BY SameLatest
<1>2. /\ owner'[job.name] = Nobody
      /\ \A p \in Profiles : p # job.name => owner'[p] = owner[p]
  BY ImportFacts DEF Typed
<1>3. \A p \in Profiles : p # job.name => Holds(p)' \subseteq Holds(p)
  <2>1. \A p \in Profiles : p # job.name => Copies(p)' \subseteq Copies(p)
    BY Kinds DEF Copies
  <2>2. QED BY <2>1, Ends, ImportFacts
<1>4. Owned'
  <2>1. \A p \in Profiles \ dirs' : stored'[p] = NoFile /\ owner'[p] = Nobody
    <3>1. TAKE p \in Profiles \ dirs'
    <3>2. CASE p = job.name BY <1>2, <3>2
    <3>3. CASE p # job.name
      <4>1. stored[p] = NoFile /\ owner[p] = Nobody /\ p \notin dirs
        BY <3>1, <3>3 DEF Clean, Owned
      <4>2. p # active BY <4>1, ImportFacts
      <4>3. QED BY <1>2, <3>1, <3>3, <4>1, <4>2
    <3>4. QED BY <3>2, <3>3
  <2>2. \A p \in dirs' : owner'[p] \in Accounts /\ \A f \in Holds(p)' : f.account = owner'[p]
    BY <1>2, <1>3, ImportFacts DEF Clean, Owned
  <2>3. \A p, q \in dirs' : owner'[p] = owner'[q] => p = q
    BY <1>2, ImportFacts DEF Clean, Owned
  <2>4. QED BY <2>1, <2>2, <2>3 DEF Owned
<1>5. LiveNew' BY LiveNewKept
<1>6. Found'
  <2>1. ASSUME NEW p \in Profiles, NEW a \in Accounts \ excused, stored[p] = Latest(a)
        PROVE  live = Latest(a) \/ stored'[p] = Latest(a)
    <3>1. CASE p = active \/ p = job.name
      <4>1. stored[p] \in Logins /\ stored[p].account = a BY <2>1, LatestIs
      <4>2. owner[p] = a BY <4>1, Keeper
      <4>3. Shown(p) BY <3>1, ImportFacts
      <4>4. QED BY <2>1, <4>1, <4>2, <4>3, ShownIsLive
    <3>2. CASE p # active /\ p # job.name BY <2>1, <3>2
    <3>3. QED BY <3>1, <3>2
  <2>2. QED BY <1>1, <2>1 DEF Clean, Found
<1>7. Current'
  <2>1. SUFFICES ASSUME NEW p \in dirs', NEW a \in Accounts \ excused, owner'[p] = a,
                        Holds(p)' # {}, live # Latest(a)
                 PROVE  p # active /\ stored'[p] = Latest(a)
    BY <1>1, Ends DEF Current
  <2>2. p \in dirs /\ p \in Profiles /\ p # job.name BY <2>1, ImportFacts
  <2>3. owner[p] = a /\ Holds(p) # {} BY <1>2, <1>3, <2>1, <2>2
  <2>4. ~Shown(p) /\ stored[p] = Latest(a) BY <2>1, <2>2, <2>3 DEF Clean, Current
  <2>5. QED BY <2>2, <2>4, ImportFacts
<1>8. Linked' BY Ends, Kinds
<1>9. active' \in dirs' \cup {Nobody} BY ImportFacts
<1>10. QED BY <1>4, <1>5, <1>6, <1>7, <1>8, <1>9, Ends DEF Clean

LEMMA GiveUpIs ==
  ASSUME SwitcherAssumption, Typed, Clean, job.op = "import", GiveUp,
         UNCHANGED <<live, backups, active, newest, excused>>
  PROVE  Clean'
<1>1. /\ stored'[job.name] = NoFile
      /\ \A p \in Profiles : p # job.name => stored'[p] = stored[p]
  BY ImportFacts DEF GiveUp, RemoveDir, Typed
<1>2. \A p \in Profiles : p # job.name /\ stored'[p] = Link => p = active
  BY <1>1, ImportFacts
<1>3. QED BY <1>1, <1>2, CleanGivenUp DEF GiveUp, RemoveDir

LEMMA CleanImportBackUp ==
  ASSUME SwitcherAssumption, Typed, Clean, ImportBackUp
  PROVE  Clean'
<1>0. job.op = "import" /\ job.step = "backup" BY DEF ImportBackUp, At
<1>1. UNCHANGED <<live, active, newest, excused>> BY DEF ImportBackUp
<1>2. CASE GiveUp /\ UNCHANGED backups BY <1>0, <1>1, <1>2, GiveUpIs
<1>3. ASSUME backups' = Backed(job.name, job.data), Goto("adopt"),
             UNCHANGED <<dirs, stored, owner>>
      PROVE  Clean'
  <2>1. /\ \A q \in Profiles : q # job.name => backups'[q] = backups[q]
        /\ \A q \in Profiles : q = job.name =>
             ToSet(backups'[q]) \subseteq ToSet(backups[q]) \cup {job.data}
    BY <1>0, <1>3, ImportFacts, BackUpAdds DEF Typed
  <2>2. \A p \in Profiles : Copies(p)' \subseteq Copies(p) \cup (IF p = job.name THEN {job.data} ELSE {})
    BY <1>3, <2>1 DEF Copies
  <2>3. \A p \in dirs : Holds(p)' \subseteq Holds(p) /\ (Shown(p)' => Shown(p))
    BY <1>0, <1>1, <1>3, <2>2, ImportFacts, ImportGoes
  <2>4. Owned' /\ LiveNew' /\ Found' /\ Current' BY <1>1, <1>3, <2>3, FilesSame
  <2>5. Linked' BY <1>0, <1>1, <1>3, ImportFacts, ImportGoes DEF Linked
  <2>6. ImportOK' BY <1>0, <1>1, <1>3, ImportFacts, ImportGoes DEF ImportOK
  <2>7. QED BY <1>0, <1>1, <1>3, <2>4, <2>5, <2>6, ImportGoes DEF Clean
<1>4. QED BY <1>2, <1>3 DEF ImportBackUp

LEMMA CleanImportLink ==
  ASSUME SwitcherAssumption, Typed, Clean, ImportLink
  PROVE  Clean'
<1>0. job.op = "import" /\ job.step = "adopt" /\ stored[job.name] = NoFile
  BY ImportFacts DEF ImportLink, At, ImportOK
<1>1. UNCHANGED <<live, backups, active, newest, excused>> BY DEF ImportLink
<1>2. CASE GiveUp BY <1>0, <1>1, <1>2, GiveUpIs
<1>3. ASSUME Goto("detach"), stored' = [stored EXCEPT ![job.name] = Link],
             UNCHANGED <<dirs, owner>>
      PROVE  Clean'
  <2>1. /\ stored'[job.name] = Link
        /\ \A p \in Profiles : p # job.name => stored'[p] = stored[p]
        /\ \A p \in Profiles : stored[p] \in Logins => stored'[p] = stored[p]
    BY <1>0, <1>3, ImportFacts, Kinds DEF Typed
  <2>2. \A p \in Profiles : Copies(p)' \subseteq Copies(p)
    BY <1>1, <2>1, Kinds DEF Copies
  <2>3. \A p \in dirs : Holds(p)' \subseteq Holds(p) /\ (Shown(p)' => Shown(p))
    BY <1>0, <1>1, <1>3, <2>2, ImportFacts, ImportGoes
  <2>4. Owned'
    <3>1. \A p \in Profiles \ dirs : stored'[p] = stored[p] BY <1>0, <2>1, ImportFacts
    <3>2. QED BY <1>3, <2>3, <3>1, OwnedKept
  <2>5. \A a : Latest(a)' = Latest(a) BY <1>1, SameLatest
  <2>6. LiveNew' BY <1>1, LiveNewKept
  <2>7. Found' BY <1>1, <2>1, <2>5, LatestIs DEF Clean, Found
  <2>8. Current'
    <3>1. SUFFICES ASSUME NEW p \in dirs, NEW a \in Accounts \ excused, owner[p] = a,
                          Holds(p) # {}, live # Latest(a)
                   PROVE  ~Shown(p)' /\ stored'[p] = Latest(a)
      BY <1>1, <1>3, <2>3, <2>5 DEF Current
    <3>2. ~Shown(p) /\ stored[p] = Latest(a) BY <3>1 DEF Clean, Current
    <3>3. QED BY <2>1, <2>3, <3>2, LatestIs, ImportFacts, <1>0
  <2>9. Linked' BY <1>0, <1>1, <1>3, <2>1, ImportFacts, ImportGoes DEF Linked
  <2>10. ImportOK' BY <1>0, <1>1, <1>3, <2>1, ImportFacts, ImportGoes DEF ImportOK
  <2>11. QED BY <1>0, <1>1, <1>3, <2>4, <2>6, <2>7, <2>8, <2>9, <2>10, ImportGoes DEF Clean
<1>4. QED BY <1>2, <1>3 DEF ImportLink

LEMMA CleanDetach ==
  ASSUME SwitcherAssumption, Typed, Clean, Detach
  PROVE  Clean'
<1>0. job.op = "import" /\ job.step = "detach" /\ stored[job.name] = Link
  BY ImportFacts DEF Detach, At, ImportOK
<1>1. UNCHANGED <<live, backups, active, newest, excused>> BY DEF Detach
<1>2. CASE GiveUp BY <1>0, <1>1, <1>2, GiveUpIs
<1>3. ASSUME Goto("point"), stored' = Detached(job.from), UNCHANGED <<dirs, owner>>
      PROVE  Clean'
  <2>1. /\ \A p \in Profiles : p # active => stored'[p] = stored[p]
        /\ \A p \in Profiles : p = active =>
             /\ stored[p] # Link => stored'[p] = stored[p]
             /\ stored'[p] # Link
             /\ stored'[p] \in Logins => stored'[p] \in Copies(p)
    <3>1. CASE active \notin Profiles BY <1>0, <1>3, <3>1, ImportFacts DEF Detached
    <3>2. CASE active \in Profiles /\ stored[active] # Link
      BY <1>0, <1>3, <3>2, ImportFacts DEF Detached, Copies
    <3>3. CASE active \in Profiles /\ stored[active] = Link
      <4>1. stored' = [stored EXCEPT ![active] =
                         IF backups[active] = << >> THEN NoFile ELSE Last(backups[active])]
        BY <1>0, <1>3, <3>3, ImportFacts DEF Detached
      <4>2. backups[active] # << >> =>
              /\ Last(backups[active]) \in Logins
              /\ Last(backups[active]) \in ToSet(backups[active])
        BY <3>3, LastBackup DEF Typed
      <4>3. stored'[active] = IF backups[active] = << >> THEN NoFile ELSE Last(backups[active])
        BY <3>3, <4>1 DEF Typed
      <4>4. \A p \in Profiles : p # active => stored'[p] = stored[p] BY <4>1 DEF Typed
      <4>5. QED BY <3>3, <4>2, <4>3, <4>4, Kinds DEF Copies
    <3>4. QED BY <3>1, <3>2, <3>3
  <2>2. \A p \in Profiles : Copies(p)' \subseteq Copies(p) BY <1>1, <2>1 DEF Copies
  <2>3. \A p \in dirs : Holds(p)' \subseteq Holds(p) /\ (Shown(p)' => Shown(p))
    BY <1>0, <1>1, <1>3, <2>2, ImportFacts, ImportGoes
  <2>4. Owned'
    <3>1. \A p \in Profiles \ dirs : stored'[p] = stored[p] BY <2>1, ImportFacts, <1>0
    <3>2. QED BY <1>3, <2>3, <3>1, OwnedKept
  <2>5. \A a : Latest(a)' = Latest(a) BY <1>1, SameLatest
  <2>6. LiveNew' BY <1>1, LiveNewKept
  <2>h. \A p \in Profiles : stored[p] \in Logins => stored'[p] = stored[p] BY <2>1, Kinds
  <2>7. Found' BY <1>1, <2>h, <2>5, LatestIs DEF Clean, Found
  <2>8. Current'
    <3>1. SUFFICES ASSUME NEW p \in dirs, NEW a \in Accounts \ excused, owner[p] = a,
                          Holds(p) # {}, live # Latest(a)
                   PROVE  ~Shown(p)' /\ stored'[p] = Latest(a)
      BY <1>1, <1>3, <2>3, <2>5 DEF Current
    <3>2. ~Shown(p) /\ stored[p] = Latest(a) BY <3>1 DEF Clean, Current
    <3>3. QED BY <2>h, <2>3, <3>2, LatestIs, ImportFacts, <1>0
  <2>9. Linked'
    <3>1. \A p \in Profiles : stored'[p] = Link => p = job.name
      BY <1>0, <2>1, ImportFacts
    <3>2. QED BY <1>0, <1>1, <1>3, <3>1, ImportGoes DEF Linked
  <2>10. ImportOK'
    <3>1. stored'[job.name] = Link BY <1>0, <2>1, ImportFacts
    <3>2. active # Nobody => stored'[active] # Link BY <1>0, <2>1, ImportFacts
    <3>3. QED BY <1>0, <1>1, <1>3, <3>1, <3>2, ImportFacts, ImportGoes DEF ImportOK
  <2>11. QED BY <1>0, <1>1, <1>3, <2>4, <2>6, <2>7, <2>8, <2>9, <2>10, ImportGoes DEF Clean
<1>4. QED BY <1>2, <1>3 DEF Detach

LEMMA CleanImportPoint ==
  ASSUME SwitcherAssumption, Typed, Clean, ImportPoint
  PROVE  Clean'
<1>0. /\ job.op = "import" /\ job.step = "point" /\ Done
      /\ job.name \in Profiles /\ UNCHANGED <<live, newest, excused>>
  BY ImportFacts DEF ImportPoint, At
<1>1. ASSUME active' = job.name, UNCHANGED <<dirs, stored, backups, owner>> PROVE Clean'
  <2>1. \A p : Copies(p)' = Copies(p) BY <1>1 DEF Copies
  <2>2. \A p \in dirs : Holds(p)' \subseteq Holds(p) /\ (Shown(p)' => Shown(p))
    BY <1>0, <1>1, <2>1, ImportFacts, Ends
  <2>3. Owned' /\ LiveNew' /\ Found' /\ Current' BY <1>0, <1>1, <2>2, FilesSame
  <2>4. Linked' BY <1>0, <1>1, ImportFacts, Ends
  <2>5. active' \in dirs' BY <1>0, <1>1, ImportFacts
  <2>6. QED BY <1>0, <2>3, <2>4, <2>5, Ends DEF Clean
<1>2. ASSUME UNCHANGED active, dirs' = dirs \ {job.name},
             stored' = [p \in Profiles |->
               CASE p = job.name -> NoFile
                 [] p = job.from /\ live # NoFile -> Link
                 [] OTHER -> stored[p]],
             backups' = [backups EXCEPT ![job.name] = << >>],
             owner' = [owner EXCEPT ![job.name] = Nobody]
      PROVE  Clean'
  <2>1. stored'[job.name] = NoFile BY <1>0, <1>2, ImportFacts
  <2>2. \A p \in Profiles : p # job.name =>
           /\ stored'[p] = stored[p] \/ (p = active /\ stored'[p] = Link)
           /\ backups'[p] = backups[p]
    BY <1>0, <1>2, ImportFacts DEF Typed
  <2>3. \A p \in Profiles : p # job.name /\ stored'[p] = Link => p = active
    BY <1>0, <2>2, ImportFacts
  <2>4. QED BY <1>0, <1>2, <2>1, <2>2, <2>3, CleanGivenUp
<1>3. QED BY <1>1, <1>2 DEF ImportPoint

LEMMA CleanRenameBegin ==
  ASSUME SwitcherAssumption, Typed, Clean, NEW p \in Profiles, NEW q \in Profiles,
         RenameBegin(p, q)
  PROVE  Clean'
<1>0. /\ Unlocked /\ p \in dirs /\ q \notin dirs /\ p # q
      /\ UNCHANGED <<live, active, newest, excused>>
      /\ dirs' = (dirs \ {p}) \cup {q}
  BY DEF RenameBegin
<1>1. \A b : Latest(b)' = Latest(b) BY <1>0, SameLatest
<1>2. job'.op = "rename" /\ job'.step = "move" /\ job'.name = q /\ job'.from = p
  BY DEF RenameBegin, NoJob
<1>3. /\ stored'[q] = stored[p] /\ stored'[p] = NoFile
      /\ owner'[q] = owner[p] /\ owner'[p] = Nobody
      /\ backups'[q] = << >> /\ backups'[p] = backups[p]
      /\ \A r \in Profiles : r # p /\ r # q =>
           stored'[r] = stored[r] /\ owner'[r] = owner[r] /\ backups'[r] = backups[r]
  BY <1>0 DEF RenameBegin, Typed
<1>4. q # active /\ stored[q] = NoFile /\ dirs \subseteq Profiles
  BY <1>0, IdleFacts DEF Clean, Owned
<1>5. Holds(q)' = Holds(p) /\ \A r \in Profiles : r # p /\ r # q => Holds(r)' = Holds(r)
  <2>1. Holds(q)' = Holds(p)
    <3>1. Copies(q)' \cup ToSet(backups'[p]) = Copies(p)
      <4>1. Copies(q)' = {stored[p]} \cap Logins BY <1>3, NoBackups DEF Copies
      <4>2. ToSet(backups[p]) \subseteq Logins BY DEF Typed, ToSet
      <4>3. QED BY <1>3, <4>1, <4>2 DEF Copies
    <3>2. Holds(q)' = Copies(q)' \cup ToSet(backups'[p])
      BY <1>2 DEF Holds, Moving, Importing
    <3>3. QED BY <1>0, <3>1, <3>2, IdleFacts
  <2>2. \A r \in Profiles : r # p /\ r # q => Copies(r)' = Copies(r)
    BY <1>3, CopiesSame
  <2>3. \A r \in Profiles : r # q => Holds(r)' = Copies(r)'
    BY <1>2 DEF Holds, Moving, Importing
  <2>4. QED BY <1>0, <2>1, <2>2, <2>3, IdleFacts
<1>6. /\ Shown(q)' <=> Shown(p)
      /\ \A r : r # q => (Shown(r)' <=> Shown(r))
  BY <1>0, <1>2, <1>4, IdleFacts DEF Shown, InSwitch, Renamed
<1>7. Owned'
  <2>1. \A r \in Profiles \ dirs' : stored'[r] = NoFile /\ owner'[r] = Nobody
    BY <1>0, <1>3 DEF Clean, Owned
  <2>2. ASSUME NEW r \in dirs'
        PROVE  owner'[r] \in Accounts /\ \A f \in Holds(r)' : f.account = owner'[r]
    <3>1. CASE r = q BY <1>0, <1>3, <1>5, <3>1 DEF Clean, Owned
    <3>2. CASE r # q
      <4>1. r \in dirs /\ r # p /\ r \in Profiles BY <1>0, <1>4, <2>2, <3>2
      <4>2. QED BY <1>3, <1>5, <3>2, <4>1 DEF Clean, Owned
    <3>3. QED BY <3>1, <3>2
  <2>3. \A r, s \in dirs' : owner'[r] = owner'[s] => r = s
    BY <1>0, <1>3, <1>4 DEF Clean, Owned
  <2>4. QED BY <2>1, <2>2, <2>3 DEF Owned
<1>8. LiveNew' BY <1>0, LiveNewKept
<1>9. Found'
  <2>1. ASSUME NEW r \in Profiles, NEW a \in Accounts, stored[r] = Latest(a)
        PROVE  \E s \in Profiles : stored'[s] = Latest(a)
    <3>1. CASE r = p BY <1>3, <2>1, <3>1
    <3>2. CASE r # p
      <4>1. r # q BY <1>4, <2>1, LatestIs, Kinds
      <4>2. QED BY <1>3, <2>1, <3>2, <4>1
    <3>3. QED BY <3>1, <3>2
  <2>2. QED BY <1>0, <1>1, <2>1 DEF Clean, Found
<1>10. Current'
  <2>1. SUFFICES ASSUME NEW r \in dirs', NEW a \in Accounts \ excused, owner'[r] = a,
                        Holds(r)' # {}, live # Latest(a)
                 PROVE  ~Shown(r)' /\ stored'[r] = Latest(a)
    BY <1>0, <1>1 DEF Current
  <2>2. CASE r = q
    <3>1. owner[p] = a /\ Holds(p) # {} BY <1>3, <1>5, <2>1, <2>2
    <3>2. ~Shown(p) /\ stored[p] = Latest(a) BY <1>0, <2>1, <3>1 DEF Clean, Current
    <3>3. QED BY <1>3, <1>6, <2>2, <3>2
  <2>3. CASE r # q
    <3>1. r \in dirs /\ r # p /\ r \in Profiles BY <1>0, <1>4, <2>1, <2>3
    <3>2. owner[r] = a /\ Holds(r) # {} BY <1>3, <1>5, <2>1, <2>3, <3>1
    <3>3. ~Shown(r) /\ stored[r] = Latest(a) BY <2>1, <3>1, <3>2 DEF Clean, Current
    <3>4. QED BY <1>3, <1>6, <2>3, <3>1, <3>3
  <2>4. QED BY <2>2, <2>3
<1>11. Linked'
  <2>1. SUFFICES ASSUME NEW r \in Profiles, stored'[r] = Link
                 PROVE  r = active \/ (active = p /\ r = q)
    BY <1>0, <1>2 DEF Linked, Renamed
  <2>2. QED BY <1>0, <1>3, <1>4, <2>1, IdleFacts, Kinds
<1>12. JobOK'
  <2>1. RenameOK' BY <1>0, <1>2, <1>3, <1>4, IdleFacts DEF RenameOK
  <2>2. QED BY <1>2, <2>1 DEF JobOK, SwitchOK, EnsureOK, ImportOK, RemoveOK
<1>13. Switching' BY <1>2 DEF Switching, InSwitch
<1>14. QED BY <1>7, <1>8, <1>9, <1>10, <1>11, <1>12, <1>13 DEF Clean

\* What a rename knows.
LEMMA RenameFacts ==
  ASSUME SwitcherAssumption, Typed, Clean, job.op = "rename"
  PROVE  /\ job \in Job /\ job.name \in dirs /\ dirs \subseteq Profiles
         /\ job.from \in Profiles /\ job.from \notin dirs /\ Nobody \notin Profiles
         /\ RenameOK /\ stored[job.from] = NoFile
         /\ \A p : Shown(p) <=> p = active \/ (active = job.from /\ p = job.name)
         /\ \A p \in Profiles : stored[p] = Link =>
              p = active \/ (active = job.from /\ p = job.name)
<1>1. \A p : Shown(p) <=> p = active \/ (active = job.from /\ p = job.name)
  BY DEF Shown, InSwitch, Renamed
<1>2. QED
  BY <1>1
  DEF Typed, JobTyped, Clean, Owned, JobOK, RenameOK, Linked, Renamed, SwitcherAssumption

LEMMA CleanMoveBackups ==
  ASSUME SwitcherAssumption, Typed, Clean, MoveBackups
  PROVE  Clean'
<1> USE DEF history
<1>0. /\ job.op = "rename" /\ job.step = "move" /\ backups[job.name] = << >>
      /\ UNCHANGED <<live, dirs, stored, active, newest, owner, excused>>
  BY RenameFacts DEF MoveBackups, At, RenameOK
<1>1. \A p \in dirs : /\ p # job.name => backups'[p] = backups[p]
                      /\ p = job.name => backups'[p] = backups[job.from]
  BY RenameFacts, <1>0 DEF MoveBackups, Typed
<1>2. \A p \in dirs : Copies(p)' \subseteq Holds(p)
  BY <1>0, <1>1 DEF Copies, Holds, Moving
<1>3. ASSUME active = job.from, Goto("copy") PROVE Clean'
  <2>1. job'.op = "rename" /\ job'.step = "copy" /\ job'.name = job.name /\ job'.from = job.from
    BY <1>0, <1>3, RenameFacts, JobGoes
  <2>2. \A p \in dirs : Holds(p)' \subseteq Holds(p) /\ (Shown(p)' => Shown(p))
    BY <1>0, <1>2, <2>1, RenameFacts DEF Holds, Moving, Importing, Shown, InSwitch, Renamed
  <2>3. Owned' /\ LiveNew' /\ Found' /\ Current' BY <1>0, <2>2, FilesSame
  <2>4. Linked' BY <1>0, <2>1, RenameFacts DEF Linked, Renamed
  <2>5. JobOK'
    <3>1. RenameOK' BY <1>0, <1>3, <2>1, RenameFacts DEF RenameOK
    <3>2. QED BY <2>1, <3>1 DEF JobOK, SwitchOK, EnsureOK, ImportOK, RemoveOK
  <2>6. Switching' BY <2>1 DEF Switching, InSwitch
  <2>7. QED BY <2>3, <2>4, <2>5, <2>6 DEF Clean
<1>4. ASSUME active # job.from, Done PROVE Clean'
  <2>1. \A p \in dirs : Holds(p)' \subseteq Holds(p) /\ (Shown(p)' => Shown(p))
    BY <1>0, <1>2, <1>4, RenameFacts, Ends
  <2>2. Owned' /\ LiveNew' /\ Found' /\ Current' BY <1>0, <2>1, FilesSame
  <2>3. active \in dirs \cup {Nobody} BY <1>0, <1>4, RenameFacts DEF RenameOK
  <2>4. QED BY <1>0, <1>4, <2>2, <2>3, RenameFacts, Ends DEF Clean
<1>5. QED BY <1>3, <1>4 DEF MoveBackups

LEMMA CleanBackUpRenamed ==
  ASSUME SwitcherAssumption, Typed, Clean, ~mixed', BackUpRenamed
  PROVE  Clean'
<1> USE DEF history
<1>0. /\ job.op = "rename" /\ job.step = "copy" /\ active = job.from /\ Goto("repoint")
      /\ UNCHANGED <<live, dirs, stored, active, newest, owner, excused>>
      /\ live \in Logins => live.account = owner[job.name]
  BY RenameFacts DEF BackUpRenamed, At, RenameOK
<1>1. job'.op = "rename" /\ job'.step = "repoint" /\ job'.name = job.name /\ job'.from = job.from
  BY <1>0, RenameFacts, JobGoes
<1>2. \A a : Latest(a)' = Latest(a) BY <1>0, SameLatest
<1>3. \A p \in Profiles :
        Copies(p)' \subseteq Copies(p) \cup (IF p = job.name THEN {live} \cap Logins ELSE {})
  <2>1. CASE UNCHANGED backups BY <1>0, <2>1 DEF Copies
  <2>2. CASE live \in Logins /\ backups' = Backed(job.name, live)
    <3>1. /\ \A q \in Profiles : q # job.name => backups'[q] = backups[q]
          /\ \A q \in Profiles : q = job.name =>
               ToSet(backups'[q]) \subseteq ToSet(backups[q]) \cup {live}
      BY <1>0, <2>2, RenameFacts, BackUpAdds DEF Typed
    <3>2. QED BY <1>0, <3>1 DEF Copies
  <2>3. QED BY <2>1, <2>2 DEF BackUpRenamed
<1>4. \A p : /\ Holds(p)' = Copies(p)' /\ Holds(p) = Copies(p)
             /\ Shown(p)' <=> Shown(p)
  BY <1>0, <1>1 DEF Holds, Moving, Importing, Shown, InSwitch, Renamed
<1>5. \A p \in dirs : \A f \in Holds(p)' : f \in Holds(p) \/ (p = job.name /\ f = live /\ live \in Logins)
  BY <1>3, <1>4, RenameFacts, <1>0
<1>6. Owned' BY <1>0, <1>5, OwnedKept
<1>7. LiveNew' BY <1>0, LiveNewKept
<1>8. Found' BY <1>0, <1>2 DEF Clean, Found
<1>9. Current'
  <2>1. SUFFICES ASSUME NEW p \in dirs, NEW a \in Accounts \ excused, owner[p] = a,
                        Holds(p)' # {}, live # Latest(a)
                 PROVE  ~Shown(p) /\ stored[p] = Latest(a)
    BY <1>0, <1>2, <1>4 DEF Current
  <2>2. Holds(p) # {}
    <3>1. ~(p = job.name /\ live \in Logins) BY <1>0, <2>1 DEF Clean, LiveNew
    <3>2. QED BY <1>5, <2>1, <3>1
  <2>3. QED BY <2>1, <2>2 DEF Clean, Current
<1>10. Linked' BY <1>0, <1>1, RenameFacts DEF Linked, Renamed
<1>11. JobOK'
  <2>1. RenameOK' BY <1>0, <1>1, RenameFacts DEF RenameOK
  <2>2. QED BY <1>1, <2>1 DEF JobOK, SwitchOK, EnsureOK, ImportOK, RemoveOK
<1>12. Switching' BY <1>1 DEF Switching, InSwitch
<1>13. QED BY <1>6, <1>7, <1>8, <1>9, <1>10, <1>11, <1>12 DEF Clean

LEMMA CleanRepoint ==
  ASSUME SwitcherAssumption, Typed, Clean, ~mixed', Repoint
  PROVE  Clean'
<1> USE DEF history
<1>0. /\ job.op = "rename" /\ job.step = "repoint" /\ active = job.from /\ Done
      /\ UNCHANGED <<live, dirs, stored, backups, newest, owner, excused>>
      /\ active' = job.name
  BY RenameFacts DEF Repoint, At, RenameOK
<1>1. \A p : Copies(p)' = Copies(p) BY <1>0 DEF Copies
<1>2. \A p \in dirs : Holds(p)' \subseteq Holds(p) /\ (Shown(p)' => Shown(p))
  BY <1>0, <1>1, RenameFacts, Ends, HoldsMore
<1>3. Owned' /\ LiveNew' /\ Found' /\ Current' BY <1>0, <1>2, FilesSame
<1>4. \A p \in Profiles : stored[p] = Link => p = job.name
  BY <1>0, RenameFacts, Kinds
<1>5. QED BY <1>0, <1>3, <1>4, RenameFacts, Ends DEF Clean

LEMMA CleanRemoveBegin ==
  ASSUME SwitcherAssumption, Typed, Clean, NEW p \in Profiles, RemoveBegin(p)
  PROVE  Clean'
<1>0. /\ Unlocked /\ p \in dirs /\ dirs' = dirs \ {p}
      /\ UNCHANGED <<live, backups, active, newest>> /\ excused \subseteq excused'
      /\ \A f \in Copies(p) : f.account \in excused'
      /\ active = p /\ live \in Logins => live.account \in excused'
  BY DEF RemoveBegin, RemoveDir
<1>1. \A b : Latest(b)' = Latest(b) BY <1>0, SameLatest
<1>2. /\ job'.op = "remove" /\ job'.step = "purge" /\ job'.name = p
      /\ job'.from = IF active = p THEN p ELSE Nobody
  BY DEF RemoveBegin, NoJob
<1>3. /\ stored'[p] = NoFile /\ owner'[p] = Nobody
      /\ \A r \in Profiles : r # p => stored'[r] = stored[r] /\ owner'[r] = owner[r]
  BY DEF RemoveBegin, RemoveDir, Typed
<1>4. \A r \in Profiles : r # p => Holds(r)' = Holds(r)
  <2>1. \A r \in Profiles : r # p => Copies(r)' = Copies(r) BY <1>0, <1>3, CopiesSame
  <2>2. QED BY <1>0, <1>2, <2>1, IdleFacts, HoldsCopiesThen
<1>5. \A r : Shown(r)' <=> Shown(r) BY <1>0, <1>2, IdleFacts DEF Shown, InSwitch, Renamed
<1>6. Owned'
  <2>1. \A r \in Profiles \ dirs' : stored'[r] = NoFile /\ owner'[r] = Nobody
    BY <1>0, <1>3 DEF Clean, Owned
  <2>2. \A r \in dirs' : owner'[r] \in Accounts /\ \A f \in Holds(r)' : f.account = owner'[r]
    BY <1>0, <1>3, <1>4, IdleFacts DEF Clean, Owned
  <2>3. \A r, s \in dirs' : owner'[r] = owner'[s] => r = s
    BY <1>0, <1>3, IdleFacts DEF Clean, Owned
  <2>4. QED BY <2>1, <2>2, <2>3 DEF Owned
<1>7. LiveNew' BY <1>0, LiveNewKept
<1>8. Found'
  <2>1. ASSUME NEW r \in Profiles, NEW a \in Accounts \ excused', stored[r] = Latest(a)
        PROVE  stored'[r] = Latest(a)
    <3>1. stored[r] \in Logins /\ stored[r].account = a BY <2>1, LatestIs
    <3>2. r = p => stored[r] \in Copies(p) BY <3>1 DEF Copies
    <3>3. r # p BY <1>0, <2>1, <3>1, <3>2
    <3>4. QED BY <1>3, <2>1, <3>3
  <2>2. QED BY <1>0, <1>1, <2>1 DEF Clean, Found
<1>9. Current'
  <2>1. SUFFICES ASSUME NEW r \in dirs', NEW a \in Accounts \ excused', owner'[r] = a,
                        Holds(r)' # {}, live # Latest(a)
                 PROVE  ~Shown(r)' /\ stored'[r] = Latest(a)
    BY <1>0, <1>1 DEF Current
  <2>2. r \in dirs /\ r # p /\ r \in Profiles BY <1>0, <2>1, IdleFacts
  <2>3. owner[r] = a /\ Holds(r) # {} /\ a \in Accounts \ excused BY <1>0, <1>3, <1>4, <2>1, <2>2
  <2>4. ~Shown(r) /\ stored[r] = Latest(a) BY <2>1, <2>2, <2>3 DEF Clean, Current
  <2>5. QED BY <1>3, <1>5, <2>2, <2>4
<1>10. Linked' BY <1>0, <1>2, <1>3, IdleFacts, Kinds DEF Linked
<1>11. JobOK'
  <2>1. RemoveOK' BY <1>0, <1>2, IdleFacts DEF RemoveOK
  <2>2. QED BY <1>2, <2>1 DEF JobOK, SwitchOK, EnsureOK, ImportOK, RenameOK
<1>12. Switching' BY <1>2 DEF Switching, InSwitch
<1>13. QED BY <1>6, <1>7, <1>8, <1>9, <1>10, <1>11, <1>12 DEF Clean

\* What a removal knows.
LEMMA RemoveFacts ==
  ASSUME SwitcherAssumption, Typed, Clean, job.op = "remove"
  PROVE  /\ job \in Job /\ job.name \in Profiles /\ job.name \notin dirs
         /\ dirs \subseteq Profiles /\ Nobody \notin Profiles
         /\ RemoveOK /\ stored[job.name] = NoFile
         /\ \A p \in Profiles : stored[p] = Link => p = active
         /\ \A p : Holds(p) = Copies(p) /\ (Shown(p) <=> p = active)
BY HoldsCopies
DEF Typed, JobTyped, Clean, Owned, JobOK, RemoveOK, Linked, Shown, InSwitch, Renamed,
    SwitcherAssumption

\* A removal that goes on with the active profile.
LEMMA RemoveGoes ==
  ASSUME SwitcherAssumption, Typed, Clean, job.op = "remove", job.from # Nobody,
         NEW step \in {"logout", "unpoint"}, Goto(step),
         UNCHANGED <<dirs, stored, active, newest, owner, excused>>,
         UNCHANGED live \/ live' = NoFile,
         \A p \in Profiles : p # job.name => backups'[p] = backups[p]
  PROVE  Clean'
<1>1. job'.op = "remove" /\ job'.step = step /\ job'.name = job.name /\ job'.from = job.from
  BY RemoveFacts, JobGoes
<1>2. \A a : Latest(a)' = Latest(a) BY SameLatest
<1>3. \A p \in dirs : Holds(p)' = Holds(p) /\ (Shown(p)' <=> Shown(p))
  <2>1. \A p \in dirs : Copies(p)' = Copies(p) BY RemoveFacts, CopiesSame
  <2>2. \A p : Shown(p)' <=> p = active BY <1>1 DEF Shown, InSwitch, Renamed
  <2>3. QED BY <1>1, <2>1, <2>2, RemoveFacts, HoldsCopiesThen
<1>4. \A a \in Accounts \ excused : live # Latest(a)
  BY RemoveFacts, LatestIs DEF RemoveOK
<1>5. Owned' BY <1>3, OwnedKept
<1>6. LiveNew' BY <1>2, Kinds DEF Clean, LiveNew
<1>7. Found' BY <1>2, <1>4 DEF Clean, Found
<1>8. Current' BY <1>2, <1>3, <1>4 DEF Clean, Current
<1>9. Linked' BY <1>1, RemoveFacts DEF Linked
<1>10. JobOK'
  <2>1. RemoveOK' BY <1>1, RemoveFacts, Kinds DEF RemoveOK
  <2>2. QED BY <1>1, <2>1 DEF JobOK, SwitchOK, EnsureOK, ImportOK, RenameOK
<1>11. Switching' BY <1>1 DEF Switching, InSwitch
<1>12. QED BY <1>5, <1>6, <1>7, <1>8, <1>9, <1>10, <1>11 DEF Clean

LEMMA CleanRemoval ==
  ASSUME SwitcherAssumption, Typed, Clean, ~mixed', Purge \/ RemoveLive \/ Unpoint
  PROVE  Clean'
<1> USE DEF history
<1>1. CASE Purge
  <2>1. /\ job.op = "remove" /\ job.name \in Profiles
        /\ UNCHANGED <<live, dirs, stored, active, newest, owner, excused>>
    BY <1>1, RemoveFacts DEF Purge, At
  <2>2. \A p \in Profiles : p # job.name => backups'[p] = backups[p]
    BY <1>1, <2>1 DEF Purge, Typed
  <2>3. CASE job.from # Nobody /\ Goto("logout") BY <2>1, <2>2, <2>3, RemoveGoes
  <2>4. CASE job.from = Nobody /\ Done
    <3>1. \A p \in dirs : Copies(p)' = Copies(p) BY <2>1, <2>2, RemoveFacts, CopiesSame
    <3>2. \A p \in dirs : Holds(p)' \subseteq Holds(p) /\ (Shown(p)' => Shown(p))
      BY <2>1, <2>4, <3>1, RemoveFacts, Ends
    <3>3. Owned' /\ LiveNew' /\ Found' /\ Current' BY <2>1, <3>2, FilesSame
    <3>4. active \in dirs \cup {Nobody} BY <2>1, <2>4, RemoveFacts DEF RemoveOK
    <3>5. QED BY <2>1, <2>4, <3>3, <3>4, RemoveFacts, Ends DEF Clean
  <2>5. QED BY <1>1, <2>3, <2>4 DEF Purge
<1>2. CASE RemoveLive
  <2>1. /\ job.op = "remove" /\ job.step = "logout" /\ Goto("unpoint")
        /\ UNCHANGED <<dirs, stored, backups, active, newest, owner, excused>>
        /\ UNCHANGED live \/ live' = NoFile
    BY <1>2 DEF RemoveLive, At
  <2>2. job.from # Nobody BY <2>1, RemoveFacts DEF RemoveOK
  <2>3. QED BY <2>1, <2>2, RemoveGoes
<1>3. CASE Unpoint
  <2>1. /\ job.op = "remove" /\ job.step = "unpoint" /\ Done /\ active' = Nobody
        /\ UNCHANGED <<live, dirs, stored, backups, newest, owner, excused>>
    BY <1>3 DEF Unpoint, At
  <2>2. active = job.name BY <2>1, RemoveFacts DEF RemoveOK
  <2>3. \A p : Copies(p)' = Copies(p) BY <2>1 DEF Copies
  <2>4. \A p \in dirs : Holds(p)' \subseteq Holds(p) /\ (Shown(p)' => Shown(p))
    BY <2>1, <2>3, RemoveFacts, Ends
  <2>5. Owned' /\ LiveNew' /\ Found' /\ Current' BY <2>1, <2>4, FilesSame
  <2>6. \A p \in Profiles : stored[p] # Link BY <2>1, <2>2, RemoveFacts, Kinds
  <2>7. QED BY <2>1, <2>5, <2>6, Ends DEF Clean
<1>4. QED BY <1>1, <1>2, <1>3

-----------------------------------------------------------------------------
(* The harness, the user and the end of a process.                         *)

\* Steps that only touch the live file leave the profiles and the operation alone.
LEMMA LiveOnly ==
  ASSUME Clean, UNCHANGED <<dirs, stored, backups, active, owner, job>>,
         job.op = "remove" /\ job.from # Nobody /\ live' \in Logins => live'.account \in excused'
  PROVE  /\ Owned' /\ JobOK' /\ Linked'
         /\ \A p : Holds(p)' = Holds(p) /\ (Shown(p)' <=> Shown(p))
         /\ InSwitch' <=> InSwitch
<1>1. \A p : /\ Holds(p)' = Holds(p)
             /\ Shown(p)' <=> Shown(p)
             /\ Renamed(p)' <=> Renamed(p)
  BY DEF Holds, Copies, Moving, Importing, Shown, InSwitch, Renamed
<1>2. Owned' BY <1>1 DEF Clean, Owned
<1>3. JobOK' BY DEF Clean, JobOK, SwitchOK, EnsureOK, ImportOK, RenameOK, RemoveOK
<1>4. Linked' BY <1>1 DEF Clean, Linked
<1>5. QED BY <1>1, <1>2, <1>3, <1>4 DEF InSwitch

\* A switch whose live file is written by somebody else knows what it can still count on.
LEMMA OvertakenSwitch ==
  ASSUME Clean, UNCHANGED <<dirs, stored, backups, active, owner, job>>,
         InSwitch => /\ excused \subseteq excused'
                     /\ live \in Logins => live.account \in excused'
                     /\ live' \in Logins => live'.account \in excused'
  PROVE  Switching'
<1>1. \A p : Holds(p)' = Holds(p) BY DEF Holds, Copies, Moving, Importing
<1>2. SUFFICES ASSUME InSwitch PROVE Switching' BY DEF Switching, InSwitch
<1>3. \A p \in dirs : p = job.from /\ job.absent /\ Holds(p)' # {} => owner[p] \in excused'
  BY <1>1, <1>2 DEF Clean, Switching
<1>4. job.step # "state" /\ job.data \in Logins => job.data.account \in excused'
  BY <1>2 DEF Clean, Switching, Counts
<1>5. QED BY <1>2, <1>3, <1>4 DEF Switching, Counts

LEMMA CleanRotate ==
  ASSUME SwitcherAssumption, Typed, Clean, Rotate
  PROVE  Clean'
<1> DEFINE b == live.account
<1>0. /\ live \in Logins /\ live.gen = newest[b] /\ b \in Accounts
      /\ live' = [live EXCEPT !.gen = @ + 1]
      /\ newest' = [newest EXCEPT ![b] = @ + 1]
      /\ excused' = IF Overtaken THEN excused \cup {b} ELSE excused
      /\ UNCHANGED <<dirs, stored, backups, active, job, owner>>
  BY LatestLogin DEF Rotate
<1>1. /\ newest'[b] = live.gen + 1
      /\ \A a \in Accounts : a # b => newest'[a] = newest[a]
  BY <1>0 DEF Typed
<1>2. live = [is |-> "login", account |-> b, gen |-> live.gen] BY <1>0 DEF Logins
<1>3. live' = [is |-> "login", account |-> b, gen |-> live.gen + 1]
  BY <1>0, <1>2
<1> HIDE DEF b
<1>4. /\ \A a : a = b => live' = Latest(a)'
      /\ \A a \in Accounts : a # b => Latest(a)' = Latest(a)
      /\ live'.account = b
  BY <1>1, <1>3 DEF Latest
<1>5. \A a \in Accounts \ excused : a # b => live # Latest(a) BY LatestIs DEF b
<1>6. excused \subseteq excused' /\ (Overtaken => b \in excused') BY <1>0
<1>7. /\ Owned' /\ JobOK' /\ Linked'
      /\ \A p : Holds(p)' = Holds(p) /\ (Shown(p)' <=> Shown(p))
  BY <1>0, <1>4, <1>6, LiveOnly DEF Overtaken
<1>8. LiveNew' BY <1>4 DEF LiveNew
<1>9. Found'
  <2>1. SUFFICES ASSUME NEW a \in Accounts \ excused, newest'[a] > 0
                 PROVE  live' = Latest(a)' \/ \E p \in Profiles : stored[p] = Latest(a)'
    BY <1>0, <1>6 DEF Found
  <2>2. CASE a = b BY <1>4, <2>2
  <2>3. CASE a # b BY <1>1, <1>4, <1>5, <2>1, <2>3 DEF Clean, Found
  <2>4. QED BY <2>2, <2>3
<1>10. Current'
  <2>1. SUFFICES ASSUME NEW p \in dirs, NEW a \in Accounts \ excused, owner[p] = a,
                        Holds(p) # {}
                 PROVE  live' = Latest(a)' \/ (~Shown(p) /\ stored[p] = Latest(a)')
    BY <1>0, <1>6, <1>7 DEF Current
  <2>2. CASE a = b BY <1>4, <2>2
  <2>3. CASE a # b BY <1>4, <1>5, <2>1, <2>3 DEF Clean, Current
  <2>4. QED BY <2>2, <2>3
<1>11. Switching'
  <2>1. InSwitch => Overtaken BY DEF InSwitch, Overtaken
  <2>2. QED BY <1>0, <1>4, <1>6, <2>1, OvertakenSwitch DEF b
<1>12. QED BY <1>7, <1>8, <1>9, <1>10, <1>11 DEF Clean

LEMMA CleanLogIn ==
  ASSUME SwitcherAssumption, Typed, Clean, NEW b \in Accounts, LogIn(b)
  PROVE  Clean'
<1>0. /\ live' = [is |-> "login", account |-> b, gen |-> newest[b] + 1]
      /\ newest' = [newest EXCEPT ![b] = @ + 1]
      /\ UNCHANGED <<dirs, stored, backups, active, job, owner>>
      /\ \A a : a # b /\ a \in excused => a \in excused'
      /\ Overtaken => excused \subseteq excused' /\ b \in excused'
      /\ live \in Logins /\ live.account # b => live.account \in excused'
  BY DEF LogIn
<1>1. /\ newest'[b] = newest[b] + 1
      /\ \A a \in Accounts : a # b => newest'[a] = newest[a]
  BY <1>0 DEF Typed
<1>4. /\ \A a : a = b => live' = Latest(a)'
      /\ \A a \in Accounts : a # b => Latest(a)' = Latest(a)
      /\ live'.account = b
  BY <1>0, <1>1 DEF Latest
<1>5. \A a \in Accounts \ excused' : a # b => live # Latest(a) /\ a \in Accounts \ excused
  BY <1>0, LatestIs
<1>7. /\ Owned' /\ JobOK' /\ Linked'
      /\ \A p : Holds(p)' = Holds(p) /\ (Shown(p)' <=> Shown(p))
  BY <1>0, <1>4, LiveOnly DEF Overtaken
<1>8. LiveNew' BY <1>4 DEF LiveNew
<1>9. Found'
  <2>1. SUFFICES ASSUME NEW a \in Accounts \ excused', newest'[a] > 0
                 PROVE  live' = Latest(a)' \/ \E p \in Profiles : stored[p] = Latest(a)'
    BY <1>0 DEF Found
  <2>2. CASE a = b BY <1>4, <2>2
  <2>3. CASE a # b BY <1>1, <1>4, <1>5, <2>1, <2>3 DEF Clean, Found
  <2>4. QED BY <2>2, <2>3
<1>10. Current'
  <2>1. SUFFICES ASSUME NEW p \in dirs, NEW a \in Accounts \ excused', owner[p] = a,
                        Holds(p) # {}
                 PROVE  live' = Latest(a)' \/ (~Shown(p) /\ stored[p] = Latest(a)')
    BY <1>0, <1>7 DEF Current
  <2>2. CASE a = b BY <1>4, <2>2
  <2>3. CASE a # b BY <1>4, <1>5, <2>1, <2>3 DEF Clean, Current
  <2>4. QED BY <2>2, <2>3
<1>11. Switching'
  <2>1. InSwitch => Overtaken BY DEF InSwitch, Overtaken
  <2>2. QED BY <1>0, <1>4, <2>1, OvertakenSwitch
<1>12. QED BY <1>7, <1>8, <1>9, <1>10, <1>11 DEF Clean

LEMMA CleanLoseLive ==
  ASSUME SwitcherAssumption, Typed, Clean, NEW f \in {NoFile, Corrupt}, LoseLive(f)
  PROVE  Clean'
<1>0. /\ live \in Logins /\ live' = f /\ live' \notin Logins
      /\ excused' = excused \cup {live.account}
      /\ UNCHANGED <<dirs, stored, backups, active, newest, job, owner>>
  BY Kinds DEF LoseLive
<1>1. \A a : Latest(a)' = Latest(a) BY <1>0, SameLatest
<1>2. \A a \in Accounts \ excused' : live # Latest(a) BY <1>0, LatestIs
<1>3. /\ Owned' /\ JobOK' /\ Linked'
      /\ \A p : Holds(p)' = Holds(p) /\ (Shown(p)' <=> Shown(p))
  BY <1>0, LiveOnly
<1>4. LiveNew' BY <1>0 DEF LiveNew
<1>5. Found' BY <1>0, <1>1, <1>2 DEF Clean, Found
<1>6. Current' BY <1>0, <1>1, <1>2, <1>3 DEF Clean, Current
<1>7. Switching' BY <1>0, OvertakenSwitch
<1>8. QED BY <1>3, <1>4, <1>5, <1>6, <1>7 DEF Clean

\* Only a process killed while the pointer and the live file disagree leaves them so.
LEMMA CleanKill ==
  ASSUME SwitcherAssumption, Typed, Clean, ~mixed', Kill
  PROVE  Clean'
<1> USE DEF history, files
<1>0. /\ ~Halfway /\ Done
      /\ UNCHANGED <<live, dirs, stored, backups, active, newest, owner, excused>>
  BY DEF Kill
<1>1. \A p : Copies(p)' = Copies(p) BY <1>0 DEF Copies
<1>2. \A p \in dirs : Holds(p)' \subseteq Holds(p) BY <1>0, <1>1, Ends, HoldsMore
<1>3. active \in dirs \cup {Nobody}
  BY <1>0 DEF Clean, JobOK, RenameOK, RemoveOK, Halfway
<1>4. \A p \in dirs : p = active => Shown(p)
  <2>1. InSwitch => active = job.from /\ job.step # "state"
    BY <1>0 DEF Clean, JobOK, SwitchOK, InSwitch, Halfway
  <2>2. QED BY <2>1 DEF Shown
<1>5. Owned' /\ LiveNew' /\ Found' /\ Current' BY <1>0, <1>2, <1>4, Ends, FilesSame
<1>6. \A p \in Profiles : stored[p] = Link => p = active
  <2>1. job.op = "import" => stored[job.name] # Link
    BY <1>0, Kinds DEF Clean, JobOK, ImportOK, Halfway
  <2>2. \A p : ~Renamed(p) BY <1>0 DEF Clean, JobOK, RenameOK, Renamed, Halfway
  <2>3. QED BY <2>1, <2>2 DEF Clean, Linked
<1>7. QED BY <1>0, <1>3, <1>5, <1>6, Ends DEF Clean

-----------------------------------------------------------------------------
(* Every behaviour.                                                        *)

LEMMA CleanInit == SwitcherAssumption /\ Init => Clean
<1> SUFFICES ASSUME SwitcherAssumption, Init PROVE Clean OBVIOUS
<1>1. job.op = "none" /\ job = NoJob /\ live = NoFile /\ dirs = {} /\ active = Nobody
  BY DEF Init, NoJob
<1>2. \A p \in Profiles : stored[p] = NoFile /\ owner[p] = Nobody BY DEF Init
<1>3. \A a \in Accounts : newest[a] = 0 BY DEF Init
<1>4. Owned BY <1>1, <1>2 DEF Owned
<1>5. JobOK BY <1>1 DEF JobOK, SwitchOK, EnsureOK, ImportOK, RenameOK, RemoveOK
<1>6. Linked BY <1>2, Kinds DEF Linked
<1>7. LiveNew BY <1>1, Kinds DEF LiveNew
<1>8. Found BY <1>3 DEF Found
<1>9. Current BY <1>1 DEF Current
<1>10. Switching BY <1>1 DEF Switching, InSwitch
<1>11. QED BY <1>4, <1>5, <1>6, <1>7, <1>8, <1>9, <1>10 DEF Clean

\* The accidents are remembered.
LEMMA MixedStays == [Next]_vars => (mixed => mixed')
<1> USE DEF history
<1>1. CASE Steps
  BY <1>1 DEF Steps, SwitchSteps, OtherSteps, Capture, BackUp, Place, PointToEmpty, ClearLive,
    Restore, SaveState, KeepStored, LinkIn, Relink, ImportBackUp, ImportLink, Detach, ImportPoint,
    MoveBackups, BackUpRenamed, Repoint, Purge, RemoveLive, Unpoint
<1>2. ASSUME NEW s \in checked, SwitchBegin(s) PROVE mixed => mixed'
  BY <1>2 DEF SwitchBegin
<1>3. CASE \/ \E n \in Profiles : SwitchCheck(n)
           \/ SetEnabled
           \/ \E p \in Profiles, a \in Unowned : Add(p, a)
           \/ \E p \in Profiles : ImportBegin(p)
           \/ \E p, q \in Profiles : RenameBegin(p, q)
           \/ \E p \in Profiles : RemoveBegin(p)
           \/ EnsureBegin
  BY <1>3 DEF SwitchCheck, SetEnabled, Add, ImportBegin, RenameBegin, RemoveBegin, EnsureBegin
<1>4. CASE \/ Rotate \/ \E a \in Accounts : LogIn(a)
           \/ \E f \in {NoFile, Corrupt} : LoseLive(f)
           \/ Kill
  BY <1>4 DEF Rotate, LogIn, LoseLive, Kill
<1>5. CASE UNCHANGED vars BY <1>5 DEF vars
<1>6. QED BY <1>1, <1>2, <1>3, <1>4, <1>5 DEF Next

LEMMA CleanStep ==
  ASSUME SwitcherAssumption, Typed, Clean, [Next]_vars, ~mixed'
  PROVE  Clean'
<1>1. CASE SwitchSteps
  BY <1>1, CleanCapture, CleanBackUp, CleanPlace, CleanPointToEmpty, CleanClearLive, CleanRestore,
    CleanSaveState, CleanKeepStored, CleanLinkIn, CleanRelink DEF SwitchSteps
<1>2. CASE OtherSteps
  BY <1>2, CleanImportBackUp, CleanImportLink, CleanDetach, CleanImportPoint, CleanMoveBackups,
    CleanBackUpRenamed, CleanRepoint, CleanRemoval DEF OtherSteps
<1>3. CASE \/ \E n \in Profiles : SwitchCheck(n)
           \/ SetEnabled
           \/ \E p \in Profiles, a \in Unowned : Add(p, a)
           \/ \E p \in Profiles : ImportBegin(p)
           \/ EnsureBegin
  BY <1>3, CleanBegins
<1>4. ASSUME NEW s \in checked, SwitchBegin(s) PROVE Clean'
  BY <1>4, CleanSwitchBegin
<1>5. ASSUME NEW p \in Profiles, NEW q \in Profiles, RenameBegin(p, q) PROVE Clean'
  BY <1>5, CleanRenameBegin
<1>6. ASSUME NEW p \in Profiles, RemoveBegin(p) PROVE Clean'
  BY <1>6, CleanRemoveBegin
<1>7. ASSUME NEW a \in Accounts, LogIn(a) PROVE Clean'
  BY <1>7, CleanLogIn
<1>8. ASSUME NEW f \in {NoFile, Corrupt}, LoseLive(f) PROVE Clean'
  BY <1>8, CleanLoseLive
<1>9. CASE Rotate BY <1>9, CleanRotate
<1>10. CASE Kill BY <1>10, CleanKill
<1>11. CASE UNCHANGED vars BY <1>11, CleanSame DEF vars, files, history
<1>12. QED
  BY <1>1, <1>2, <1>3, <1>4, <1>5, <1>6, <1>7, <1>8, <1>9, <1>10, <1>11 DEF Next, Steps

\* What the invariant says of the promise.
LEMMA CleanKeeps ==
  ASSUME SwitcherAssumption, Typed, Clean
  PROVE  LoginsKept
<1>1. LoginKept
  <2> SUFFICES ASSUME NEW a \in Accounts, newest[a] > 0, a \notin excused PROVE Kept(a)
    BY DEF LoginKept
  <2>1. live = Latest(a) \/ \E p \in Profiles : stored[p] = Latest(a) BY DEF Clean, Found
  <2>2. CASE live = Latest(a) BY <2>2 DEF Kept, Latest
  <2>3. ASSUME NEW p \in Profiles, stored[p] = Latest(a) PROVE Kept(a)
    <3>1. stored[p] \in Copies(p) BY <2>3, LatestIs DEF Copies
    <3>2. QED BY <2>3, <3>1 DEF Kept, Latest
  <2>4. QED BY <2>1, <2>2, <2>3
<1>2. OwnAccountOnly BY DEF OwnAccountOnly, Clean, Owned, Holds
<1>3. OnlyActiveLinked
  <2> SUFFICES ASSUME Unlocked, NEW p \in Profiles, stored[p] = Link PROVE p = active
    BY DEF OnlyActiveLinked
  <2>1. job.op = "none" BY DEF Unlocked, NoJob
  <2>2. QED BY <2>1 DEF Clean, Linked, Renamed
<1>4. QED BY <1>1, <1>2, <1>3 DEF LoginsKept

\* Whatever write fails and wherever a process is killed, for any number of profiles,
\* accounts and rotations: as long as none of the accidents that leave the live file and
\* the pointer apart has happened, the newest login of every account is in the live file,
\* in a profile or in a backup unless it was given up, a profile keeps logins of its own
\* account only, and between operations only the active one follows the live file
\* (switch.go:204, 290).
THEOREM LoginsStay == Spec => [](mixed \/ LoginsKept)
<1>1. Init => SwitcherInv BY SwitcherAssumption, TypedInit, CleanInit DEF SwitcherInv
<1>2. SwitcherInv /\ [Next]_vars => SwitcherInv'
  <2> SUFFICES ASSUME SwitcherInv, [Next]_vars PROVE SwitcherInv' OBVIOUS
  <2>1. Typed' BY SwitcherAssumption, TypedStep DEF SwitcherInv
  <2>2. ~mixed' => Clean' BY SwitcherAssumption, MixedStays, CleanStep DEF SwitcherInv
  <2>3. QED BY <2>1, <2>2 DEF SwitcherInv
<1>3. SwitcherInv => mixed \/ LoginsKept BY SwitcherAssumption, CleanKeeps DEF SwitcherInv
<1>4. QED BY <1>1, <1>2, <1>3, PTL DEF Spec
=============================================================================
