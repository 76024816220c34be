-------------------------- MODULE TokenRefreshProofs --------------------------
(***************************************************************************)
(* Theorems about the token refresher and, at the end, about the wrapper   *)
(* that MCRecovery sets beside it; for any number of profiles, switches,   *)
(* tokens, failing writes and stops.                                       *)
(*                                                                         *)
(* An account is declared in need of a login from three places: the end of *)
(* a run, a leftover entry settled under the account lock, and the startup *)
(* pass.  Each decides from what it reads in a journal entry, an exit      *)
(* status or a directory; the invariant says what those stand for.         *)
(* The second part shows that no token is spent by two runs at once, the   *)
(* third that commits write only what the provider issued for the login    *)
(* they replace, the fourth that a token outside the gaps is spent once,   *)
(* the fifth that the login rotated from it is kept until it is committed, *)
(* the last that an interrupted wrapper leaves nobody behind on the bus.   *)
(***************************************************************************)
EXTENDS MCRecovery, SequenceTheorems, TLAPS

\* A journal entry names a token, and past "spending" one a CLI was started on.
EntryOK(e, started) ==
  /\ e \in Entry
  /\ Open(e) => e.token \in Tokens
  /\ e.phase \in {"started", "rotated"} => e.token \in started

\* A run in hand: what its program counter and exit status say of its token.
RunOK(run, started) ==
  /\ run \in Run
  /\ run.pc # "idle" => run.token \in Tokens
  /\ EntryOK(run.entry, started)
  /\ run.pc = "settle" => Open(run.entry) /\ run.entry.token = run.token
  /\ run.pc \in {"note", "wait"} => run.exit # "none"
  /\ run.exit \in {"running", "clean", "failed", "rejected"} => run.token \in started
  /\ run.pc \in {"note", "rescue", "mark"} => run.token \in started

StateOK(s, started) ==
  /\ s \in RefreshState
  /\ \A p \in Profiles : EntryOK(s.journal[p], started)
  /\ s.verdicts \subseteq started

RunsOK == jobs \in [Jobs -> Run] /\ \A j \in Jobs : RunOK(jobs[j], launched)
JournalOK == StateOK(state, launched) /\ StateOK(saved, launched)
BacklogOK == backlog \in [Profiles -> Entry] /\ \A p \in Profiles : EntryOK(backlog[p], launched)

\* What else the steps above read, with the token a directory was made for.
DirsOK ==
  /\ temps \in [Profiles \X Tokens -> Tokens \cup {NoToken, Rejected}]
  /\ strays \in [Profiles \X Tokens -> {"none", "home", "lost"}]
  /\ \A d \in Profiles \X Tokens :
       temps[d] \notin {NoToken, d[2]} \/ strays[d] # "none" => d[2] \in launched
LoginsOK ==
  /\ stored \in [Profiles -> Tokens \cup {NoToken}]
  /\ successor \in [Tokens -> Tokens \cup {NoToken}]
  /\ pending \in [Tokens -> Tokens \cup {NoToken}]
  /\ issued \in 0..MaxToken /\ launched \subseteq Tokens

IInv == RunsOK /\ JournalOK /\ BacklogOK /\ DirsOK /\ LoginsOK

-----------------------------------------------------------------------------
(* What holds of fewer launched tokens holds of more.                      *)

LEMMA EntryGrows ==
  ASSUME NEW e, NEW S, NEW T, S \subseteq T, EntryOK(e, S) PROVE EntryOK(e, T)
BY DEF EntryOK

LEMMA RunGrows ==
  ASSUME NEW run, NEW S, NEW T, S \subseteq T, RunOK(run, S) PROVE RunOK(run, T)
BY EntryGrows DEF RunOK

LEMMA StateGrows ==
  ASSUME NEW s, NEW S, NEW T, S \subseteq T, StateOK(s, S) PROVE StateOK(s, T)
BY EntryGrows DEF StateOK

-----------------------------------------------------------------------------
(* Each kind of change keeps its part.                                     *)

LEMMA NoEntryOK == ASSUME NEW S PROVE EntryOK(NoEntry, S)
BY DEF EntryOK, NoEntry, Entry, Open

LEMMA IdleOK == ASSUME NEW S, TokenRefreshAssumption PROVE RunOK(Idle, S)
<1>1. Idle \in Run
  <2>1. (CHOOSE p \in Profiles : TRUE) \in Profiles BY DEF TokenRefreshAssumption
  <2>2. NoEntry \in Entry BY DEF NoEntry, Entry
  <2>3. QED BY <2>1, <2>2 DEF Idle, Run
<1>2. QED BY <1>1, NoEntryOK DEF RunOK, Idle

\* One job changes to a proper run.
LEMMA Changed ==
  ASSUME RunsOK, NEW j \in Jobs, NEW run, RunOK(run, launched'),
         launched \subseteq launched', Becomes(j, run)
  PROVE  RunsOK'
<1>1. run \in Run BY DEF RunOK
<1>2. jobs' \in [Jobs -> Run] BY <1>1 DEF Becomes, RunsOK
<1>3. ASSUME NEW k \in Jobs PROVE RunOK(jobs'[k], launched')
  <2>1. CASE k = j BY <2>1 DEF Becomes, RunsOK
  <2>2. CASE k # j
    <3>1. jobs'[k] = jobs[k] BY <2>2 DEF Becomes, RunsOK
    <3>2. QED BY <3>1, RunGrows DEF RunsOK
  <2>3. QED BY <2>1, <2>2
<1>4. QED BY <1>2, <1>3 DEF RunsOK

LEMMA RunsKept == ASSUME RunsOK, launched \subseteq launched', UNCHANGED jobs PROVE RunsOK'
BY RunGrows DEF RunsOK

LEMMA JournalKept ==
  ASSUME JournalOK, launched \subseteq launched', UNCHANGED <<state, saved>> PROVE JournalOK'
BY StateGrows DEF JournalOK

LEMMA BacklogKept ==
  ASSUME BacklogOK, launched \subseteq launched', UNCHANGED backlog PROVE BacklogOK'
BY EntryGrows DEF BacklogOK

LEMMA DirsKept ==
  ASSUME DirsOK, launched \subseteq launched', UNCHANGED <<temps, strays>> PROVE DirsOK'
BY DEF DirsOK

LEMMA DirsForgotten ==
  ASSUME DirsOK, NEW dirs, Forget(dirs), UNCHANGED launched PROVE DirsOK'
BY DEF DirsOK, Forget

\* A change of the refresh state, saved or not.
LEMMA StateSaved ==
  ASSUME JournalOK, NEW new, StateOK(new, launched), Save(new) \/ SaveFails(new),
         UNCHANGED launched
  PROVE  JournalOK'
BY DEF JournalOK, Save, SaveFails

LEMMA EntrySet ==
  ASSUME JournalOK, NEW p \in Profiles, NEW e, EntryOK(e, launched)
  PROVE  StateOK(SetEntry(p, e), launched)
BY DEF JournalOK, StateOK, SetEntry, RefreshState, EntryOK

LEMMA VerdictSet ==
  ASSUME JournalOK, NEW t \in launched \cap Tokens
  PROVE  StateOK(SetVerdict(t), launched)
BY DEF JournalOK, StateOK, SetVerdict, RefreshState

LEMMA JobOK == ASSUME RunsOK, NEW j \in Jobs
               PROVE  RunOK(Job(j), launched) /\ Job(j) = jobs[j] /\ Job(j) \in Run
BY DEF RunsOK, RunOK, Job

\* A job that gives up is idle.
LEMMA Left ==
  ASSUME TokenRefreshAssumption, RunsOK, NEW j \in Jobs, Leave(j), UNCHANGED launched
  PROVE  RunsOK'
<1>1. RunOK(Idle, launched') BY IdleOK
<1>2. QED BY <1>1, Changed DEF Leave

\* clearJournal takes an entry away and ends the run.
LEMMA Cleared ==
  ASSUME TokenRefreshAssumption, RunsOK, JournalOK, DirsOK, NEW j \in Jobs, NEW dirs,
         ClearJournal(j, dirs), UNCHANGED launched
  PROVE  RunsOK' /\ JournalOK' /\ DirsOK'
<1> DEFINE new == SetEntry(Job(j).profile, NoEntry)
<1>1. Job(j).profile \in Profiles BY JobOK DEF Run
<1>2. StateOK(new, launched) BY <1>1, EntrySet, NoEntryOK
<1>3. Save(new) \/ SaveFails(new) BY DEF ClearJournal
<1>4. JournalOK'
  <2> HIDE DEF new
  <2>1. QED BY <1>2, <1>3, StateSaved
<1>5. RunsOK' BY Left DEF ClearJournal
<1>6. PICK any : Forget(any) BY DEF ClearJournal
<1>7. DirsOK' BY <1>6, DirsForgotten
<1>8. QED BY <1>4, <1>5, <1>7

\* A verdict is given, and the run goes on to clear its entry, or gives up.
LEMMA Judged ==
  ASSUME TokenRefreshAssumption, RunsOK, JournalOK, DirsOK, NEW j \in Jobs, Judge(j),
         Job(j).token \in launched \cap Tokens, UNCHANGED launched
  PROVE  RunsOK' /\ JournalOK' /\ DirsOK'
<1> DEFINE new == SetVerdict(Job(j).token)
<1>1. StateOK(new, launched) BY VerdictSet
<1>2. JournalOK'
  <2>1. Save(new) \/ SaveFails(new) BY DEF Judge
  <2> HIDE DEF new
  <2>2. QED BY <1>1, <2>1, StateSaved
<1>3. GoTo(j, "clear") => RunsOK'
  <2>1. RunOK([Job(j) EXCEPT !.pc = "clear"], launched') BY JobOK DEF RunOK, Run
  <2>2. QED BY <2>1, Changed DEF GoTo
<1>4. RunsOK' BY <1>3, Left DEF Judge
<1>5. DirsOK'
  <2>1. CASE UNCHANGED <<temps, strays>> BY <2>1, DirsKept
  <2>2. CASE Forget(OwnDir(j)) BY <2>2, DirsForgotten
  <2>3. QED BY <2>1, <2>2 DEF Judge
<1>6. QED BY <1>2, <1>4, <1>5

-----------------------------------------------------------------------------
(* Up to the spend.                                                        *)

LEMMA DecidedOK ==
  ASSUME TokenRefreshAssumption, NEW S, NEW p \in Profiles, NEW t \in Tokens,
         NEW pc \in {"lock", "look"}
  PROVE  RunOK([Idle EXCEPT !.pc = pc, !.profile = p, !.token = t], S)
<1> DEFINE new == [Idle EXCEPT !.pc = pc, !.profile = p, !.token = t]
<1>1. Idle \in Run /\ RunOK(Idle, S) BY IdleOK DEF RunOK
<1>2. Idle.exit = "none" BY DEF Idle
<1>3. new \in Run BY <1>1 DEF Run
<1>4. new.pc = pc /\ new.exit = "none" /\ new.token = t /\ new.entry = Idle.entry
  BY <1>1, <1>2 DEF Run
<1> HIDE DEF new
<1>5. RunOK(new, S) BY <1>1, <1>3, <1>4 DEF RunOK
<1>6. QED BY <1>5 DEF new

LEMMA Deciding ==
  ASSUME TokenRefreshAssumption, IInv, NEW p \in Profiles,
         \/ Due(p) \/ \E h \in Handlers : Incoming(h, p)
  PROVE  IInv'
<1> USE DEF IInv
<1>0. stored[p] \in Tokens \cup {NoToken} BY DEF LoginsOK
<1>1. CASE Due(p)
  <2> DEFINE run == [Idle EXCEPT !.pc = "lock", !.profile = p, !.token = stored[p]]
  <2>1. stored[p] \in Tokens BY <1>0, <1>1 DEF Due, MayRefresh
  <2>2. RunOK(run, launched') BY <2>1, DecidedOK
  <2>3. Becomes(Ticker, run) BY <1>1 DEF Due
  <2>4. Ticker \in Jobs BY DEF Jobs
  <2>5. RunsOK'
    <3> HIDE DEF run
    <3>1. QED BY <1>1, <2>2, <2>3, <2>4, Changed DEF Due, history
  <2>6. QED BY <1>1, <2>5, JournalKept, BacklogKept, DirsKept
           DEF Due, LoginsOK, disk, world, history
<1>2. ASSUME NEW h \in Handlers, Incoming(h, p) PROVE IInv'
  <2> DEFINE run == [Idle EXCEPT !.pc = "look", !.profile = p, !.token = stored[p]]
  <2>1. stored[p] \in Tokens BY <1>0, <1>2 DEF Incoming, MayRefresh
  <2>2. RunOK(run, launched') BY <2>1, DecidedOK
  <2>3. Becomes(h, run) BY <1>2 DEF Incoming
  <2>4. h \in Jobs BY DEF Jobs
  <2>5. RunsOK'
    <3> HIDE DEF run
    <3>1. QED BY <1>2, <2>2, <2>3, <2>4, Changed DEF Incoming, history
  <2>6. QED BY <1>2, <2>5, JournalKept, BacklogKept, DirsKept
           DEF Incoming, LoginsOK, disk, world, history
<1>3. QED BY <1>1, <1>2

LEMMA Preparing ==
  ASSUME TokenRefreshAssumption, IInv, NEW j \in Jobs,
         \/ Acquire(j) \/ SettleLeftover(j) \/ Abandon(j) \/ Journal(j)
  PROVE  IInv'
<1> USE DEF IInv
<1>j. RunOK(Job(j), launched) /\ Job(j) \in Run /\ Job(j) = jobs[j] BY JobOK
<1>1. CASE Acquire(j)
  <2>1. RunOK([Job(j) EXCEPT !.pc = "look"], launched')
    BY <1>j, <1>1 DEF RunOK, Run, Acquire, At, history
  <2>2. RunsOK'
    <3>1. Leave(j) \/ GoTo(j, "look") BY <1>1 DEF Acquire
    <3>2. UNCHANGED launched BY <1>1 DEF Acquire, history
    <3>3. QED BY <2>1, <3>1, <3>2, Left, Changed DEF GoTo
  <2>3. QED BY <1>1, <2>2, JournalKept, BacklogKept, DirsKept
           DEF Acquire, LoginsOK, disk, world, history
<1>2. CASE SettleLeftover(j)
  <2> DEFINE e == state.journal[Job(j).profile]
             run == [Job(j) EXCEPT !.pc = "settle", !.entry = e]
  <2>1. UNCHANGED launched BY <1>2 DEF SettleLeftover, history
  <2>2. EntryOK(e, launched) BY <1>j DEF JournalOK, StateOK, Run
  <2>3. Open(e) /\ e.token = Job(j).token /\ At(j, "look")
    BY <1>2 DEF SettleLeftover, Leftover
  <2>4. RunOK(run, launched')
    <3> HIDE DEF e
    <3>1. e \in Entry BY <2>2 DEF EntryOK
    <3>2. QED BY <1>j, <2>1, <2>2, <2>3, <3>1 DEF RunOK, Run, At
  <2>5. Becomes(j, run) BY <1>2 DEF SettleLeftover
  <2>6. RunsOK'
    <3> HIDE DEF run
    <3>1. QED BY <2>1, <2>4, <2>5, Changed
  <2>7. QED BY <1>2, <2>6, JournalKept, BacklogKept, DirsKept
           DEF SettleLeftover, LoginsOK, disk, world, history
<1>3. CASE Abandon(j)
  <2>1. RunsOK' BY <1>3, Left DEF Abandon, history
  <2>2. QED BY <1>3, <2>1, JournalKept, BacklogKept, DirsKept
           DEF Abandon, LoginsOK, disk, world, history
<1>4. CASE Journal(j)
  <2> DEFINE new == SetEntry(Job(j).profile, Spending(j))
  <2>1. UNCHANGED launched BY <1>4 DEF Journal
  <2>2. Job(j).profile \in Profiles /\ Job(j).token \in Tokens
    BY <1>j, <1>4 DEF RunOK, Run, Journal, At
  <2>3. EntryOK(Spending(j), launched) BY <2>2 DEF EntryOK, Spending, Entry, Open
  <2>4. StateOK(new, launched) BY <2>2, <2>3, EntrySet
  <2>5. JournalOK'
    <3>1. Save(new) \/ SaveFails(new) BY <1>4 DEF Journal
    <3> HIDE DEF new
    <3>2. QED BY <2>1, <2>4, <3>1, StateSaved
  <2>6. RunsOK'
    <3>1. RunOK([Job(j) EXCEPT !.pc = "launch", !.spends = TRUE], launched')
      BY <1>j, <2>1, <2>2 DEF RunOK, Run
    <3>2. Leave(j) \/ Becomes(j, [Job(j) EXCEPT !.pc = "launch", !.spends = TRUE])
      BY <1>4 DEF Journal
    <3>3. QED BY <2>1, <3>1, <3>2, Left, Changed
  <2>7. DirsOK'
    <3> DEFINE d == <<Job(j).profile, Job(j).token>>
    <3>1. d \in Profiles \X Tokens /\ d[2] = Job(j).token BY <2>2
    <3>2. CASE UNCHANGED <<temps, strays>> BY <2>1, <3>2, DirsKept
    <3>3. CASE /\ temps' = [temps EXCEPT ![d] = Job(j).token]
               /\ strays' = [strays EXCEPT ![d] = IF @ = "home" THEN "lost" ELSE @]
      BY <2>1, <2>2, <3>1, <3>3 DEF DirsOK
    <3>4. QED BY <1>4, <3>2, <3>3 DEF Journal
  <2>8. QED BY <1>4, <2>1, <2>5, <2>6, <2>7, BacklogKept DEF Journal, LoginsOK
<1>5. QED BY <1>1, <1>2, <1>3, <1>4

-----------------------------------------------------------------------------
(* The run of the CLI and what it left.                                    *)

LEMMA DirType ==
  ASSUME RunsOK, NEW j \in Jobs, Job(j).token \in Tokens
  PROVE  Dir(j) \in Profiles \X Tokens /\ Dir(j)[2] = Job(j).token
BY JobOK DEF Dir, Run

\* What a CLI writes and what the provider issues, on a launched token.
LEMMA Answered ==
  ASSUME TokenRefreshAssumption, DirsOK, LoginsOK,
         NEW d \in Profiles \X Tokens, d[2] \in launched,
         NEW home \in BOOLEAN, NEW answered \in BOOLEAN,
         Idles \/ Spends(d, home, answered) \/ Refused(d, home)
  PROVE  /\ temps' \in [Profiles \X Tokens -> Tokens \cup {NoToken, Rejected}]
         /\ \A x \in Profiles \X Tokens : temps'[x] = temps[x] \/ x = d
         /\ successor' \in [Tokens -> Tokens \cup {NoToken}] /\ issued' \in 0..MaxToken
<1> USE DEF DirsOK, LoginsOK
<1>1. CASE Idles BY <1>1 DEF Idles
<1>2. CASE Spends(d, home, answered)
  <2>1. d[2] \in Tokens /\ issued + 1 \in Tokens /\ issued + 1 \in 0..MaxToken
    BY <1>2 DEF Spends, Tokens, TokenRefreshAssumption
  <2>2. UNCHANGED temps \/ temps' = [temps EXCEPT ![d] = issued + 1]
    BY <1>2 DEF Spends, Writes
  <2>3. successor' = [successor EXCEPT ![d[2]] = issued + 1] /\ issued' = issued + 1
    BY <1>2 DEF Spends
  <2>4. QED BY <2>1, <2>2, <2>3
<1>3. CASE Refused(d, home)
  <2>1. UNCHANGED temps \/ temps' = [temps EXCEPT ![d] = Rejected] BY <1>3 DEF Refused, Writes
  <2>2. QED BY <1>3, <2>1 DEF Refused
<1>4. QED BY <1>1, <1>2, <1>3

\* A run whose CLI may be on its way.
LEMMA StartedOK ==
  ASSUME NEW run, NEW S, RunOK(run, S), run.token \in Tokens,
         NEW pc \in {"note", "wait"}, NEW exit \in {"running", "unsent"},
         pc = "note" \/ exit = "running" => run.token \in S
  PROVE  RunOK([run EXCEPT !.pc = pc, !.exit = exit], S)
<1> DEFINE new == [run EXCEPT !.pc = pc, !.exit = exit]
<1>1. run \in Run BY DEF RunOK
<1>2. new \in Run BY <1>1 DEF Run
<1>3. new.pc = pc /\ new.exit = exit /\ new.token = run.token /\ new.entry = run.entry
  BY <1>1 DEF Run
<1> HIDE DEF new
<1>4. RunOK(new, S) BY <1>2, <1>3 DEF RunOK
<1>5. QED BY <1>4 DEF new

LEMMA Starting ==
  ASSUME TokenRefreshAssumption, IInv, NEW j \in Jobs, Launch(j) \/ NoteStarted(j)
  PROVE  IInv'
<1> USE DEF IInv
<1>j. RunOK(Job(j), launched) /\ Job(j) \in Run /\ Job(j) = jobs[j] BY JobOK
<1>1. CASE Launch(j)
  <2>1. Job(j).token \in Tokens BY <1>j, <1>1 DEF RunOK, Launch, At
  <2>2. launched \subseteq launched' /\ launched' \subseteq Tokens
    BY <1>1, <2>1 DEF Launch, LoginsOK
  <2>3. ASSUME Becomes(j, [Job(j) EXCEPT !.pc = "note", !.exit = "running"]),
               launched' = launched \cup {Job(j).token}
        PROVE  RunsOK'
    <3>1. RunOK(Job(j), launched') BY <1>j, <2>2, RunGrows
    <3>2. RunOK([Job(j) EXCEPT !.pc = "note", !.exit = "running"], launched')
      BY <2>1, <2>3, <3>1, StartedOK
    <3>3. QED BY <2>2, <2>3, <3>2, Changed
  <2>4. ASSUME Becomes(j, [Job(j) EXCEPT !.pc = "wait", !.exit = "unsent"]), UNCHANGED launched
        PROVE  RunsOK'
    <3>1. RunOK([Job(j) EXCEPT !.pc = "wait", !.exit = "unsent"], launched')
      BY <1>j, <2>1, <2>4, StartedOK
    <3>2. QED BY <2>2, <2>4, <3>1, Changed
  <2>5. RunsOK' BY <1>1, <2>3, <2>4 DEF Launch
  <2>6. QED BY <1>1, <2>2, <2>5, JournalKept, BacklogKept, DirsKept
           DEF Launch, LoginsOK, disk, world
<1>2. CASE NoteStarted(j)
  <2> DEFINE e == [Spending(j) EXCEPT !.phase = "started"]
             new == SetEntry(Job(j).profile, e)
  <2>1. UNCHANGED launched BY <1>2 DEF NoteStarted
  <2>2. Job(j).profile \in Profiles /\ Job(j).token \in Tokens /\ Job(j).token \in launched
    BY <1>j, <1>2 DEF RunOK, Run, NoteStarted, At
  <2>3. EntryOK(e, launched) BY <2>2 DEF EntryOK, Spending, Entry, Open
  <2>4. StateOK(new, launched)
    <3> HIDE DEF e
    <3>1. QED BY <2>2, <2>3, EntrySet
  <2>5. JournalOK'
    <3>1. Save(new) \/ SaveFails(new) BY <1>2 DEF NoteStarted
    <3> HIDE DEF new
    <3>2. QED BY <2>1, <2>4, <3>1, StateSaved
  <2>6. RunsOK'
    <3>1. Job(j).exit # "none" => RunOK([Job(j) EXCEPT !.pc = "wait"], launched')
      BY <1>j, <2>1, <2>2 DEF RunOK, Run
    <3>2. Job(j).exit # "none" BY <1>j, <1>2 DEF RunOK, NoteStarted, At
    <3>3. QED BY <1>2, <2>1, <3>1, <3>2, Changed DEF NoteStarted, GoTo
  <2>7. QED BY <1>2, <2>1, <2>5, <2>6, BacklogKept, DirsKept DEF NoteStarted, LoginsOK, world
<1>3. QED BY <1>1, <1>2

LEMMA Ending ==
  ASSUME TokenRefreshAssumption, IInv,
         \/ \E j \in Jobs : CliEnds(j) \/ TimesOut(j)
         \/ \E d \in Profiles \X Tokens : StrayEnds(d)
  PROVE  IInv'
<1> USE DEF IInv
<1>1. ASSUME NEW j \in Jobs, CliEnds(j) PROVE IInv'
  <2>j. RunOK(Job(j), launched) /\ Job(j) \in Run /\ Job(j) = jobs[j] BY JobOK
  <2>1. UNCHANGED <<launched, strays>> BY <1>1 DEF CliEnds
  <2>2. Job(j).token \in launched /\ Job(j).token \in Tokens
    BY <1>1, <2>j DEF RunOK, CliEnds, LoginsOK
  <2>3. Dir(j) \in Profiles \X Tokens /\ Dir(j)[2] = Job(j).token BY <2>2, DirType
  <2>4. PICK answered \in BOOLEAN :
          Idles \/ Spends(Dir(j), TRUE, answered) \/ Refused(Dir(j), TRUE)
    BY <1>1 DEF CliEnds
  <2>5. /\ temps' \in [Profiles \X Tokens -> Tokens \cup {NoToken, Rejected}]
        /\ \A x \in Profiles \X Tokens : temps'[x] = temps[x] \/ x = Dir(j)
        /\ successor' \in [Tokens -> Tokens \cup {NoToken}] /\ issued' \in 0..MaxToken
    BY <2>2, <2>3, <2>4, Answered
  <2>6. DirsOK' BY <2>1, <2>2, <2>3, <2>5 DEF DirsOK
  <2>7. RunsOK'
    <3>1. ASSUME NEW how \in {"unsent", "clean", "failed", "rejected"}
          PROVE  RunOK([Job(j) EXCEPT !.exit = how], launched')
      BY <2>j, <2>1, <2>2 DEF RunOK, Run
    <3>2. PICK how \in {"unsent", "clean", "failed", "rejected"} : Exits(j, how)
      BY <1>1 DEF CliEnds
    <3>3. QED BY <2>1, <3>1, <3>2, Changed DEF Exits
  <2>8. QED BY <1>1, <2>1, <2>5, <2>6, <2>7, JournalKept, BacklogKept DEF CliEnds, LoginsOK
<1>2. ASSUME NEW j \in Jobs, TimesOut(j) PROVE IInv'
  <2>j. RunOK(Job(j), launched) /\ Job(j) \in Run /\ Job(j) = jobs[j] BY JobOK
  <2>1. UNCHANGED launched BY <1>2 DEF TimesOut, history
  <2>2. Job(j).token \in launched /\ Job(j).token \in Tokens
    BY <1>2, <2>j DEF RunOK, TimesOut, LoginsOK
  <2>3. Dir(j) \in Profiles \X Tokens /\ Dir(j)[2] = Job(j).token BY <2>2, DirType
  <2>4. DirsOK' BY <1>2, <2>1, <2>2, <2>3 DEF DirsOK, TimesOut, disk
  <2>5. RunOK([Job(j) EXCEPT !.exit = "failed"], launched')
    BY <2>j, <2>1, <2>2 DEF RunOK, Run
  <2>6. RunsOK' BY <1>2, <2>1, <2>5, Changed DEF TimesOut, Exits
  <2>7. QED BY <1>2, <2>1, <2>4, <2>6, JournalKept, BacklogKept DEF TimesOut, LoginsOK, disk
<1>3. ASSUME NEW d \in Profiles \X Tokens, StrayEnds(d) PROVE IInv'
  <2>1. UNCHANGED launched BY <1>3 DEF StrayEnds
  <2>2. d[2] \in launched BY <1>3 DEF StrayEnds, DirsOK
  <2>3. PICK home \in BOOLEAN, answered \in BOOLEAN :
          Idles \/ Spends(d, home, answered) \/ Refused(d, home)
    BY <1>3 DEF StrayEnds
  <2>4. /\ temps' \in [Profiles \X Tokens -> Tokens \cup {NoToken, Rejected}]
        /\ \A x \in Profiles \X Tokens : temps'[x] = temps[x] \/ x = d
        /\ successor' \in [Tokens -> Tokens \cup {NoToken}] /\ issued' \in 0..MaxToken
    BY <2>2, <2>3, Answered
  <2>5. strays' = [strays EXCEPT ![d] = "none"] BY <1>3 DEF StrayEnds
  <2>6. DirsOK' BY <2>1, <2>2, <2>4, <2>5 DEF DirsOK
  <2>7. QED BY <1>3, <2>1, <2>4, <2>6, RunsKept, JournalKept, BacklogKept
           DEF StrayEnds, LoginsOK, memory
<1>4. QED BY <1>1, <1>2, <1>3

\* A run is classified: it ends, or its login goes on to be rescued, or the account
\* gets its verdict.
LEMMA Classifying ==
  ASSUME TokenRefreshAssumption, IInv, NEW j \in Jobs,
         FindRotated(j) \/ FindUnsent(j) \/ FindSpent(j) \/ Clear(j)
  PROVE  IInv'
<1> USE DEF IInv
<1>j. RunOK(Job(j), launched) /\ Job(j) \in Run /\ Job(j) = jobs[j] BY JobOK
<1>1. CASE FindRotated(j)
  <2> DEFINE run == [Job(j) EXCEPT !.pc = "rescue", !.rotated = Advanced(Dir(j))]
  <2>1. UNCHANGED launched BY <1>1 DEF FindRotated, history
  <2>2. Job(j).token \in Tokens BY <1>1, <1>j DEF FindRotated, Ended, At, RunOK
  <2>3. Dir(j) \in Profiles \X Tokens /\ Dir(j)[2] = Job(j).token BY <2>2, DirType
  <2>4. Advanced(Dir(j)) \in Tokens /\ temps[Dir(j)] \notin {NoToken, Dir(j)[2]}
    BY <1>1 DEF FindRotated, Advanced, Tokens, NoToken
  <2>5. Job(j).token \in launched BY <2>3, <2>4 DEF DirsOK
  <2>6. RunOK(run, launched')
    BY <1>j, <2>1, <2>2, <2>4, <2>5 DEF RunOK, Run
  <2>7. Becomes(j, run) BY <1>1 DEF FindRotated
  <2>8. RunsOK'
    <3> HIDE DEF run
    <3>1. QED BY <2>1, <2>6, <2>7, Changed
  <2>9. QED BY <1>1, <2>1, <2>8, JournalKept, BacklogKept, DirsKept
           DEF FindRotated, LoginsOK, disk, world
<1>2. CASE FindUnsent(j)
  <2>1. UNCHANGED launched BY <1>2 DEF FindUnsent
  <2>2. RunsOK' /\ JournalOK' /\ DirsOK' BY <1>2, <2>1, Cleared DEF FindUnsent
  <2>3. QED BY <1>2, <2>1, <2>2, BacklogKept DEF FindUnsent, LoginsOK
<1>3. CASE FindSpent(j)
  <2>1. UNCHANGED launched BY <1>3 DEF FindSpent, history
  <2>2. Job(j).exit \in {"failed", "rejected"} /\ Job(j).token \in Tokens
    BY <1>3, <1>j DEF FindSpent, Ended, At, Unsent, RunOK, Run
  <2>3. Job(j).token \in launched \cap Tokens BY <1>j, <2>2 DEF RunOK
  <2>4. RunsOK' /\ JournalOK' /\ DirsOK' BY <1>3, <2>1, <2>3, Judged DEF FindSpent
  <2>5. QED BY <1>3, <2>1, <2>4, BacklogKept DEF FindSpent, LoginsOK
<1>4. CASE Clear(j)
  <2>1. UNCHANGED launched BY <1>4 DEF Clear
  <2>2. RunsOK' /\ JournalOK' /\ DirsOK' BY <1>4, <2>1, Cleared DEF Clear
  <2>3. pending' \in [Tokens -> Tokens \cup {NoToken}]
    BY <1>4 DEF Clear, DropPending, LoginsOK
  <2>4. QED BY <1>4, <2>1, <2>2, <2>3, BacklogKept DEF Clear, LoginsOK
<1>5. QED BY <1>1, <1>2, <1>3, <1>4

-----------------------------------------------------------------------------
(* The commit of a rotated login.                                          *)

\* A run whose pc, and what the steps of a commit keep in it, have these values.
Moving(run, pc, rescued, keep, todo, committed) ==
  [run EXCEPT !.pc = pc, !.rescued = rescued, !.keep = keep, !.todo = todo,
              !.committed = committed]

LEMMA MovingOK ==
  ASSUME NEW run, NEW S, RunOK(run, S), run.token \in Tokens, run.pc \notin {"note", "wait"},
         NEW pc \in {"mark", "list", "commit", "clear"}, pc = "mark" => run.token \in S,
         NEW rescued \in BOOLEAN, NEW keep \in BOOLEAN, NEW todo \in SUBSET Profiles,
         NEW committed \in BOOLEAN
  PROVE  RunOK(Moving(run, pc, rescued, keep, todo, committed), S)
<1> DEFINE new == Moving(run, pc, rescued, keep, todo, committed)
<1>1. run \in Run BY DEF RunOK
<1>2. new \in Run BY <1>1 DEF Run, Moving
<1>3. /\ new.pc = pc /\ new.token = run.token /\ new.entry = run.entry /\ new.exit = run.exit
  BY <1>1 DEF Run, Moving
<1> HIDE DEF new
<1>4. RunOK(new, S) BY <1>2, <1>3 DEF RunOK
<1>5. QED BY <1>4 DEF new

\* The ways a step of a commit writes its run.
LEMMA Unmoved ==
  ASSUME NEW run \in Run, NEW pc, NEW todo
  PROVE  /\ [run EXCEPT !.pc = pc]
              = Moving(run, pc, run.rescued, run.keep, run.todo, run.committed)
         /\ [run EXCEPT !.pc = pc, !.keep = TRUE]
              = Moving(run, pc, run.rescued, TRUE, run.todo, run.committed)
         /\ [run EXCEPT !.pc = pc, !.rescued = TRUE]
              = Moving(run, pc, TRUE, run.keep, run.todo, run.committed)
         /\ [run EXCEPT !.pc = pc, !.todo = todo]
              = Moving(run, pc, run.rescued, run.keep, todo, run.committed)
         /\ [run EXCEPT !.todo = todo]
              = Moving(run, run.pc, run.rescued, run.keep, todo, run.committed)
         /\ [run EXCEPT !.todo = todo, !.committed = TRUE]
              = Moving(run, run.pc, run.rescued, run.keep, todo, TRUE)
         /\ \A rescued : [run EXCEPT !.pc = pc, !.keep = FALSE, !.rescued = rescued]
              = Moving(run, pc, rescued, FALSE, run.todo, run.committed)
BY DEF Run, Moving

LEMMA Moved ==
  ASSUME TokenRefreshAssumption, RunsOK, NEW j \in Jobs, UNCHANGED launched,
         At(j, "rescue") \/ At(j, "mark") \/ At(j, "list") \/ At(j, "commit"),
         NEW pc \in {"mark", "list", "commit", "clear"},
         pc = "mark" => Job(j).token \in launched,
         NEW rescued \in BOOLEAN, NEW keep \in BOOLEAN, NEW todo \in SUBSET Profiles,
         NEW committed \in BOOLEAN,
         Becomes(j, Moving(Job(j), pc, rescued, keep, todo, committed))
  PROVE  RunsOK'
<1> DEFINE run == Moving(Job(j), pc, rescued, keep, todo, committed)
<1>1. RunOK(Job(j), launched) /\ Job(j) \in Run BY JobOK
<1>2. Job(j).token \in Tokens /\ Job(j).pc \notin {"note", "wait"}
  BY <1>1 DEF At, RunOK, Job
<1>3. RunOK(run, launched') BY <1>1, <1>2, MovingOK
<1>4. QED
  <2> HIDE DEF run
  <2>1. Becomes(j, run) BY DEF run
  <2>2. QED BY <1>3, <2>1, Changed

LEMMA Committing ==
  ASSUME TokenRefreshAssumption, IInv, NEW j \in Jobs,
         \/ WriteRescue(j) \/ Mark(j) \/ List(j) \/ CommitOne(j) \/ FinishPartly(j) \/ Finish(j)
  PROVE  IInv'
<1> USE DEF IInv
<1>j. RunOK(Job(j), launched) /\ Job(j) \in Run /\ Job(j) = jobs[j] BY JobOK
<1>t. /\ Job(j).rescued \in BOOLEAN /\ Job(j).keep \in BOOLEAN /\ Job(j).committed \in BOOLEAN
      /\ Job(j).todo \in SUBSET Profiles /\ Job(j).rotated \in Tokens \cup {NoToken}
  BY <1>j DEF Run
<1>1. CASE WriteRescue(j)
  <2>1. UNCHANGED launched BY <1>1 DEF WriteRescue, history
  <2>2. Job(j).token \in launched BY <1>1, <1>j DEF WriteRescue, At, RunOK
  <2>3. PICK rescued \in BOOLEAN, keep \in BOOLEAN :
          Becomes(j, Moving(Job(j), "mark", rescued, keep, Job(j).todo, Job(j).committed))
    BY <1>1, <1>t, <1>j, Unmoved DEF WriteRescue
  <2>4. RunsOK' BY <1>1, <1>t, <2>1, <2>2, <2>3, Moved DEF WriteRescue
  <2>5. pending' \in [Tokens -> Tokens \cup {NoToken}]
    BY <1>1, <1>t DEF WriteRescue, HoldPending, LoginsOK
  <2>6. QED BY <1>1, <2>1, <2>4, <2>5, JournalKept, BacklogKept, DirsKept
           DEF WriteRescue, LoginsOK, world
<1>2. CASE Mark(j)
  <2> DEFINE e == [phase |-> "rotated", token |-> Job(j).token, rescue |-> Job(j).rescued,
                   temp |-> ~Job(j).rescued]
             new == SetEntry(Job(j).profile, e)
  <2>1. UNCHANGED launched BY <1>2 DEF Mark
  <2>2. Job(j).profile \in Profiles /\ Job(j).token \in Tokens /\ Job(j).token \in launched
    BY <1>j, <1>2 DEF RunOK, Run, Mark, At
  <2>3. EntryOK(e, launched) BY <1>t, <2>2 DEF EntryOK, Entry, Open
  <2>4. StateOK(new, launched)
    <3> HIDE DEF e
    <3>1. QED BY <2>2, <2>3, EntrySet
  <2>5. JournalOK'
    <3>1. Save(new) \/ SaveFails(new) BY <1>2 DEF Mark
    <3> HIDE DEF new
    <3>2. QED BY <2>1, <2>4, <3>1, StateSaved
  <2>6. RunsOK'
    <3>1. PICK keep \in BOOLEAN :
            Becomes(j, Moving(Job(j), "list", Job(j).rescued, keep, Job(j).todo,
                              Job(j).committed))
      BY <1>2, <1>t, <1>j, Unmoved DEF Mark, GoTo
    <3>2. QED BY <1>2, <1>t, <2>1, <3>1, Moved DEF Mark
  <2>7. QED BY <1>2, <2>1, <2>5, <2>6, BacklogKept, DirsKept DEF Mark, LoginsOK, world
<1>3. CASE List(j)
  <2>1. UNCHANGED launched BY <1>3 DEF List, history
  <2>2. Holders(Job(j).token) \in SUBSET Profiles BY DEF Holders
  <2>3. Becomes(j, Moving(Job(j), "commit", Job(j).rescued, Job(j).keep,
                          Holders(Job(j).token), Job(j).committed))
    BY <1>3, <1>j, Unmoved DEF List
  <2>4. RunsOK' BY <1>3, <1>t, <2>1, <2>2, <2>3, Moved DEF List
  <2>5. QED BY <1>3, <2>1, <2>4, JournalKept, BacklogKept, DirsKept
           DEF List, LoginsOK, disk, world
<1>4. CASE CommitOne(j)
  <2>1. UNCHANGED launched BY <1>4 DEF CommitOne
  <2>2. PICK committed \in BOOLEAN, todo \in SUBSET Profiles :
          Becomes(j, Moving(Job(j), "commit", Job(j).rescued, Job(j).keep, todo, committed))
    <3>1. PICK p : \/ Becomes(j, [Job(j) EXCEPT !.todo = Job(j).todo \ {p}, !.committed = TRUE])
                   \/ Becomes(j, [Job(j) EXCEPT !.todo = Job(j).todo \ {p}])
      BY <1>4 DEF CommitOne
    <3> DEFINE left == Job(j).todo \ {p}
    <3>2. left \in SUBSET Profiles BY <1>t
    <3>3. Job(j).pc = "commit" BY <1>4, <1>j DEF CommitOne, At
    <3> HIDE DEF left
    <3>4. \/ Becomes(j, [Job(j) EXCEPT !.todo = left, !.committed = TRUE])
          \/ Becomes(j, [Job(j) EXCEPT !.todo = left])
      BY <3>1 DEF left
    <3>5. \/ Becomes(j, Moving(Job(j), "commit", Job(j).rescued, Job(j).keep, left, TRUE))
          \/ Becomes(j, Moving(Job(j), "commit", Job(j).rescued, Job(j).keep, left,
                               Job(j).committed))
      <4>1. Job(j) \in Run BY <1>j
      <4>2. QED BY <4>1, <3>3, <3>4, Unmoved
    <3>6. QED BY <1>t, <3>2, <3>5
  <2>3. RunsOK' BY <1>4, <1>t, <2>1, <2>2, Moved DEF CommitOne
  <2>4. stored' \in [Profiles -> Tokens \cup {NoToken}]
    BY <1>4, <1>t DEF CommitOne, LoginsOK
  <2>5. QED BY <1>4, <2>1, <2>3, <2>4, JournalKept, BacklogKept, DirsKept
           DEF CommitOne, LoginsOK, world
<1>5. CASE FinishPartly(j)
  <2>1. UNCHANGED launched BY <1>5 DEF FinishPartly, history
  <2>2. RunsOK' BY <1>5, <2>1, Left DEF FinishPartly
  <2>3. DirsOK' BY <1>5, <2>1, DirsForgotten DEF FinishPartly
  <2>4. pending' \in [Tokens -> Tokens \cup {NoToken}]
    BY <1>5, <1>t DEF FinishPartly, HoldPending, LoginsOK
  <2>5. QED BY <1>5, <2>1, <2>2, <2>3, <2>4, JournalKept, BacklogKept
           DEF FinishPartly, LoginsOK
<1>6. CASE Finish(j)
  <2>1. UNCHANGED launched BY <1>6 DEF Finish, history
  <2>2. PICK rescued \in BOOLEAN :
          Becomes(j, Moving(Job(j), "clear", rescued, FALSE, Job(j).todo, Job(j).committed))
    <3> DEFINE rescued == Job(j).rescued /\ (Job(j).spends => Job(j).committed)
    <3>1. Becomes(j, [Job(j) EXCEPT !.pc = "clear", !.keep = FALSE, !.rescued = rescued])
      BY <1>6 DEF Finish
    <3>2. rescued \in BOOLEAN BY <1>t
    <3> HIDE DEF rescued
    <3>3. Job(j) \in Run BY <1>j
    <3>4. Becomes(j, Moving(Job(j), "clear", rescued, FALSE, Job(j).todo, Job(j).committed))
      BY <3>1, <3>3, Unmoved
    <3>5. QED BY <3>2, <3>4
  <2>3. RunsOK' BY <1>6, <1>t, <2>1, <2>2, Moved DEF Finish
  <2>4. QED BY <1>6, <2>1, <2>3, JournalKept, BacklogKept, DirsKept
           DEF Finish, LoginsOK, disk, world
<1>7. QED BY <1>1, <1>2, <1>3, <1>4, <1>5, <1>6

-----------------------------------------------------------------------------
(* Entries an earlier run left, and everything around the refresher.       *)

LEMMA RecoveredType ==
  ASSUME DirsOK, LoginsOK, NEW p \in Profiles, NEW e \in Entry, e.token \in Tokens
  PROVE  Recovered(e, p) \in Tokens \cup {NoToken}
<1>1. <<p, e.token>> \in Profiles \X Tokens OBVIOUS
<1>2. Advanced(<<p, e.token>>) \in Tokens \cup {NoToken} BY <1>1 DEF Advanced
<1>3. successor[e.token] \in Tokens \cup {NoToken} /\ pending[e.token] \in Tokens \cup {NoToken}
  BY DEF LoginsOK
<1> DEFINE inFile == {s \in Tokens : \E i \in DOMAIN rescues[p] :
                        rescues[p][i] = [token |-> s, own |-> TRUE] /\ s = successor[e.token]}
<1>4. Recovered(e, p) = IF e.rescue /\ inFile # {} THEN successor[e.token]
                        ELSE IF pending[e.token] # NoToken THEN pending[e.token]
                        ELSE IF e.temp THEN Advanced(<<p, e.token>>) ELSE NoToken
  BY DEF Recovered
<1>5. QED
  <2> HIDE DEF inFile
  <2>1. QED BY <1>2, <1>3, <1>4

LEMMA SettlingStep ==
  ASSUME TokenRefreshAssumption, IInv, NEW j \in Jobs,
         SettleGone(j) \/ SettleRotated(j) \/ SettleUnsent(j) \/ SettleUnknown(j)
  PROVE  IInv'
<1> USE DEF IInv
<1>j. RunOK(Job(j), launched) /\ Job(j) \in Run /\ Job(j) = jobs[j] BY JobOK
<1>s. At(j, "settle") /\ UNCHANGED <<stored, backlog>>
  BY DEF SettleGone, SettleRotated, SettleUnsent, SettleUnknown, Settling
<1>e. /\ Job(j).token \in Tokens /\ Open(Job(j).entry) /\ Job(j).entry.token = Job(j).token
      /\ EntryOK(Job(j).entry, launched)
  BY <1>j, <1>s DEF At, RunOK
<1>1. CASE SettleGone(j)
  <2>1. UNCHANGED launched BY <1>1 DEF SettleGone
  <2>2. RunsOK' /\ JournalOK' /\ DirsOK' BY <1>1, <2>1, Cleared DEF SettleGone
  <2>3. pending' \in [Tokens -> Tokens \cup {NoToken}]
    BY <1>1 DEF SettleGone, DropPending, LoginsOK
  <2>4. QED BY <1>1, <1>s, <2>1, <2>2, <2>3, BacklogKept DEF SettleGone, LoginsOK
<1>2. CASE SettleRotated(j)
  <2> DEFINE s == Recovered(Job(j).entry, Job(j).profile)
             run == [Job(j) EXCEPT !.pc = "list", !.rotated = s, !.rescued = Job(j).entry.rescue]
  <2>1. UNCHANGED launched BY <1>2 DEF SettleRotated, history
  <2>2. s \in Tokens \cup {NoToken}
    <3>1. Job(j).profile \in Profiles /\ Job(j).entry \in Entry BY <1>j DEF Run
    <3>2. QED BY <1>e, <3>1, RecoveredType
  <2>3. RunOK(run, launched')
    <3> HIDE DEF s
    <3>1. Job(j).entry.rescue \in BOOLEAN BY <1>j DEF Run, Entry
    <3>2. QED BY <1>j, <1>e, <2>1, <2>2, <3>1 DEF RunOK, Run
  <2>4. Becomes(j, run) BY <1>2 DEF SettleRotated
  <2>5. RunsOK'
    <3> HIDE DEF run
    <3>1. QED BY <2>1, <2>3, <2>4, Changed
  <2>6. QED BY <1>2, <1>s, <2>1, <2>5, JournalKept, BacklogKept, DirsKept
           DEF SettleRotated, LoginsOK, world
<1>3. CASE SettleUnsent(j)
  <2>1. UNCHANGED launched BY <1>3 DEF SettleUnsent
  <2>2. RunsOK' /\ JournalOK' /\ DirsOK' BY <1>3, <2>1, Cleared DEF SettleUnsent
  <2>3. QED BY <1>3, <1>s, <2>1, <2>2, BacklogKept DEF SettleUnsent, LoginsOK
<1>4. CASE SettleUnknown(j)
  <2>1. UNCHANGED launched BY <1>4 DEF SettleUnknown, history
  <2>2. Job(j).entry.phase \in {"started", "rotated"}
    BY <1>4, <1>e DEF SettleUnknown, EntryOK, Entry, Open
  <2>3. Job(j).token \in launched \cap Tokens BY <1>e, <2>2 DEF EntryOK
  <2>4. RunsOK' /\ JournalOK' /\ DirsOK' BY <1>4, <2>1, <2>3, Judged DEF SettleUnknown
  <2>5. QED BY <1>4, <1>s, <2>1, <2>4, BacklogKept DEF SettleUnknown, LoginsOK
<1>5. QED BY <1>1, <1>2, <1>3, <1>4

LEMMA Surroundings ==
  ASSUME TokenRefreshAssumption, IInv,
         \/ Bootstrap \/ Toggle \/ Stop
         \/ \E p \in Profiles : Recover(p) \/ Login(p) \/ Remove(p)
  PROVE  IInv'
<1> USE DEF IInv
<1>1. CASE Bootstrap
  <2>1. BacklogOK' BY <1>1 DEF Bootstrap, BacklogOK, JournalOK, StateOK, RefreshState, history
  <2>2. QED BY <1>1, <2>1, RunsKept, JournalKept, DirsKept
           DEF Bootstrap, LoginsOK, disk, world, history
<1>2. CASE Toggle
  BY <1>2, RunsKept, JournalKept, BacklogKept, DirsKept DEF Toggle, LoginsOK, disk, world, history
<1>3. CASE Stop
  <2>1. UNCHANGED launched BY <1>3 DEF Stop
  <2>2. RunsOK'
    <3>1. RunOK(Idle, launched') BY IdleOK
    <3>2. Idle \in Run BY <3>1 DEF RunOK
    <3>3. QED BY <1>3, <3>1, <3>2 DEF Stop, RunsOK
  <2>3. JournalOK' BY <1>3, <2>1 DEF Stop, JournalOK, disk
  <2>4. BacklogOK'
    <3>1. EntryOK(NoEntry, launched') BY NoEntryOK
    <3>2. NoEntry \in Entry BY <3>1 DEF EntryOK
    <3>3. QED BY <1>3, <3>1, <3>2 DEF Stop, BacklogOK
  <2>5. DirsOK'
    <3>1. ASSUME NEW d \in Profiles \X Tokens
          PROVE  /\ strays'[d] \in {"none", "home", "lost"}
                 /\ strays'[d] # "none" => d[2] \in launched
      <4>1. CASE \E j \in Jobs : Job(j).exit = "running" /\ Dir(j) = d
        <5>1. PICK j \in Jobs : Job(j).exit = "running" /\ Dir(j) = d BY <4>1
        <5>2. Job(j).token \in launched BY <5>1, JobOK DEF RunOK
        <5>3. d[2] = Job(j).token BY <5>1 DEF Dir
        <5>4. QED BY <1>3, <4>1, <5>2, <5>3 DEF Stop, DirsOK
      <4>2. CASE ~\E j \in Jobs : Job(j).exit = "running" /\ Dir(j) = d
        BY <1>3, <4>2 DEF Stop, DirsOK
      <4>3. QED BY <4>1, <4>2
    <3>2. DOMAIN strays' = Profiles \X Tokens BY <1>3 DEF Stop, DirsOK
    <3>3. strays' \in [Profiles \X Tokens -> {"none", "home", "lost"}]
      <4>1. strays' = [d \in Profiles \X Tokens |-> strays'[d]] BY <1>3 DEF Stop, DirsOK
      <4>2. QED BY <3>1, <4>1
    <3>4. UNCHANGED temps BY <1>3 DEF Stop, disk
    <3>5. QED BY <2>1, <3>1, <3>3, <3>4 DEF DirsOK
  <2>6. LoginsOK' BY <1>3, <2>1 DEF Stop, LoginsOK, disk
  <2>7. QED BY <2>2, <2>3, <2>4, <2>5, <2>6
<1>4. ASSUME NEW p \in Profiles, Recover(p) PROVE IInv'
  <2> DEFINE e == backlog[p]
             run == [Idle EXCEPT !.pc = "settle", !.profile = p, !.token = e.token, !.entry = e]
  <2>1. UNCHANGED launched BY <1>4 DEF Recover, history
  <2>2. EntryOK(e, launched) /\ Open(e) BY <1>4 DEF Recover, BacklogOK
  <2>3. RunOK(run, launched')
    <3> HIDE DEF e
    <3>1. e \in Entry /\ e.token \in Tokens BY <2>2 DEF EntryOK
    <3>2. QED BY <2>1, <2>2, <3>1, IdleOK DEF RunOK, Run, Idle
  <2>4. Becomes(Ticker, run) /\ Ticker \in Jobs BY <1>4 DEF Recover, Jobs
  <2>5. RunsOK'
    <3> HIDE DEF run
    <3>1. QED BY <2>1, <2>3, <2>4, Changed
  <2>6. BacklogOK'
    <3>1. EntryOK(NoEntry, launched') BY NoEntryOK
    <3>2. NoEntry \in Entry BY <3>1 DEF EntryOK
    <3>3. backlog' = [backlog EXCEPT ![p] = NoEntry] BY <1>4 DEF Recover
    <3>4. QED BY <2>1, <3>1, <3>2, <3>3 DEF BacklogOK
  <2>7. QED BY <1>4, <2>1, <2>5, <2>6, JournalKept, DirsKept
           DEF Recover, LoginsOK, disk, world
<1>5. ASSUME NEW p \in Profiles, Login(p) PROVE IInv'
  <2>1. UNCHANGED launched BY <1>5 DEF Login, history
  <2>2. issued + 1 \in Tokens /\ issued + 1 \in 0..MaxToken
    BY <1>5 DEF Login, LoginsOK, Tokens, TokenRefreshAssumption
  <2>3. stored' \in [Profiles -> Tokens \cup {NoToken}] /\ issued' \in 0..MaxToken
    BY <1>5, <2>2 DEF Login, LoginsOK
  <2>4. QED BY <1>5, <2>1, <2>3, RunsKept, JournalKept, BacklogKept, DirsKept
           DEF Login, LoginsOK, memory
<1>6. ASSUME NEW p \in Profiles, Remove(p) PROVE IInv'
  <2>1. UNCHANGED launched BY <1>6 DEF Remove
  <2>2. stored' \in [Profiles -> Tokens \cup {NoToken}] BY <1>6 DEF Remove, LoginsOK
  <2>3. QED BY <1>6, <2>1, <2>2, RunsKept, JournalKept, BacklogKept, DirsKept
           DEF Remove, LoginsOK, memory, world
<1>7. QED BY <1>1, <1>2, <1>3, <1>4, <1>5, <1>6

-----------------------------------------------------------------------------
(* The theorem.                                                            *)

LEMMA InvInit == TokenRefreshAssumption /\ Init => IInv
<1> SUFFICES ASSUME TokenRefreshAssumption, Init PROVE IInv
  OBVIOUS
<1>1. RunOK(Idle, launched) /\ EntryOK(NoEntry, launched) BY IdleOK, NoEntryOK
<1>2. Idle \in Run /\ NoEntry \in Entry BY <1>1 DEF RunOK, EntryOK
<1>3. RunsOK BY <1>1, <1>2 DEF Init, RunsOK
<1>4. JournalOK BY <1>1, <1>2 DEF Init, JournalOK, StateOK, RefreshState
<1>5. BacklogOK BY <1>1, <1>2 DEF Init, BacklogOK
<1>6. DirsOK BY DEF Init, DirsOK
<1>7. LoginsOK BY DEF Init, LoginsOK, TokenRefreshAssumption, Tokens
<1>8. QED BY <1>3, <1>4, <1>5, <1>6, <1>7 DEF IInv

LEMMA InvNext == TokenRefreshAssumption /\ IInv /\ [Next]_vars => IInv'
<1> SUFFICES ASSUME TokenRefreshAssumption, IInv, [Next]_vars PROVE IInv'
  OBVIOUS
<1>1. CASE UNCHANGED vars
  BY <1>1, RunsKept, JournalKept, BacklogKept, DirsKept
     DEF vars, disk, memory, world, history, IInv, LoginsOK
<1>2. ASSUME NEW j \in Jobs, Step(j) PROVE IInv'
  BY <1>2, Preparing, Starting, Ending, Classifying, Committing, SettlingStep DEF Step
<1>3. CASE \E p \in Profiles : Due(p) \/ Recover(p) \/ Login(p) \/ Remove(p)
  BY <1>3, Deciding, Surroundings
<1>4. CASE \E h \in Handlers, p \in Profiles : Incoming(h, p) BY <1>4, Deciding
<1>5. CASE \E d \in Profiles \X Tokens : StrayEnds(d) BY <1>5, Ending
<1>6. CASE Bootstrap \/ Toggle \/ Stop BY <1>6, Surroundings
<1>7. QED BY <1>1, <1>2, <1>3, <1>4, <1>5, <1>6 DEF Next

\* An account is declared in need of a login only if a CLI was started on its
\* token (refreshProfile, spend, recoverEntry in target_refresher.go), whatever
\* fails and whenever the server stops.
THEOREM JudgedWereLaunched == Spec => []VerdictsEarned
<1>1. Init => IInv BY InvInit, TokenRefreshAssumption
<1>2. IInv /\ [Next]_vars => IInv' BY InvNext, TokenRefreshAssumption
<1>3. IInv => VerdictsEarned BY DEF IInv, JournalOK, StateOK, VerdictsEarned
<1>4. QED BY <1>1, <1>2, <1>3, PTL DEF Spec

-----------------------------------------------------------------------------
(* Single flight.  A run spends under the lock of the account its profile  *)
(* held when it took the lock, and checks that the profile still holds the *)
(* token it decided on.  That this is the same token rests on the order of *)
(* logins: a profile never gets back one it held before.                   *)

RunAge(run, held, n) ==
  /\ run.pc \in {"lock", "look", "launch"} => run.token <= n
  /\ run.pc \in {"lock", "look"} => held = NoToken \/ held >= run.token
  /\ run.rotated # NoToken => run.token < run.rotated /\ run.rotated <= n
RunsAge == \A j \in Jobs : RunAge(jobs[j], stored[jobs[j].profile], issued)

LoginsAge ==
  /\ \A p \in Profiles : stored[p] <= issued
  /\ \A t \in launched : t <= issued
  /\ \A t \in Tokens : /\ successor[t] # NoToken => t < successor[t] /\ successor[t] <= issued
                       /\ pending[t] # NoToken => t < pending[t] /\ pending[t] <= issued
DirsAge == \A d \in Profiles \X Tokens :
             temps[d] \in Tokens => temps[d] = d[2] \/ (d[2] < temps[d] /\ temps[d] <= issued)

HeldRun(j, run, held, lock) ==
  /\ run.spends => run.pc # "idle" /\ lock[run.token] = j
  /\ run.pc = "look" /\ held = run.token => lock[run.token] = j
HeldOK ==
  /\ locks \in [Tokens -> Jobs \cup {Free}]
  /\ \A j \in Jobs : HeldRun(j, jobs[j], stored[jobs[j].profile], locks)

Order == RunsAge /\ LoginsAge /\ DirsAge /\ HeldOK

\* What a profile holds is taken away, replaced by a younger login, or by a new one.
Rises == \A p \in Profiles : \/ stored'[p] \in {stored[p], NoToken}
                             \/ stored[p] # NoToken /\ stored'[p] > stored[p]
                             \/ stored'[p] > issued

LEMMA Numbers ==
  ASSUME TokenRefreshAssumption
  PROVE  Tokens \subseteq Int /\ (\A t \in Tokens : t > 0) /\ NoToken = 0 /\ Rejected = -1
BY DEF Tokens, NoToken, Rejected, TokenRefreshAssumption

\* A run that does not change stays in order when logins rise.
LEMMA Older ==
  ASSUME TokenRefreshAssumption, RunsOK, LoginsOK, RunsAge, Rises, issued' \in Int, issued <= issued',
         stored' \in [Profiles -> Tokens \cup {NoToken}],
         NEW k \in Jobs
  PROVE  RunAge(jobs[k], stored'[jobs[k].profile], issued')
<1> DEFINE p == jobs[k].profile
           t == jobs[k].token
<1>1. p \in Profiles /\ t \in Tokens \cup {NoToken} /\ jobs[k].rotated \in Tokens \cup {NoToken}
  BY DEF RunsOK, Run
<1>2. RunAge(jobs[k], stored[p], issued) BY DEF RunsAge
<1>3. stored[p] \in Int /\ stored'[p] \in Int /\ t \in Int /\ issued \in Int
      /\ jobs[k].rotated \in Int /\ NoToken \in Int
  BY <1>1, Numbers DEF LoginsOK
<1>4. \/ stored'[p] \in {stored[p], NoToken}
      \/ stored[p] # NoToken /\ stored'[p] > stored[p]
      \/ stored'[p] > issued
  BY <1>1 DEF Rises
<1> HIDE DEF p, t
<1>5. RunAge(jobs[k], stored'[p], issued') BY <1>2, <1>3, <1>4 DEF RunAge, t
<1>6. QED BY <1>5 DEF p

\* It keeps its lock: its profile cannot come to hold the token it waits with.
LEMMA HeldOn ==
  ASSUME TokenRefreshAssumption, RunsOK, LoginsOK, RunsAge, HeldOK, Rises,
         stored' \in [Profiles -> Tokens \cup {NoToken}],
         NEW k \in Jobs, \A t \in Tokens : locks[t] = k => locks'[t] = k
  PROVE  HeldRun(k, jobs[k], stored'[jobs[k].profile], locks')
<1> DEFINE p == jobs[k].profile
           t == jobs[k].token
<1>1. p \in Profiles /\ (jobs[k].pc # "idle" => t \in Tokens) BY DEF RunsOK, Run, RunOK
<1>2. HeldRun(k, jobs[k], stored[p], locks) BY DEF HeldOK
<1>3. ASSUME jobs[k].pc = "look", stored'[p] = t PROVE locks[t] = k
  <2>1. t \in Tokens BY <1>1, <1>3
  <2>2. RunAge(jobs[k], stored[p], issued) BY DEF RunsAge
  <2>3. stored[p] \in Int /\ stored'[p] \in Int /\ t \in Int /\ issued \in Int /\ t # NoToken
    BY <1>1, <2>1, Numbers DEF LoginsOK
  <2>4. \/ stored'[p] \in {stored[p], NoToken}
        \/ stored[p] # NoToken /\ stored'[p] > stored[p]
        \/ stored'[p] > issued
    BY <1>1 DEF Rises
  <2>5. t <= issued /\ (stored[p] = NoToken \/ stored[p] >= t) BY <1>3, <2>2 DEF RunAge
  <2>6. stored[p] = t
    <3> HIDE DEF p, t
    <3>1. QED BY <1>3, <2>3, <2>4, <2>5
  <2>7. QED BY <1>2, <1>3, <2>6 DEF HeldRun
<1>4. t \in Tokens /\ locks[t] = k => locks'[t] = k OBVIOUS
<1> HIDE DEF p, t
<1>5. HeldRun(k, jobs[k], stored'[p], locks') BY <1>1, <1>2, <1>3, <1>4 DEF HeldRun, t
<1>6. QED BY <1>5 DEF p

\* No run changes.
LEMMA RunsStay ==
  ASSUME TokenRefreshAssumption, IInv, IInv', Order, Rises, issued <= issued',
         UNCHANGED <<jobs, locks>>
  PROVE  RunsAge' /\ HeldOK'
<1>1. stored' \in [Profiles -> Tokens \cup {NoToken}] /\ issued' \in Int BY DEF IInv, LoginsOK
<1>2. RunsAge' BY <1>1, Older DEF IInv, Order, RunsAge
<1>3. HeldOK' BY <1>1, HeldOn DEF IInv, Order, HeldOK
<1>4. QED BY <1>2, <1>3

\* One run changes.
LEMMA OneChanges ==
  ASSUME TokenRefreshAssumption, IInv, IInv', Order, Rises, issued <= issued',
         locks' \in [Tokens -> Jobs \cup {Free}],
         NEW j \in Jobs, NEW run, Becomes(j, run),
         \A t \in Tokens : \A k \in Jobs \ {j} : locks[t] = k => locks'[t] = k,
         RunAge(run, stored'[run.profile], issued'),
         HeldRun(j, run, stored'[run.profile], locks')
  PROVE  RunsAge' /\ HeldOK'
<1>1. run \in Run /\ jobs' = [jobs EXCEPT ![j] = run] /\ jobs \in [Jobs -> Run]
  <2>1. jobs'[j] = run BY DEF Becomes, IInv, RunsOK
  <2>2. QED BY <2>1 DEF Becomes, IInv, RunsOK
<1>2. stored' \in [Profiles -> Tokens \cup {NoToken}] /\ issued' \in Int BY DEF IInv, LoginsOK
<1>3. ASSUME NEW k \in Jobs
      PROVE  /\ RunAge(jobs'[k], stored'[jobs'[k].profile], issued')
             /\ HeldRun(k, jobs'[k], stored'[jobs'[k].profile], locks')
  <2>1. CASE k = j BY <1>1, <2>1
  <2>2. CASE k # j
    <3>1. jobs'[k] = jobs[k] BY <1>1, <2>2
    <3>2. RunAge(jobs[k], stored'[jobs[k].profile], issued') BY <1>2, Older DEF IInv, Order
    <3>3. HeldRun(k, jobs[k], stored'[jobs[k].profile], locks')
      BY <1>2, <2>2, HeldOn DEF IInv, Order
    <3>4. QED BY <3>1, <3>2, <3>3
  <2>3. QED BY <2>1, <2>2
<1>4. QED BY <1>3 DEF RunsAge, HeldOK

\* A run that has taken its lock goes on, with the token it has.
LEMMA GoesOn ==
  ASSUME TokenRefreshAssumption, IInv, IInv', Order, Rises, issued <= issued', UNCHANGED locks,
         NEW j \in Jobs, NEW run, Becomes(j, run),
         run.token = jobs[j].token, run.profile = jobs[j].profile,
         run.spends => jobs[j].spends,
         \/ run.pc \notin {"idle", "lock", "look", "launch"}
         \/ run.pc = jobs[j].pc /\ UNCHANGED stored,
         \/ run.rotated = jobs[j].rotated
         \/ run.token < run.rotated /\ run.rotated <= issued
  PROVE  RunsAge' /\ HeldOK'
<1> DEFINE p == jobs[j].profile
           r == jobs[j]
<1>1. RunAge(r, stored[p], issued) /\ HeldRun(j, r, stored[p], locks)
  BY DEF Order, RunsAge, HeldOK
<1>2. r \in Run BY DEF IInv, RunsOK
<1>3. /\ r.token \in Int /\ r.rotated \in Int /\ issued \in Int /\ issued' \in Int
      /\ NoToken \in Int /\ stored[p] \in Int
  BY <1>2, Numbers DEF Run, IInv, LoginsOK
<1>4. run.rotated \in Int
  <2>1. jobs'[j] = run BY DEF Becomes, IInv, RunsOK
  <2>2. run \in Run BY <2>1 DEF IInv, RunsOK
  <2>3. QED BY <2>2, Numbers DEF Run
<1> HIDE DEF r
<1>5. RunAge(run, stored'[p], issued') BY <1>1, <1>3, <1>4 DEF RunAge, r
<1>6. HeldRun(j, run, stored'[p], locks') BY <1>1 DEF HeldRun, r
<1>7. locks' \in [Tokens -> Jobs \cup {Free}] BY DEF Order, HeldOK
<1>8. QED BY <1>5, <1>6, <1>7, OneChanges

\* A run that ends frees its lock and no other.
LEMMA Ends ==
  ASSUME TokenRefreshAssumption, IInv, IInv', Order, NEW j \in Jobs, Leave(j),
         UNCHANGED <<stored, issued>>
  PROVE  RunsAge' /\ HeldOK'
<1>1. Becomes(j, Idle) BY DEF Leave
<1>2. RunAge(Idle, stored'[Idle.profile], issued') BY DEF RunAge, Idle
<1>3. HeldRun(j, Idle, stored'[Idle.profile], locks') BY DEF HeldRun, Idle
<1>4. Rises BY DEF Rises
<1>5. issued <= issued' BY Numbers DEF IInv, LoginsOK
<1>6. locks' \in [Tokens -> Jobs \cup {Free}] BY DEF Leave, Order, HeldOK
<1>7. \A t \in Tokens : \A k \in Jobs \ {j} : locks[t] = k => locks'[t] = k BY DEF Leave
<1> HIDE DEF Leave
<1>8. QED BY <1>1, <1>2, <1>3, <1>4, <1>5, <1>6, <1>7, OneChanges

LEMMA DirsAgeForgotten ==
  ASSUME TokenRefreshAssumption, DirsOK, DirsAge, NEW dirs, Forget(dirs), UNCHANGED issued
  PROVE  DirsAge'
<1>1. NoToken \notin Tokens BY Numbers
<1>2. \A d \in Profiles \X Tokens : temps'[d] \in {temps[d], NoToken} BY DEF Forget, DirsOK
<1>3. QED BY <1>1, <1>2 DEF DirsAge

\* What Advanced finds in a run's directory is younger than the token it was for.
LEMMA AdvancedAge ==
  ASSUME TokenRefreshAssumption, IInv, Order, NEW d \in Profiles \X Tokens, Advanced(d) # NoToken
  PROVE  d[2] < Advanced(d) /\ Advanced(d) <= issued
BY DEF Advanced, Order, DirsAge

LEMMA AgesKept ==
  ASSUME LoginsAge, DirsAge, UNCHANGED <<stored, successor, issued, launched, pending, temps>>
  PROVE  LoginsAge' /\ DirsAge'
BY DEF LoginsAge, DirsAge

LEMMA Still ==
  ASSUME TokenRefreshAssumption, IInv, UNCHANGED <<stored, issued>>
  PROVE  Rises /\ issued <= issued'
BY DEF Rises, IInv, LoginsOK

LEMMA OrderPreparing ==
  ASSUME TokenRefreshAssumption, IInv, IInv', Order, NEW j \in Jobs,
         Acquire(j) \/ SettleLeftover(j) \/ Abandon(j) \/ Journal(j)
  PROVE  Order'
<1>0. jobs[j] \in Run /\ Job(j) = jobs[j] /\ HeldOK /\ RunsAge /\ LoginsAge /\ DirsAge
  BY DEF IInv, RunsOK, Job, Order
<1>1. CASE Acquire(j)
  <2> DEFINE p == jobs[j].profile
             run == [jobs[j] EXCEPT !.pc = "look"]
  <2>1. Rises /\ issued <= issued' BY <1>1, Still DEF Acquire, disk, world
  <2>2. LoginsAge' /\ DirsAge' BY <1>0, <1>1, AgesKept DEF Acquire, disk, world, history
  <2>3. CASE Leave(j) BY <1>1, <2>2, <2>3, Ends DEF Acquire, disk, world, Order
  <2>4. CASE (stored[p] # NoToken => locks[stored[p]] = Free) /\ Lock(stored[p], j) /\ GoTo(j, "look")
    <3>1. Becomes(j, run) BY <1>0, <2>4 DEF GoTo
    <3>2. RunAge(jobs[j], stored[p], issued) /\ jobs[j].pc = "lock"
      BY <1>0, <1>1 DEF RunsAge, Acquire, At
    <3>3. /\ run.pc = "look" /\ run.token = jobs[j].token /\ run.profile = p
          /\ run.rotated = jobs[j].rotated /\ run.spends = jobs[j].spends
      BY <1>0 DEF Run
    <3>4. stored' = stored /\ issued' = issued BY <1>1 DEF Acquire, disk, world
    <3>5. stored[p] \in Tokens \cup {NoToken} BY <1>0 DEF Run, IInv, LoginsOK
    <3>6. /\ locks' \in [Tokens -> Jobs \cup {Free}]
          /\ \A t \in Tokens : \A k \in Jobs \ {j} : locks[t] = k => locks'[t] = k
          /\ stored[p] # NoToken => locks'[stored[p]] = j
          /\ \A t \in Tokens : locks[t] = j => locks'[t] = j
      <4>1. Free \notin Jobs BY DEF TokenRefreshAssumption
      <4>2. locks \in [Tokens -> Jobs \cup {Free}] BY <1>0 DEF HeldOK
      <4>3. QED BY <2>4, <3>5, <4>1, <4>2 DEF Lock
    <3>7. HeldRun(j, jobs[j], stored[p], locks) BY <1>0 DEF HeldOK
    <3>8. RunOK(jobs[j], launched) /\ NoToken \notin Tokens BY Numbers DEF IInv, RunsOK
    <3>9. jobs[j].token \in Tokens BY <3>2, <3>8 DEF RunOK
    <3> HIDE DEF run, p
    <3>10. RunAge(run, stored'[run.profile], issued') BY <3>2, <3>3, <3>4 DEF RunAge
    <3>11. HeldRun(j, run, stored'[run.profile], locks')
      BY <3>3, <3>4, <3>6, <3>7, <3>8, <3>9 DEF HeldRun
    <3>12. QED BY <2>1, <2>2, <3>1, <3>6, <3>10, <3>11, OneChanges DEF Order
  <2>5. QED BY <1>0, <1>1, <2>3, <2>4 DEF Acquire
<1>2. CASE SettleLeftover(j)
  <2> DEFINE run == [jobs[j] EXCEPT !.pc = "settle", !.entry = state.journal[jobs[j].profile]]
  <2>1. Rises /\ issued <= issued' /\ UNCHANGED locks BY <1>2, Still DEF SettleLeftover, disk, world
  <2>2. LoginsAge' /\ DirsAge' BY <1>0, <1>2, AgesKept DEF SettleLeftover, disk, world, history
  <2>3. Becomes(j, run) BY <1>0, <1>2 DEF SettleLeftover
  <2>4. /\ run.token = jobs[j].token /\ run.profile = jobs[j].profile /\ run.pc = "settle"
        /\ run.spends = jobs[j].spends /\ run.rotated = jobs[j].rotated
    BY <1>0 DEF Run
  <2> HIDE DEF run
  <2>5. QED BY <2>1, <2>2, <2>3, <2>4, GoesOn DEF Order
<1>3. CASE Abandon(j)
  <2>1. LoginsAge' /\ DirsAge' BY <1>0, <1>3, AgesKept DEF Abandon, disk, world, history
  <2>2. QED BY <1>3, <2>1, Ends DEF Abandon, disk, world, Order
<1>4. CASE Journal(j)
  <2> DEFINE p == jobs[j].profile
             t == jobs[j].token
             run == [jobs[j] EXCEPT !.pc = "launch", !.spends = TRUE]
  <2>1. Rises /\ issued <= issued' BY <1>4, Still DEF Journal
  <2>2. RunOK(jobs[j], launched) /\ jobs[j].pc = "look" /\ stored[p] = t
    BY <1>0, <1>4 DEF IInv, RunsOK, Journal, At
  <2>3. t \in Tokens /\ p \in Profiles BY <1>0, <2>2 DEF RunOK, Run
  <2>4. LoginsAge' BY <1>0, <1>4 DEF Journal, LoginsAge
  <2>5. DirsAge'
    <3>1. temps' \in {temps, [temps EXCEPT ![<<p, t>>] = t]} BY <1>0, <1>4 DEF Journal
    <3>2. UNCHANGED issued BY <1>4 DEF Journal
    <3> HIDE DEF p, t
    <3>3. ASSUME NEW d \in Profiles \X Tokens, temps'[d] \in Tokens
          PROVE  temps'[d] = d[2] \/ (d[2] < temps'[d] /\ temps'[d] <= issued')
      <4>1. CASE temps'[d] = temps[d] BY <1>0, <3>2, <3>3, <4>1 DEF DirsAge
      <4>2. CASE d = <<p, t>> /\ temps'[d] = t BY <4>2
      <4>3. QED BY <3>1, <4>1, <4>2 DEF IInv, DirsOK
    <3>4. QED BY <3>3 DEF DirsAge
  <2>6. CASE Leave(j) BY <1>4, <2>4, <2>5, <2>6, Ends DEF Journal, Order
  <2>7. CASE Becomes(j, run) /\ UNCHANGED locks
    <3>1. /\ run.pc = "launch" /\ run.token = t /\ run.profile = p
          /\ run.rotated = jobs[j].rotated
      BY <1>0 DEF Run
    <3>2. RunAge(jobs[j], stored[p], issued) /\ HeldRun(j, jobs[j], stored[p], locks)
      BY <1>0 DEF RunsAge, HeldOK
    <3>3. UNCHANGED <<stored, issued>> BY <1>4 DEF Journal
    <3>4. locks[t] = j BY <2>2, <3>2 DEF HeldRun
    <3>5. locks' \in [Tokens -> Jobs \cup {Free}] BY <1>0, <2>7 DEF HeldOK
    <3> HIDE DEF run
    <3>6. RunAge(run, stored'[run.profile], issued') BY <2>2, <3>1, <3>2, <3>3 DEF RunAge
    <3>7. HeldRun(j, run, stored'[run.profile], locks') BY <2>7, <3>1, <3>4 DEF HeldRun
    <3>8. \A u \in Tokens : \A k \in Jobs \ {j} : locks[u] = k => locks'[u] = k BY <2>7
    <3>9. QED BY <2>1, <2>4, <2>5, <2>7, <3>5, <3>6, <3>7, <3>8, OneChanges DEF Order
  <2>8. QED BY <1>0, <1>4, <2>6, <2>7 DEF Journal
<1>5. QED BY <1>1, <1>2, <1>3, <1>4

LEMMA OrderRunning ==
  ASSUME TokenRefreshAssumption, IInv, IInv', Order, NEW j \in Jobs,
         Launch(j) \/ NoteStarted(j) \/ TimesOut(j)
  PROVE  Order'
<1>0. jobs[j] \in Run /\ Job(j) = jobs[j] /\ LoginsAge /\ DirsAge
  BY DEF IInv, RunsOK, Job, Order
<1>1. UNCHANGED <<stored, issued, locks, successor, pending, temps>>
  BY DEF Launch, NoteStarted, TimesOut, disk, world
<1>2. Rises /\ issued <= issued' BY <1>1, Still
<1>3. ASSUME NEW run, Becomes(j, run), run.token = jobs[j].token, run.profile = jobs[j].profile,
             run.spends = jobs[j].spends, run.rotated = jobs[j].rotated,
             run.pc \notin {"idle", "lock", "look", "launch"} \/ run.pc = jobs[j].pc
      PROVE  RunsAge' /\ HeldOK'
  BY <1>1, <1>2, <1>3, GoesOn
<1>4. DirsAge' BY <1>0, <1>1 DEF DirsAge
<1>5. CASE Launch(j)
  <2>1. RunAge(jobs[j], stored[jobs[j].profile], issued) BY DEF Order, RunsAge
  <2>2. jobs[j].token <= issued BY <1>0, <1>5, <2>1 DEF RunAge, Launch, At
  <2>3. launched' \subseteq launched \cup {jobs[j].token} BY <1>0, <1>5 DEF Launch
  <2>4. LoginsAge' BY <1>0, <1>1, <2>2, <2>3 DEF LoginsAge
  <2> DEFINE one == [jobs[j] EXCEPT !.pc = "note", !.exit = "running"]
             two == [jobs[j] EXCEPT !.pc = "wait", !.exit = "unsent"]
  <2>5. Becomes(j, one) \/ Becomes(j, two) BY <1>0, <1>5 DEF Launch
  <2>6. /\ one.token = jobs[j].token /\ one.profile = jobs[j].profile /\ one.pc = "note"
        /\ one.spends = jobs[j].spends /\ one.rotated = jobs[j].rotated
        /\ two.token = jobs[j].token /\ two.profile = jobs[j].profile /\ two.pc = "wait"
        /\ two.spends = jobs[j].spends /\ two.rotated = jobs[j].rotated
    BY <1>0 DEF Run
  <2> HIDE DEF one, two
  <2>7. QED BY <1>3, <1>4, <2>4, <2>5, <2>6 DEF Order
<1>6. CASE NoteStarted(j)
  <2> DEFINE run == [jobs[j] EXCEPT !.pc = "wait"]
  <2>1. Becomes(j, run) /\ UNCHANGED launched BY <1>0, <1>6 DEF NoteStarted, GoTo
  <2>2. /\ run.token = jobs[j].token /\ run.profile = jobs[j].profile /\ run.pc = "wait"
        /\ run.spends = jobs[j].spends /\ run.rotated = jobs[j].rotated
    BY <1>0 DEF Run
  <2> HIDE DEF run
  <2>3. LoginsAge' BY <1>0, <1>1, <2>1 DEF LoginsAge
  <2>4. QED BY <1>3, <1>4, <2>1, <2>2, <2>3 DEF Order
<1>7. CASE TimesOut(j)
  <2> DEFINE run == [jobs[j] EXCEPT !.exit = "failed"]
  <2>1. Becomes(j, run) /\ UNCHANGED launched BY <1>0, <1>7 DEF TimesOut, Exits, history
  <2>2. /\ run.token = jobs[j].token /\ run.profile = jobs[j].profile /\ run.pc = jobs[j].pc
        /\ run.spends = jobs[j].spends /\ run.rotated = jobs[j].rotated
    BY <1>0 DEF Run
  <2> HIDE DEF run
  <2>3. LoginsAge' BY <1>0, <1>1, <2>1 DEF LoginsAge
  <2>4. QED BY <1>3, <1>4, <2>1, <2>2, <2>3 DEF Order
<1>8. QED BY <1>5, <1>6, <1>7

\* The provider's answer is younger than the token it was for.
LEMMA AnsweredAge ==
  ASSUME TokenRefreshAssumption, IInv, Order, NEW d \in Profiles \X Tokens, NEW home,
         d[2] \in launched,
         \/ Idles \/ \E answered \in BOOLEAN : Spends(d, home, answered) \/ Refused(d, home),
         UNCHANGED <<stored, launched, pending>>
  PROVE  LoginsAge' /\ DirsAge' /\ issued <= issued'
<1>0. LoginsAge /\ DirsAge /\ issued \in Int BY DEF Order, IInv, LoginsOK
<1>1. CASE Idles BY <1>0, <1>1, AgesKept DEF Idles
<1>2. ASSUME NEW answered \in BOOLEAN, Spends(d, home, answered)
      PROVE  LoginsAge' /\ DirsAge' /\ issued <= issued'
  <2> DEFINE t == d[2]
  <2>1. issued' = issued + 1 /\ successor' = [successor EXCEPT ![t] = issued + 1]
    BY <1>2 DEF Spends
  <2>2. temps' \in {temps, [temps EXCEPT ![d] = issued + 1]} BY <1>2 DEF Spends, Writes
  <2>3. \A p \in Profiles : stored[p] \in Int BY Numbers DEF IInv, LoginsOK
  <2>4. \A u \in Tokens : u \in Int /\ pending[u] \in Int /\ successor[u] \in Int
    BY Numbers DEF IInv, LoginsOK
  <2>5. launched \subseteq Int BY Numbers DEF IInv, LoginsOK
  <2>6. LoginsAge'
    <3>1. \A p \in Profiles : stored'[p] <= issued' BY <1>0, <2>1, <2>3 DEF LoginsAge
    <3>2. \A u \in launched' : u <= issued' BY <1>0, <2>1, <2>5 DEF LoginsAge
    <3>3. ASSUME NEW u \in Tokens
          PROVE  /\ successor'[u] # NoToken => u < successor'[u] /\ successor'[u] <= issued'
                 /\ pending'[u] # NoToken => u < pending'[u] /\ pending'[u] <= issued'
      <4>1. pending'[u] # NoToken => u < pending'[u] /\ pending'[u] <= issued'
        BY <1>0, <2>1, <2>4 DEF LoginsAge
      <4>2. CASE u # t
        <5>1. successor'[u] = successor[u] BY <2>1, <4>2 DEF IInv, LoginsOK
        <5>2. QED BY <1>0, <2>1, <2>4, <4>1, <5>1 DEF LoginsAge
      <4>3. CASE u = t
        <5>1. successor'[u] = issued + 1 BY <2>1, <4>3 DEF IInv, LoginsOK
        <5>2. t <= issued BY <1>0 DEF LoginsAge
        <5>3. QED BY <1>0, <2>1, <2>4, <4>1, <4>3, <5>1, <5>2
      <4>4. QED BY <4>2, <4>3
    <3>4. QED BY <3>1, <3>2, <3>3 DEF LoginsAge
  <2>7. DirsAge'
    <3>1. ASSUME NEW e \in Profiles \X Tokens, temps'[e] \in Tokens
          PROVE  temps'[e] = e[2] \/ (e[2] < temps'[e] /\ temps'[e] <= issued')
      <4>1. CASE temps'[e] = temps[e]
        <5>1. temps[e] \in Int /\ e[2] \in Int BY <3>1, <4>1, Numbers
        <5>2. QED BY <1>0, <2>1, <3>1, <4>1, <5>1 DEF DirsAge
      <4>2. CASE e = d /\ temps'[e] = issued + 1
        <5>1. t <= issued /\ t \in Int BY <1>0, Numbers DEF LoginsAge
        <5>2. QED BY <1>0, <2>1, <4>2, <5>1
      <4>3. QED BY <2>2, <4>1, <4>2 DEF IInv, DirsOK
    <3>2. QED BY <3>1 DEF DirsAge
  <2>8. QED BY <1>0, <2>1, <2>6, <2>7
<1>3. CASE Refused(d, home)
  <2>1. UNCHANGED <<issued, successor>> BY <1>3 DEF Refused
  <2>2. LoginsAge' BY <1>0, <2>1 DEF LoginsAge
  <2>3. \A e \in Profiles \X Tokens : temps'[e] \in {temps[e], Rejected}
    BY <1>3 DEF Refused, Writes, IInv, DirsOK
  <2>4. Rejected \notin Tokens BY Numbers
  <2>5. DirsAge' BY <1>0, <2>1, <2>3, <2>4 DEF DirsAge
  <2>6. QED BY <1>0, <2>1, <2>2, <2>5
<1>4. QED BY <1>1, <1>2, <1>3

LEMMA OrderCliEnds ==
  ASSUME TokenRefreshAssumption, IInv, IInv', Order, NEW j \in Jobs, CliEnds(j)
  PROVE  Order'
<1> DEFINE d == <<jobs[j].profile, jobs[j].token>>
           run(how) == [jobs[j] EXCEPT !.exit = how]
<1>1. jobs[j] \in Run /\ Job(j) = jobs[j] /\ Dir(j) = d BY DEF IInv, RunsOK, Job, Dir
<1>2. jobs[j].token \in launched /\ launched \subseteq Tokens
  BY <1>1 DEF CliEnds, IInv, RunsOK, RunOK, LoginsOK
<1>3. d \in Profiles \X Tokens BY <1>1, <1>2 DEF Run
<1>4. LoginsAge' /\ DirsAge' /\ issued <= issued'
  <2>1. UNCHANGED <<stored, launched, pending>> BY DEF CliEnds
  <2>2. Idles \/ (\E answered \in BOOLEAN : Spends(d, TRUE, answered)) \/ Refused(d, TRUE)
    BY <1>1 DEF CliEnds
  <2>3. d[2] \in launched BY <1>2
  <2> HIDE DEF d
  <2>4. QED BY <1>3, <2>1, <2>2, <2>3, AnsweredAge
<1>5. PICK how : Becomes(j, run(how)) BY <1>1 DEF CliEnds, Exits
<1>6. /\ run(how).token = jobs[j].token /\ run(how).profile = jobs[j].profile
      /\ run(how).pc = jobs[j].pc /\ run(how).spends = jobs[j].spends
      /\ run(how).rotated = jobs[j].rotated
  BY <1>1 DEF Run
<1>7. Rises /\ UNCHANGED <<stored, locks>> BY DEF CliEnds, Rises
<1> HIDE DEF run
<1>8. QED BY <1>4, <1>5, <1>6, <1>7, GoesOn DEF Order

LEMMA OrderStrayEnds ==
  ASSUME TokenRefreshAssumption, IInv, IInv', Order, NEW d \in Profiles \X Tokens, StrayEnds(d)
  PROVE  Order'
<1> DEFINE home == strays[d] = "home"
<1>1. d[2] \in launched BY DEF StrayEnds, IInv, DirsOK
<1>2. UNCHANGED <<stored, launched, pending, jobs, locks>> BY DEF StrayEnds, memory
<1>3. Idles \/ (\E answered \in BOOLEAN : Spends(d, home, answered)) \/ Refused(d, home)
  BY DEF StrayEnds
<1>4. LoginsAge' /\ DirsAge' /\ issued <= issued'
  <2> HIDE DEF home
  <2>1. QED BY <1>1, <1>2, <1>3, AnsweredAge
<1>5. Rises BY <1>2 DEF Rises
<1>6. RunsAge' /\ HeldOK' BY <1>2, <1>4, <1>5, RunsStay
<1>7. QED BY <1>4, <1>6 DEF Order

LEMMA OrderCleared ==
  ASSUME TokenRefreshAssumption, IInv, IInv', Order, NEW j \in Jobs, NEW dirs,
         ClearJournal(j, dirs), UNCHANGED <<stored, issued>>
  PROVE  RunsAge' /\ HeldOK' /\ DirsAge'
<1>1. Leave(j) /\ \E any : Forget(any) BY DEF ClearJournal
<1>2. DirsAge' BY <1>1, DirsAgeForgotten DEF IInv, Order
<1>3. QED BY <1>1, <1>2, Ends

LEMMA OrderJudged ==
  ASSUME TokenRefreshAssumption, IInv, IInv', Order, NEW j \in Jobs, Judge(j),
         jobs[j].pc \in {"wait", "settle"}, UNCHANGED <<stored, issued>>
  PROVE  RunsAge' /\ HeldOK' /\ DirsAge'
<1> DEFINE run == [jobs[j] EXCEPT !.pc = "clear"]
<1>0. jobs[j] \in Run /\ Job(j) = jobs[j] BY DEF IInv, RunsOK, Job
<1>1. CASE Leave(j) /\ Forget(OwnDir(j)) BY <1>1, Ends, DirsAgeForgotten DEF IInv, Order
<1>2. CASE Becomes(j, run) /\ UNCHANGED <<temps, locks>>
  <2>1. /\ run.token = jobs[j].token /\ run.profile = jobs[j].profile /\ run.pc = "clear"
        /\ run.spends = jobs[j].spends /\ run.rotated = jobs[j].rotated
    BY <1>0 DEF Run
  <2>2. DirsAge' BY <1>2 DEF Order, DirsAge
  <2>3. Rises /\ issued <= issued' BY Still
  <2> HIDE DEF run
  <2>4. QED BY <1>2, <2>1, <2>2, <2>3, GoesOn
<1>3. QED BY <1>0, <1>1, <1>2 DEF Judge, GoTo

\* What is rotated is younger than the token it replaces.
LEMMA OrderRotated ==
  ASSUME TokenRefreshAssumption, IInv, IInv', Order, NEW j \in Jobs, NEW run, Becomes(j, run),
         UNCHANGED <<stored, issued, locks, successor, pending, launched, temps>>,
         run.token = jobs[j].token, run.profile = jobs[j].profile, run.spends = jobs[j].spends,
         run.pc \notin {"idle", "lock", "look", "launch"},
         \/ run.rotated = jobs[j].rotated
         \/ run.token < run.rotated /\ run.rotated <= issued
  PROVE  Order'
<1>1. Rises /\ issued <= issued' BY Still
<1>2. RunsAge' /\ HeldOK' BY <1>1, GoesOn
<1>3. LoginsAge' /\ DirsAge' BY AgesKept DEF Order
<1>4. QED BY <1>2, <1>3 DEF Order

LEMMA OrderClassifying ==
  ASSUME TokenRefreshAssumption, IInv, IInv', Order, NEW j \in Jobs,
         FindRotated(j) \/ FindUnsent(j) \/ FindSpent(j)
  PROVE  Order'
<1> DEFINE d == <<jobs[j].profile, jobs[j].token>>
<1>0. jobs[j] \in Run /\ Job(j) = jobs[j] /\ Dir(j) = d /\ jobs[j].pc = "wait"
  BY DEF IInv, RunsOK, Job, Dir, FindRotated, FindUnsent, FindSpent, Ended, At
<1>1. d \in Profiles \X Tokens
  <2>1. RunOK(jobs[j], launched) BY DEF IInv, RunsOK
  <2>2. QED BY <1>0, <2>1 DEF Run, RunOK
<1>2. CASE FindRotated(j)
  <2> DEFINE run == [jobs[j] EXCEPT !.pc = "rescue", !.rotated = Advanced(d)]
  <2>1. Becomes(j, run) /\ Advanced(d) # NoToken BY <1>0, <1>2 DEF FindRotated
  <2>2. UNCHANGED <<stored, issued, locks, successor, pending, launched, temps>>
    BY <1>2 DEF FindRotated, disk, world, history
  <2>3. jobs[j].token < Advanced(d) /\ Advanced(d) <= issued
    <3>1. d[2] = jobs[j].token OBVIOUS
    <3> HIDE DEF d
    <3>2. QED BY <1>1, <2>1, <3>1, AdvancedAge
  <2>4. /\ run.token = jobs[j].token /\ run.profile = jobs[j].profile /\ run.pc = "rescue"
        /\ run.spends = jobs[j].spends /\ run.rotated = Advanced(d)
    BY <1>0 DEF Run
  <2> HIDE DEF run, d
  <2>5. QED BY <2>1, <2>2, <2>3, <2>4, OrderRotated
<1>3. CASE FindUnsent(j)
  <2>1. LoginsAge' BY <1>3 DEF FindUnsent, Order, LoginsAge
  <2>2. UNCHANGED <<stored, issued>> BY <1>3 DEF FindUnsent
  <2>3. PICK dirs : ClearJournal(j, dirs) BY <1>3 DEF FindUnsent
  <2>4. QED BY <2>1, <2>2, <2>3, OrderCleared DEF Order
<1>4. CASE FindSpent(j)
  <2>1. LoginsAge' BY <1>4 DEF FindSpent, Order, LoginsAge, history
  <2>2. UNCHANGED <<stored, issued>> /\ Judge(j) BY <1>4 DEF FindSpent
  <2>3. QED BY <1>0, <2>1, <2>2, OrderJudged DEF Order
<1>5. QED BY <1>2, <1>3, <1>4

LEMMA PendingAge ==
  ASSUME TokenRefreshAssumption, LoginsOK, LoginsAge, NEW t \in Tokens, NEW s,
         s = NoToken \/ (t < s /\ s <= issued), pending' = [pending EXCEPT ![t] = s],
         UNCHANGED <<stored, successor, issued, launched>>
  PROVE  LoginsAge'
BY DEF LoginsAge, LoginsOK

LEMMA OrderCommitting ==
  ASSUME TokenRefreshAssumption, IInv, IInv', Order, NEW j \in Jobs,
         WriteRescue(j) \/ Mark(j) \/ List(j)
  PROVE  Order'
<1>0. jobs[j] \in Run /\ Job(j) = jobs[j] BY DEF IInv, RunsOK, Job
<1>1. CASE WriteRescue(j)
  <2> DEFINE one == [jobs[j] EXCEPT !.pc = "mark", !.rescued = TRUE]
             two == [jobs[j] EXCEPT !.pc = "mark", !.keep = TRUE]
  <2>1. Becomes(j, one) \/ Becomes(j, two) BY <1>0, <1>1 DEF WriteRescue
  <2>2. UNCHANGED <<stored, issued, locks, successor, launched, temps>>
    BY <1>1 DEF WriteRescue, world, history
  <2>3. RunAge(jobs[j], stored[jobs[j].profile], issued) /\ RunOK(jobs[j], launched)
        /\ jobs[j].pc = "rescue"
    BY <1>0, <1>1 DEF Order, RunsAge, IInv, RunsOK, WriteRescue, At
  <2>4. LoginsAge'
    <3>1. jobs[j].token \in Tokens BY <2>3 DEF RunOK
    <3>2. pending' = [pending EXCEPT ![jobs[j].token] = jobs[j].rotated]
      BY <1>0, <1>1 DEF WriteRescue, HoldPending
    <3>3. jobs[j].rotated = NoToken \/ (jobs[j].token < jobs[j].rotated /\ jobs[j].rotated <= issued)
      BY <2>3 DEF RunAge
    <3>4. QED BY <2>2, <3>1, <3>2, <3>3, PendingAge DEF IInv, Order
  <2>5. DirsAge' BY <2>2 DEF Order, DirsAge
  <2>6. /\ one.token = jobs[j].token /\ one.profile = jobs[j].profile /\ one.pc = "mark"
        /\ one.spends = jobs[j].spends /\ one.rotated = jobs[j].rotated
        /\ two.token = jobs[j].token /\ two.profile = jobs[j].profile /\ two.pc = "mark"
        /\ two.spends = jobs[j].spends /\ two.rotated = jobs[j].rotated
    BY <1>0 DEF Run
  <2>7. Rises /\ issued <= issued' BY <2>2, Still
  <2> HIDE DEF one, two
  <2>8. RunsAge' /\ HeldOK' BY <2>1, <2>2, <2>6, <2>7, GoesOn
  <2>9. QED BY <2>4, <2>5, <2>8 DEF Order
<1>2. CASE Mark(j)
  <2> DEFINE one == [jobs[j] EXCEPT !.pc = "list"]
             two == [jobs[j] EXCEPT !.pc = "list", !.keep = TRUE]
  <2>1. Becomes(j, one) \/ Becomes(j, two) BY <1>0, <1>2 DEF Mark, GoTo
  <2>2. UNCHANGED <<stored, issued, locks, successor, pending, launched, temps>>
    BY <1>2 DEF Mark, world
  <2>3. /\ one.token = jobs[j].token /\ one.profile = jobs[j].profile /\ one.pc = "list"
        /\ one.spends = jobs[j].spends /\ one.rotated = jobs[j].rotated
        /\ two.token = jobs[j].token /\ two.profile = jobs[j].profile /\ two.pc = "list"
        /\ two.spends = jobs[j].spends /\ two.rotated = jobs[j].rotated
    BY <1>0 DEF Run
  <2> HIDE DEF one, two
  <2>4. QED BY <2>1, <2>2, <2>3, OrderRotated
<1>3. CASE List(j)
  <2> DEFINE run == [jobs[j] EXCEPT !.pc = "commit", !.todo = Holders(jobs[j].token)]
  <2>1. Becomes(j, run) BY <1>0, <1>3 DEF List
  <2>2. UNCHANGED <<stored, issued, locks, successor, pending, launched, temps>>
    BY <1>3 DEF List, disk, world, history
  <2>3. /\ run.token = jobs[j].token /\ run.profile = jobs[j].profile /\ run.pc = "commit"
        /\ run.spends = jobs[j].spends /\ run.rotated = jobs[j].rotated
    BY <1>0 DEF Run
  <2> HIDE DEF run
  <2>4. QED BY <2>1, <2>2, <2>3, OrderRotated
<1>4. QED BY <1>1, <1>2, <1>3

\* A profile done leaves the rest of the run as it was.
LEMMA DoneOne ==
  ASSUME NEW r \in Run, NEW new, NEW todo,
         new = [r EXCEPT !.todo = todo, !.committed = TRUE] \/ new = [r EXCEPT !.todo = todo]
  PROVE  /\ new.token = r.token /\ new.profile = r.profile /\ new.pc = r.pc
         /\ new.spends = r.spends /\ new.rotated = r.rotated
<1>1. CASE new = [r EXCEPT !.todo = todo, !.committed = TRUE] BY <1>1 DEF Run
<1>2. CASE new = [r EXCEPT !.todo = todo] BY <1>2 DEF Run
<1>3. QED BY <1>1, <1>2

\* A commit replaces the spent token by the younger one rotated from it.
LEMMA OrderCommitOne ==
  ASSUME TokenRefreshAssumption, IInv, IInv', Order, NEW j \in Jobs, CommitOne(j)
  PROVE  Order'
<1> DEFINE t == jobs[j].token
           s == jobs[j].rotated
           one(p) == [jobs[j] EXCEPT !.todo = @ \ {p}, !.committed = TRUE]
           two(p) == [jobs[j] EXCEPT !.todo = @ \ {p}]
<1>0. /\ jobs[j] \in Run /\ Job(j) = jobs[j] /\ jobs[j].pc = "commit"
      /\ RunOK(jobs[j], launched) /\ RunAge(jobs[j], stored[jobs[j].profile], issued)
  BY DEF IInv, RunsOK, Order, RunsAge, CommitOne, At, Job
<1>1. t \in Tokens /\ t # NoToken /\ (s # NoToken => t < s /\ s <= issued)
  BY <1>0, Numbers DEF RunOK, RunAge
<1>2. UNCHANGED <<issued, locks, successor, pending, launched, temps>> BY DEF CommitOne, world
<1>3. \/ UNCHANGED stored
      \/ \E q \in Profiles : stored[q] = t /\ stored' = [stored EXCEPT ![q] = s]
  <2>1. \A p \in jobs[j].todo : \A q \in Receivers(p, t) : q \in Profiles /\ stored[q] = t
    BY <1>0 DEF Receivers, Holders, Run
  <2>2. QED BY <1>0, <2>1 DEF CommitOne
<1>4. Rises
  <2>1. ASSUME NEW q \in Profiles, stored[q] = t, stored' = [stored EXCEPT ![q] = s] PROVE Rises
    BY <1>1, <2>1 DEF Rises, IInv, LoginsOK
  <2>2. QED BY <1>3, <2>1 DEF Rises
<1>5. PICK p \in jobs[j].todo : Becomes(j, one(p)) \/ Becomes(j, two(p))
  <2>1. PICK p \in Job(j).todo :
           \/ Becomes(j, [Job(j) EXCEPT !.todo = @ \ {p}, !.committed = TRUE])
           \/ Becomes(j, [Job(j) EXCEPT !.todo = @ \ {p}])
    BY Zenon DEF CommitOne
  <2>2. p \in jobs[j].todo BY <1>0, <2>1
  <2>3. /\ [Job(j) EXCEPT !.todo = @ \ {p}, !.committed = TRUE] = one(p)
        /\ [Job(j) EXCEPT !.todo = @ \ {p}] = two(p)
    BY <1>0
  <2> HIDE DEF one, two
  <2>4. QED BY <2>1, <2>2, <2>3
<1>6. PICK run : Becomes(j, run) /\ run \in {one(p), two(p)} BY <1>5
<1>7. /\ run.token = t /\ run.profile = jobs[j].profile /\ run.pc = "commit"
      /\ run.spends = jobs[j].spends /\ run.rotated = s
  <2> DEFINE left == jobs[j].todo \ {p}
             old == jobs[j]
  <2>1. \/ run = [old EXCEPT !.todo = left, !.committed = TRUE]
        \/ run = [old EXCEPT !.todo = left]
    BY <1>6
  <2>2. old \in Run BY <1>0
  <2> HIDE DEF left, old
  <2>3. /\ run.token = old.token /\ run.profile = old.profile /\ run.pc = old.pc
        /\ run.spends = old.spends /\ run.rotated = old.rotated
    BY <2>1, <2>2, DoneOne, Zenon
  <2>4. QED BY <1>0, <2>3 DEF old
<1>8. issued <= issued' BY <1>2 DEF IInv, LoginsOK
<1>9. RunsAge' /\ HeldOK'
  <2> HIDE DEF one, two
  <2>1. QED BY <1>2, <1>4, <1>6, <1>7, <1>8, GoesOn
<1>10. LoginsAge'
  <2>1. \A p1 \in Profiles : stored'[p1] <= issued'
    <3>1. s \in Int /\ issued \in 0..MaxToken /\ NoToken = 0 BY <1>0, Numbers DEF Run, IInv, LoginsOK
    <3>2. s <= issued BY <1>1, <3>1
    <3>3. QED BY <1>2, <1>3, <3>2 DEF Order, LoginsAge, IInv, LoginsOK
  <2>2. QED BY <1>2, <2>1 DEF Order, LoginsAge
<1>11. DirsAge' BY <1>2 DEF Order, DirsAge
<1>12. QED BY <1>9, <1>10, <1>11 DEF Order

LEMMA OrderFinishing ==
  ASSUME TokenRefreshAssumption, IInv, IInv', Order, NEW j \in Jobs,
         FinishPartly(j) \/ Finish(j) \/ Clear(j)
  PROVE  Order'
<1>0. /\ jobs[j] \in Run /\ Job(j) = jobs[j]
      /\ RunOK(jobs[j], launched) /\ RunAge(jobs[j], stored[jobs[j].profile], issued)
  BY DEF IInv, RunsOK, Job, Order, RunsAge
<1>1. jobs[j].token \in Tokens BY <1>0 DEF RunOK, FinishPartly, Finish, Clear, At
<1>2. CASE FinishPartly(j)
  <2>1. UNCHANGED <<stored, issued, successor, launched>> BY <1>2 DEF FinishPartly, history
  <2>2. LoginsAge'
    <3>1. pending' = [pending EXCEPT ![jobs[j].token] = jobs[j].rotated]
      BY <1>0, <1>2 DEF FinishPartly, HoldPending
    <3>2. jobs[j].rotated = NoToken \/ (jobs[j].token < jobs[j].rotated /\ jobs[j].rotated <= issued)
      BY <1>0 DEF RunAge
    <3>3. QED BY <1>1, <2>1, <3>1, <3>2, PendingAge DEF IInv, Order
  <2>3. Leave(j) /\ Forget(OwnDir(j)) BY <1>2 DEF FinishPartly
  <2>4. QED BY <2>1, <2>2, <2>3, Ends, DirsAgeForgotten DEF IInv, Order
<1>3. CASE Finish(j)
  <2> DEFINE run == [jobs[j] EXCEPT !.pc = "clear", !.keep = FALSE,
                       !.rescued = @ /\ (jobs[j].spends => jobs[j].committed)]
  <2>1. Becomes(j, run) BY <1>0, <1>3 DEF Finish
  <2>2. UNCHANGED <<stored, issued, locks, successor, pending, launched, temps>>
    BY <1>3 DEF Finish, disk, world, history
  <2>3. /\ run.token = jobs[j].token /\ run.profile = jobs[j].profile /\ run.pc = "clear"
        /\ run.spends = jobs[j].spends /\ run.rotated = jobs[j].rotated
    BY <1>0 DEF Run
  <2> HIDE DEF run
  <2>4. QED BY <2>1, <2>2, <2>3, OrderRotated
<1>4. CASE Clear(j)
  <2>1. UNCHANGED <<stored, issued, successor, launched>> BY <1>4 DEF Clear
  <2>2. LoginsAge'
    <3>1. UNCHANGED pending \/ pending' = [pending EXCEPT ![jobs[j].token] = NoToken]
      BY <1>0, <1>4 DEF Clear, DropPending
    <3>2. CASE UNCHANGED pending BY <2>1, <3>2 DEF Order, LoginsAge
    <3>3. QED BY <1>1, <2>1, <3>1, <3>2, PendingAge DEF IInv, Order
  <2>3. PICK dirs : ClearJournal(j, dirs) BY <1>4 DEF Clear
  <2>4. QED BY <2>1, <2>2, <2>3, OrderCleared DEF Order
<1>5. QED BY <1>2, <1>3, <1>4

\* So is what the settling of an entry finds.
LEMMA RecoveredAge ==
  ASSUME TokenRefreshAssumption, IInv, Order, NEW e, NEW p \in Profiles, e.token \in Tokens,
         Recovered(e, p) # NoToken
  PROVE  e.token < Recovered(e, p) /\ Recovered(e, p) <= issued
<1> DEFINE t == e.token
           d == <<p, e.token>>
<1>1. successor[t] # NoToken => t < successor[t] /\ successor[t] <= issued
  BY DEF Order, LoginsAge
<1>2. pending[t] # NoToken => t < pending[t] /\ pending[t] <= issued BY DEF Order, LoginsAge
<1>3. Advanced(d) # NoToken => t < Advanced(d) /\ Advanced(d) <= issued
  <2>1. d \in Profiles \X Tokens /\ d[2] = t OBVIOUS
  <2> HIDE DEF d, t
  <2>2. QED BY <2>1, AdvancedAge
<1>4. Recovered(e, p) \in {successor[t], pending[t], Advanced(d), NoToken} BY DEF Recovered
<1> HIDE DEF t, d
<1>5. t < Recovered(e, p) /\ Recovered(e, p) <= issued BY <1>1, <1>2, <1>3, <1>4
<1>6. QED BY <1>5 DEF t

LEMMA OrderSettling ==
  ASSUME TokenRefreshAssumption, IInv, IInv', Order, NEW j \in Jobs,
         SettleGone(j) \/ SettleRotated(j) \/ SettleUnsent(j) \/ SettleUnknown(j)
  PROVE  Order'
<1>0. /\ jobs[j] \in Run /\ Job(j) = jobs[j] /\ jobs[j].pc = "settle" /\ UNCHANGED stored
      /\ RunOK(jobs[j], launched)
  BY DEF IInv, RunsOK, Job, SettleGone, SettleRotated, SettleUnsent, SettleUnknown, Settling, At
<1>1. jobs[j].token \in Tokens /\ jobs[j].entry.token = jobs[j].token /\ jobs[j].profile \in Profiles
  BY <1>0 DEF RunOK, Run
<1>2. CASE SettleGone(j)
  <2>1. UNCHANGED <<stored, issued, successor, launched>> BY <1>0, <1>2 DEF SettleGone
  <2>2. LoginsAge'
    <3>1. pending' = [pending EXCEPT ![jobs[j].token] = NoToken]
      BY <1>0, <1>2 DEF SettleGone, DropPending
    <3>2. QED BY <1>1, <2>1, <3>1, PendingAge DEF IInv, Order
  <2>3. PICK dirs : ClearJournal(j, dirs) BY <1>2 DEF SettleGone
  <2>4. QED BY <2>1, <2>2, <2>3, OrderCleared DEF Order
<1>3. CASE SettleRotated(j)
  <2> DEFINE s == Recovered(jobs[j].entry, jobs[j].profile)
             run == [jobs[j] EXCEPT !.pc = "list", !.rotated = s, !.rescued = jobs[j].entry.rescue]
  <2>1. Becomes(j, run) /\ s # NoToken BY <1>0, <1>3 DEF SettleRotated
  <2>2. UNCHANGED <<stored, issued, locks, successor, pending, launched, temps>>
    BY <1>0, <1>3 DEF SettleRotated, world, history
  <2>3. jobs[j].token < s /\ s <= issued BY <1>1, <2>1, RecoveredAge
  <2>4. /\ run.token = jobs[j].token /\ run.profile = jobs[j].profile /\ run.pc = "list"
        /\ run.spends = jobs[j].spends /\ run.rotated = s
    BY <1>0 DEF Run
  <2> HIDE DEF run, s
  <2>5. QED BY <2>1, <2>2, <2>3, <2>4, OrderRotated
<1>4. CASE SettleUnsent(j)
  <2>1. UNCHANGED <<stored, issued, successor, launched, pending>> BY <1>0, <1>4 DEF SettleUnsent
  <2>2. LoginsAge' BY <2>1 DEF Order, LoginsAge
  <2>3. PICK dirs : ClearJournal(j, dirs) BY <1>4 DEF SettleUnsent
  <2>4. QED BY <2>1, <2>2, <2>3, OrderCleared DEF Order
<1>5. CASE SettleUnknown(j)
  <2>1. UNCHANGED <<stored, issued, successor, launched, pending>>
    BY <1>0, <1>5 DEF SettleUnknown, history
  <2>2. LoginsAge' BY <2>1 DEF Order, LoginsAge
  <2>3. Judge(j) BY <1>5 DEF SettleUnknown
  <2>4. QED BY <1>0, <2>1, <2>2, <2>3, OrderJudged DEF Order
<1>6. QED BY <1>2, <1>3, <1>4, <1>5

LEMMA OrderDeciding ==
  ASSUME TokenRefreshAssumption, IInv, IInv', Order, NEW p \in Profiles,
         \/ Due(p) \/ \E h \in Handlers : Incoming(h, p)
  PROVE  Order'
<1>0. stored[p] \in Tokens /\ stored[p] <= issued /\ NoToken \notin Tokens
      /\ locks \in [Tokens -> Jobs \cup {Free}] /\ Free \notin Jobs
  <2>1. stored[p] \in Tokens \cup {NoToken} BY DEF IInv, LoginsOK
  <2>2. stored[p] # NoToken BY DEF Due, Incoming, MayRefresh
  <2>3. QED BY <2>1, <2>2, Numbers DEF Order, LoginsAge, HeldOK, TokenRefreshAssumption
<1> DEFINE run(pc) == [Idle EXCEPT !.pc = pc, !.profile = p, !.token = stored[p]]
<1>1. \A pc : /\ run(pc).pc = pc /\ run(pc).profile = p /\ run(pc).token = stored[p]
              /\ run(pc).rotated = NoToken /\ run(pc).spends = FALSE
  BY DEF Idle
<1>2. UNCHANGED <<stored, issued, successor, launched, pending, temps>>
  BY DEF Due, Incoming, disk, world, history
<1>3. Rises /\ issued <= issued' BY <1>2, Still
<1>4. LoginsAge' /\ DirsAge' BY <1>2, AgesKept DEF Order
<1>5. \A pc : RunAge(run(pc), stored'[p], issued')
  <2>1. stored[p] >= stored[p] BY <1>0, Numbers
  <2> HIDE DEF run
  <2>2. QED BY <1>0, <1>1, <1>2, <2>1 DEF RunAge
<1>6. CASE Due(p)
  <2>1. Becomes(Ticker, run("lock")) /\ Ticker \in Jobs /\ UNCHANGED locks
    BY <1>6 DEF Due, Jobs
  <2>2. HeldRun(Ticker, run("lock"), stored'[p], locks')
    <3> HIDE DEF run
    <3>1. QED BY <1>1 DEF HeldRun
  <2> HIDE DEF run
  <2>3. RunsAge' /\ HeldOK' BY <1>0, <1>1, <1>3, <1>5, <2>1, <2>2, OneChanges
  <2>4. QED BY <1>4, <2>3 DEF Order
<1>7. ASSUME NEW h \in Handlers, Incoming(h, p) PROVE Order'
  <2>1. /\ Becomes(h, run("look")) /\ h \in Jobs
        /\ locks[stored[p]] = Free /\ locks' = [locks EXCEPT ![stored[p]] = h]
    BY <1>7 DEF Incoming, Jobs
  <2>2. locks' \in [Tokens -> Jobs \cup {Free}] /\ locks'[stored[p]] = h BY <1>0, <2>1
  <2>3. \A t \in Tokens : \A k \in Jobs \ {h} : locks[t] = k => locks'[t] = k BY <1>0, <2>1
  <2> HIDE DEF run
  <2>4. HeldRun(h, run("look"), stored'[p], locks') BY <1>1, <1>2, <2>2 DEF HeldRun
  <2>5. RunAge(run("look"), stored'[run("look").profile], issued')
        /\ HeldRun(h, run("look"), stored'[run("look").profile], locks')
    BY <1>1, <1>5, <2>4
  <2>6. RunsAge' /\ HeldOK' BY <1>3, <2>1, <2>2, <2>3, <2>5, OneChanges
  <2>7. QED BY <1>4, <2>6 DEF Order
<1>8. QED BY <1>6, <1>7

LEMMA OrderSurroundings ==
  ASSUME TokenRefreshAssumption, IInv, IInv', Order,
         \/ Bootstrap \/ Toggle \/ Stop
         \/ \E p \in Profiles : Recover(p) \/ Login(p) \/ Remove(p)
  PROVE  Order'
<1>0. RunsAge /\ LoginsAge /\ DirsAge /\ HeldOK BY DEF Order
<1>1. CASE Bootstrap \/ Toggle
  <2>1. UNCHANGED <<stored, issued, locks, jobs, successor, launched, pending, temps>>
    BY <1>1 DEF Bootstrap, Toggle, disk, world, history
  <2>2. RunsAge' /\ HeldOK' BY <2>1, Still, RunsStay
  <2>3. QED BY <1>0, <2>1, <2>2, AgesKept DEF Order
<1>2. CASE Stop
  <2>1. UNCHANGED <<stored, issued, successor, launched, temps>> BY <1>2 DEF Stop, disk
  <2>2. jobs' = [k \in Jobs |-> Idle] /\ locks' = [t \in Tokens |-> Free] BY <1>2 DEF Stop
  <2>3. RunsAge' BY <2>2 DEF RunsAge, RunAge, Idle
  <2>4. HeldOK' BY <2>2 DEF HeldOK, HeldRun, Idle
  <2>5. pending' = [t \in Tokens |-> NoToken] BY <1>2 DEF Stop
  <2>6. LoginsAge' BY <1>0, <2>1, <2>5 DEF LoginsAge
  <2>7. DirsAge' BY <1>0, <2>1 DEF DirsAge
  <2>8. QED BY <2>3, <2>4, <2>6, <2>7 DEF Order
<1>3. ASSUME NEW p \in Profiles, Recover(p) PROVE Order'
  <2> DEFINE e == backlog[p]
             run == [Idle EXCEPT !.pc = "settle", !.profile = p, !.token = e.token, !.entry = e]
  <2>1. UNCHANGED <<stored, issued, locks, successor, launched, pending, temps>>
    BY <1>3, Zenon DEF Recover, disk, world, history
  <2>2. Becomes(Ticker, run) /\ Ticker \in Jobs BY <1>3, Zenon DEF Recover, Jobs
  <2>3. run.pc = "settle" /\ run.rotated = NoToken /\ run.spends = FALSE BY DEF Idle
  <2> HIDE DEF run
  <2>4. RunAge(run, stored'[run.profile], issued') /\ HeldRun(Ticker, run, stored'[run.profile], locks')
    BY <2>3 DEF RunAge, HeldRun
  <2>5. Rises /\ issued <= issued' BY <2>1, Still
  <2>6. locks' \in [Tokens -> Jobs \cup {Free}] BY <1>0, <2>1 DEF HeldOK
  <2>7. RunsAge' /\ HeldOK' BY <2>1, <2>2, <2>4, <2>5, <2>6, OneChanges
  <2>8. QED BY <1>0, <2>1, <2>7, AgesKept DEF Order
<1>4. ASSUME NEW p \in Profiles, Login(p) PROVE Order'
  <2>1. stored' = [stored EXCEPT ![p] = issued + 1] /\ issued' = issued + 1 /\ issued \in Int
    BY <1>4 DEF Login, IInv, LoginsOK
  <2>2. UNCHANGED <<jobs, locks, successor, launched, pending, temps>>
    BY <1>4 DEF Login, memory, history
  <2>3. /\ \A q \in Profiles : stored[q] \in Int
        /\ \A t \in Tokens : t \in Int /\ successor[t] \in Int /\ pending[t] \in Int
        /\ launched \subseteq Int /\ Tokens \subseteq Int
    BY Numbers DEF IInv, LoginsOK
  <2>4. Rises /\ issued <= issued' BY <2>1 DEF Rises, IInv, LoginsOK
  <2>5. RunsAge' /\ HeldOK' BY <2>2, <2>4, RunsStay
  <2>6. LoginsAge'
    <3>1. \A q \in Profiles : stored'[q] <= issued'
      BY <1>0, <2>1, <2>3 DEF LoginsAge, IInv, LoginsOK
    <3>2. \A t \in launched' : t <= issued' BY <1>0, <2>1, <2>2, <2>3 DEF LoginsAge
    <3>3. \A t \in Tokens :
            /\ successor'[t] # NoToken => t < successor'[t] /\ successor'[t] <= issued'
            /\ pending'[t] # NoToken => t < pending'[t] /\ pending'[t] <= issued'
      BY <1>0, <2>1, <2>2, <2>3 DEF LoginsAge
    <3>4. QED BY <3>1, <3>2, <3>3 DEF LoginsAge
  <2>7. ASSUME NEW d \in Profiles \X Tokens, temps[d] \in Tokens
        PROVE  temps[d] = d[2] \/ (d[2] < temps[d] /\ temps[d] <= issued')
    <3>1. temps[d] = d[2] \/ (d[2] < temps[d] /\ temps[d] <= issued) BY <1>0, <2>7 DEF DirsAge
    <3>2. temps[d] \in Int BY <2>3, <2>7
    <3>3. QED BY <2>1, <3>1, <3>2
  <2>8. DirsAge' BY <2>2, <2>7 DEF DirsAge
  <2>9. QED BY <2>5, <2>6, <2>8 DEF Order
<1>5. ASSUME NEW p \in Profiles, Remove(p) PROVE Order'
  <2>1. stored' = [stored EXCEPT ![p] = NoToken] BY <1>5 DEF Remove
  <2>2. UNCHANGED <<issued, jobs, locks, successor, launched, pending, temps>>
    BY <1>5 DEF Remove, memory, world
  <2>3. Rises BY <2>1 DEF Rises, IInv, LoginsOK
  <2>4. issued <= issued' /\ NoToken <= issued BY <2>2, Numbers DEF IInv, LoginsOK
  <2>5. RunsAge' /\ HeldOK' BY <2>2, <2>3, <2>4, RunsStay
  <2>6. LoginsAge' BY <1>0, <2>1, <2>2, <2>4 DEF LoginsAge, IInv, LoginsOK
  <2>7. DirsAge' BY <1>0, <2>2 DEF DirsAge
  <2>8. QED BY <2>5, <2>6, <2>7 DEF Order
<1>6. QED BY <1>1, <1>2, <1>3, <1>4, <1>5

LEMMA OrderInit == TokenRefreshAssumption /\ Init => Order
<1> SUFFICES ASSUME TokenRefreshAssumption, Init PROVE Order
  OBVIOUS
<1>1. RunsAge BY DEF Init, RunsAge, RunAge, Idle
<1>2. LoginsAge BY DEF Init, LoginsAge
<1>3. NoToken \notin Tokens BY Numbers
<1>4. DirsAge BY <1>3 DEF Init, DirsAge
<1>5. HeldOK BY DEF Init, HeldOK, HeldRun, Idle
<1>6. QED BY <1>1, <1>2, <1>4, <1>5 DEF Order

LEMMA OrderNext == TokenRefreshAssumption /\ IInv /\ Order /\ [Next]_vars => Order'
<1> SUFFICES ASSUME TokenRefreshAssumption, IInv, Order, [Next]_vars PROVE Order'
  OBVIOUS
<1>0. IInv' BY InvNext
<1>1. CASE UNCHANGED vars
  <2>1. UNCHANGED <<stored, issued, locks, jobs, successor, launched, pending, temps>>
    BY <1>1 DEF vars, disk, memory, world, history
  <2>2. RunsAge' /\ HeldOK' BY <1>0, <2>1, Still, RunsStay
  <2>3. QED BY <2>1, <2>2, AgesKept DEF Order
<1>2. ASSUME NEW j \in Jobs, Step(j) PROVE Order'
  BY <1>0, <1>2, OrderPreparing, OrderRunning, OrderCliEnds, OrderClassifying, OrderCommitting,
     OrderCommitOne, OrderFinishing, OrderSettling DEF Step
<1>3. CASE \E p \in Profiles : Due(p) \/ Recover(p) \/ Login(p) \/ Remove(p)
  BY <1>0, <1>3, OrderDeciding, OrderSurroundings
<1>4. CASE \E h \in Handlers, p \in Profiles : Incoming(h, p) BY <1>0, <1>4, OrderDeciding
<1>5. CASE \E d \in Profiles \X Tokens : StrayEnds(d) BY <1>0, <1>5, OrderStrayEnds
<1>6. CASE Bootstrap \/ Toggle \/ Stop BY <1>0, <1>6, OrderSurroundings
<1>7. QED BY <1>1, <1>2, <1>3, <1>4, <1>5, <1>6 DEF Next

\* Two runs never spend one token at the same time (refreshProfile, spend in
\* target_refresher.go), whichever profiles share it, although a run takes the
\* lock only after it decided, and a removal takes none.
THEOREM OneRunPerToken == Spec => []SingleFlight
<1>1. Init => IInv /\ Order BY InvInit, OrderInit, TokenRefreshAssumption
<1>2. IInv /\ Order /\ [Next]_vars => (IInv /\ Order)'
  BY InvNext, OrderNext, TokenRefreshAssumption
<1>3. IInv /\ Order => SingleFlight BY DEF Order, HeldOK, HeldRun, SingleFlight, Job
<1>4. QED BY <1>1, <1>2, <1>3, PTL DEF Spec

-----------------------------------------------------------------------------
(* What a step of a job makes of its run, read field by field.             *)

Others(j) == \A k \in Jobs \ {j} : jobs'[k] = jobs[k]
Quits(j) == Others(j) /\ jobs'[j] = Idle
Turns(j, pc, spends, exit, entry, rotated) ==
  /\ Others(j)
  /\ jobs'[j].token = jobs[j].token /\ jobs'[j].profile = jobs[j].profile
  /\ jobs'[j].pc = pc /\ jobs'[j].spends = spends /\ jobs'[j].exit = exit
  /\ jobs'[j].entry = entry /\ jobs'[j].rotated = rotated
\* Only the program counter, and what a commit notes in its run.
Moves(j, pc) ==
  Turns(j, pc, jobs[j].spends, jobs[j].exit, jobs[j].entry, jobs[j].rotated)

LEMMA Quit == ASSUME RunsOK, NEW j \in Jobs, Leave(j) PROVE Quits(j)
BY DEF RunsOK, Leave, Becomes, Quits, Others

LEMMA Turn ==
  ASSUME RunsOK, NEW j \in Jobs, NEW run, Becomes(j, run),
         run.token = jobs[j].token, run.profile = jobs[j].profile
  PROVE  Turns(j, run.pc, run.spends, run.exit, run.entry, run.rotated)
BY DEF RunsOK, Becomes, Turns, Others

LEMMA MovedOn ==
  ASSUME RunsOK, NEW j \in Jobs, NEW pc, NEW rescued, NEW keep, NEW todo, NEW committed,
         Becomes(j, Moving(jobs[j], pc, rescued, keep, todo, committed))
  PROVE  Moves(j, pc)
<1> DEFINE run == Moving(jobs[j], pc, rescued, keep, todo, committed)
<1>1. jobs[j] \in Run BY DEF RunsOK
<1>2. /\ run.token = jobs[j].token /\ run.profile = jobs[j].profile /\ run.pc = pc
      /\ run.spends = jobs[j].spends /\ run.exit = jobs[j].exit /\ run.entry = jobs[j].entry
      /\ run.rotated = jobs[j].rotated
  BY <1>1 DEF Moving, Run
<1> HIDE DEF run
<1>3. Becomes(j, run) BY DEF run
<1>4. QED BY <1>2, <1>3, Turn DEF Moves

\* The ways a step moves a run on.
LEMMA Forward ==
  ASSUME RunsOK, NEW j \in Jobs, NEW pc, NEW todo, NEW rescued
  PROVE  /\ Becomes(j, [jobs[j] EXCEPT !.pc = pc]) => Moves(j, pc)
         /\ Becomes(j, [jobs[j] EXCEPT !.pc = pc, !.keep = TRUE]) => Moves(j, pc)
         /\ Becomes(j, [jobs[j] EXCEPT !.pc = pc, !.rescued = TRUE]) => Moves(j, pc)
         /\ Becomes(j, [jobs[j] EXCEPT !.pc = pc, !.todo = todo]) => Moves(j, pc)
         /\ Becomes(j, [jobs[j] EXCEPT !.todo = todo]) => Moves(j, jobs[j].pc)
         /\ Becomes(j, [jobs[j] EXCEPT !.todo = todo, !.committed = TRUE])
              => Moves(j, jobs[j].pc)
         /\ Becomes(j, [jobs[j] EXCEPT !.pc = pc, !.keep = FALSE, !.rescued = rescued])
              => Moves(j, pc)
<1> DEFINE r == jobs[j]
<1>1. r \in Run BY DEF RunsOK
<1>2. ASSUME Becomes(j, [r EXCEPT !.pc = pc]) PROVE Moves(j, pc)
  <2>1. [r EXCEPT !.pc = pc]
          = Moving(r, pc, r.rescued, r.keep, r.todo, r.committed)
    BY <1>1, Unmoved
  <2>2. Becomes(j, Moving(r, pc, r.rescued, r.keep, r.todo, r.committed))
    BY <1>2, <2>1
  <2>3. QED BY <2>2, MovedOn
<1>3. ASSUME Becomes(j, [r EXCEPT !.pc = pc, !.keep = TRUE]) PROVE Moves(j, pc)
  <2>1. [r EXCEPT !.pc = pc, !.keep = TRUE]
          = Moving(r, pc, r.rescued, TRUE, r.todo, r.committed)
    BY <1>1, Unmoved
  <2>2. Becomes(j, Moving(r, pc, r.rescued, TRUE, r.todo, r.committed))
    BY <1>3, <2>1
  <2>3. QED BY <2>2, MovedOn
<1>4. ASSUME Becomes(j, [r EXCEPT !.pc = pc, !.rescued = TRUE]) PROVE Moves(j, pc)
  <2>1. [r EXCEPT !.pc = pc, !.rescued = TRUE]
          = Moving(r, pc, TRUE, r.keep, r.todo, r.committed)
    BY <1>1, Unmoved
  <2>2. Becomes(j, Moving(r, pc, TRUE, r.keep, r.todo, r.committed))
    BY <1>4, <2>1
  <2>3. QED BY <2>2, MovedOn
<1>5. ASSUME Becomes(j, [r EXCEPT !.pc = pc, !.todo = todo]) PROVE Moves(j, pc)
  <2>1. [r EXCEPT !.pc = pc, !.todo = todo]
          = Moving(r, pc, r.rescued, r.keep, todo, r.committed)
    BY <1>1, Unmoved
  <2>2. Becomes(j, Moving(r, pc, r.rescued, r.keep, todo, r.committed))
    BY <1>5, <2>1
  <2>3. QED BY <2>2, MovedOn
<1>6. ASSUME Becomes(j, [r EXCEPT !.todo = todo]) PROVE Moves(j, r.pc)
  <2>1. [r EXCEPT !.todo = todo]
          = Moving(r, r.pc, r.rescued, r.keep, todo, r.committed)
    BY <1>1, Unmoved
  <2>2. Becomes(j, Moving(r, r.pc, r.rescued, r.keep, todo, r.committed))
    BY <1>6, <2>1
  <2>3. QED BY <2>2, MovedOn
<1>7. ASSUME Becomes(j, [r EXCEPT !.todo = todo, !.committed = TRUE]) PROVE Moves(j, r.pc)
  <2>1. [r EXCEPT !.todo = todo, !.committed = TRUE]
          = Moving(r, r.pc, r.rescued, r.keep, todo, TRUE)
    BY <1>1, Unmoved
  <2>2. Becomes(j, Moving(r, r.pc, r.rescued, r.keep, todo, TRUE))
    BY <1>7, <2>1
  <2>3. QED BY <2>2, MovedOn
<1>8. ASSUME Becomes(j, [r EXCEPT !.pc = pc, !.keep = FALSE, !.rescued = rescued]) PROVE Moves(j, pc)
  <2>1. [r EXCEPT !.pc = pc, !.keep = FALSE, !.rescued = rescued]
          = Moving(r, pc, rescued, FALSE, r.todo, r.committed)
    BY <1>1 DEF Run, Moving
  <2>2. Becomes(j, Moving(r, pc, rescued, FALSE, r.todo, r.committed))
    BY <1>8, <2>1
  <2>3. QED BY <2>2, MovedOn
<1>9. QED BY <1>2, <1>3, <1>4, <1>5, <1>6, <1>7, <1>8

LEMMA TurnsPreparing ==
  ASSUME TokenRefreshAssumption, IInv, NEW j \in Jobs
  PROVE  /\ Acquire(j) => Quits(j) \/ Moves(j, "look")
         /\ SettleLeftover(j) => Turns(j, "settle", jobs[j].spends, jobs[j].exit,
                                       state.journal[jobs[j].profile], jobs[j].rotated)
         /\ Abandon(j) => Quits(j)
         /\ Journal(j) => \/ Quits(j)
                          \/ Turns(j, "launch", TRUE, jobs[j].exit, jobs[j].entry,
                                   jobs[j].rotated)
<1> USE DEF IInv
<1>0. jobs[j] \in Run /\ Job(j) = jobs[j] BY DEF RunsOK, Job
<1>1. ASSUME Acquire(j) PROVE Quits(j) \/ Moves(j, "look")
  <2>1. Leave(j) \/ Becomes(j, [jobs[j] EXCEPT !.pc = "look"]) BY <1>0, <1>1 DEF Acquire, GoTo
  <2>2. QED BY <2>1, Quit, Forward
<1>2. ASSUME SettleLeftover(j)
      PROVE  Turns(j, "settle", jobs[j].spends, jobs[j].exit, state.journal[jobs[j].profile],
                   jobs[j].rotated)
  <2> DEFINE e == state.journal[jobs[j].profile]
             run == [jobs[j] EXCEPT !.pc = "settle", !.entry = e]
  <2>1. Becomes(j, run) BY <1>0, <1>2 DEF SettleLeftover
  <2>2. /\ run.token = jobs[j].token /\ run.profile = jobs[j].profile /\ run.pc = "settle"
        /\ run.spends = jobs[j].spends /\ run.exit = jobs[j].exit /\ run.entry = e
        /\ run.rotated = jobs[j].rotated
    <3> HIDE DEF e
    <3>1. QED BY <1>0 DEF Run
  <2> HIDE DEF run, e
  <2>3. Turns(j, "settle", jobs[j].spends, jobs[j].exit, e, jobs[j].rotated)
    BY <2>1, <2>2, Turn
  <2>4. QED BY <2>3 DEF e
<1>3. Abandon(j) => Quits(j) BY Quit DEF Abandon
<1>4. ASSUME Journal(j)
      PROVE  \/ Quits(j)
             \/ Turns(j, "launch", TRUE, jobs[j].exit, jobs[j].entry, jobs[j].rotated)
  <2> DEFINE run == [jobs[j] EXCEPT !.pc = "launch", !.spends = TRUE]
  <2>1. Leave(j) \/ Becomes(j, run) BY <1>0, <1>4 DEF Journal
  <2>2. /\ run.token = jobs[j].token /\ run.profile = jobs[j].profile /\ run.pc = "launch"
        /\ run.spends = TRUE /\ run.exit = jobs[j].exit /\ run.entry = jobs[j].entry
        /\ run.rotated = jobs[j].rotated
    BY <1>0 DEF Run
  <2> HIDE DEF run
  <2>3. ASSUME Becomes(j, run)
        PROVE  Turns(j, "launch", TRUE, jobs[j].exit, jobs[j].entry, jobs[j].rotated)
    BY <2>2, <2>3, Turn
  <2>4. QED BY <2>1, <2>3, Quit
<1>5. QED BY <1>1, <1>2, <1>3, <1>4

LEMMA TurnsRunning ==
  ASSUME TokenRefreshAssumption, IInv, NEW j \in Jobs
  PROVE  /\ Launch(j) => \/ /\ Turns(j, "note", jobs[j].spends, "running", jobs[j].entry,
                                     jobs[j].rotated)
                            /\ launched' = launched \cup {jobs[j].token}
                         \/ /\ Turns(j, "wait", jobs[j].spends, "unsent", jobs[j].entry,
                                     jobs[j].rotated)
                            /\ UNCHANGED launched
         /\ NoteStarted(j) => Moves(j, "wait")
         /\ \A how : Exits(j, how) => Turns(j, jobs[j].pc, jobs[j].spends, how, jobs[j].entry,
                                            jobs[j].rotated)
<1> USE DEF IInv
<1>0. jobs[j] \in Run /\ Job(j) = jobs[j] BY DEF RunsOK, Job
<1>1. ASSUME NEW pc, NEW exit, Becomes(j, [jobs[j] EXCEPT !.pc = pc, !.exit = exit])
      PROVE  Turns(j, pc, jobs[j].spends, exit, jobs[j].entry, jobs[j].rotated)
  <2> DEFINE run == [jobs[j] EXCEPT !.pc = pc, !.exit = exit]
  <2>1. /\ run.token = jobs[j].token /\ run.profile = jobs[j].profile /\ run.pc = pc
        /\ run.spends = jobs[j].spends /\ run.exit = exit /\ run.entry = jobs[j].entry
        /\ run.rotated = jobs[j].rotated
    BY <1>0 DEF Run
  <2>2. Becomes(j, run) BY <1>1
  <2> HIDE DEF run
  <2>3. QED BY <2>1, <2>2, Turn
<1>2. ASSUME NEW exit, Exits(j, exit)
      PROVE  Turns(j, jobs[j].pc, jobs[j].spends, exit, jobs[j].entry, jobs[j].rotated)
  <2> DEFINE run == [jobs[j] EXCEPT !.exit = exit]
  <2>1. /\ run.token = jobs[j].token /\ run.profile = jobs[j].profile /\ run.pc = jobs[j].pc
        /\ run.spends = jobs[j].spends /\ run.exit = exit /\ run.entry = jobs[j].entry
        /\ run.rotated = jobs[j].rotated
    BY <1>0 DEF Run
  <2>2. Becomes(j, run) BY <1>0, <1>2 DEF Exits
  <2> HIDE DEF run
  <2>3. QED BY <2>1, <2>2, Turn
<1>3. ASSUME NoteStarted(j) PROVE Moves(j, "wait")
  <2>1. Becomes(j, [jobs[j] EXCEPT !.pc = "wait"]) BY <1>0, <1>3 DEF NoteStarted, GoTo
  <2>2. QED BY <2>1, Forward
<1>4. QED BY <1>0, <1>1, <1>2, <1>3 DEF Launch

LEMMA TurnsJudged ==
  ASSUME TokenRefreshAssumption, IInv, NEW j \in Jobs, Judge(j)
  PROVE  \/ Moves(j, "clear") /\ Save(SetVerdict(jobs[j].token)) /\ UNCHANGED <<temps, strays>>
         \/ Quits(j) /\ SaveFails(SetVerdict(jobs[j].token)) /\ Forget(OwnDir(j))
<1>0. jobs[j] \in Run /\ Job(j) = jobs[j] /\ RunsOK BY DEF RunsOK, Job, IInv
<1>1. GoTo(j, "clear") => Moves(j, "clear") BY <1>0, Forward DEF GoTo
<1>2. QED BY <1>0, <1>1, Quit DEF Judge

LEMMA TurnsSettling ==
  ASSUME TokenRefreshAssumption, IInv, NEW j \in Jobs
  PROVE  /\ \A s, rescued : Becomes(j, [jobs[j] EXCEPT !.pc = "list", !.rotated = s,
                                          !.rescued = rescued])
              => Turns(j, "list", jobs[j].spends, jobs[j].exit, jobs[j].entry, s)
         /\ \A s : Becomes(j, [jobs[j] EXCEPT !.pc = "rescue", !.rotated = s])
              => Turns(j, "rescue", jobs[j].spends, jobs[j].exit, jobs[j].entry, s)
<1> USE DEF IInv
<1>0. jobs[j] \in Run BY DEF RunsOK
<1>1. ASSUME NEW pc, NEW s, NEW run, run.pc = pc, run.rotated = s,
             run.token = jobs[j].token, run.profile = jobs[j].profile,
             run.spends = jobs[j].spends, run.exit = jobs[j].exit, run.entry = jobs[j].entry,
             Becomes(j, run)
      PROVE  Turns(j, pc, jobs[j].spends, jobs[j].exit, jobs[j].entry, s)
  BY <1>1, Turn
<1>2. ASSUME NEW s, NEW rescued,
             Becomes(j, [jobs[j] EXCEPT !.pc = "list", !.rotated = s, !.rescued = rescued])
      PROVE  Turns(j, "list", jobs[j].spends, jobs[j].exit, jobs[j].entry, s)
  <2> DEFINE run == [jobs[j] EXCEPT !.pc = "list", !.rotated = s, !.rescued = rescued]
  <2>1. /\ run.pc = "list" /\ run.rotated = s /\ run.token = jobs[j].token
        /\ run.profile = jobs[j].profile /\ run.spends = jobs[j].spends
        /\ run.exit = jobs[j].exit /\ run.entry = jobs[j].entry
    BY <1>0 DEF Run
  <2>2. Becomes(j, run) BY <1>2
  <2> HIDE DEF run
  <2>3. QED BY <1>1, <2>1, <2>2
<1>3. ASSUME NEW s, Becomes(j, [jobs[j] EXCEPT !.pc = "rescue", !.rotated = s])
      PROVE  Turns(j, "rescue", jobs[j].spends, jobs[j].exit, jobs[j].entry, s)
  <2> DEFINE run == [jobs[j] EXCEPT !.pc = "rescue", !.rotated = s]
  <2>1. /\ run.pc = "rescue" /\ run.rotated = s /\ run.token = jobs[j].token
        /\ run.profile = jobs[j].profile /\ run.spends = jobs[j].spends
        /\ run.exit = jobs[j].exit /\ run.entry = jobs[j].entry
    BY <1>0 DEF Run
  <2>2. Becomes(j, run) BY <1>3
  <2> HIDE DEF run
  <2>3. QED BY <1>1, <2>1, <2>2
<1>4. QED BY <1>2, <1>3

LEMMA TurnsCommitting ==
  ASSUME TokenRefreshAssumption, IInv, NEW j \in Jobs
  PROVE  /\ WriteRescue(j) => Moves(j, "mark")
         /\ Mark(j) => Moves(j, "list")
         /\ List(j) => Moves(j, "commit")
         /\ CommitOne(j) => Moves(j, "commit")
         /\ Finish(j) => Moves(j, "clear")
         /\ FinishPartly(j) => Quits(j)
<1> USE DEF IInv
<1>0. jobs[j] \in Run /\ Job(j) = jobs[j] BY DEF RunsOK, Job
<1>2. ASSUME WriteRescue(j) PROVE Moves(j, "mark")
  <2>1. \/ Becomes(j, [jobs[j] EXCEPT !.pc = "mark", !.rescued = TRUE])
        \/ Becomes(j, [jobs[j] EXCEPT !.pc = "mark", !.keep = TRUE])
    BY <1>0, <1>2 DEF WriteRescue
  <2>2. QED BY <2>1, Forward
<1>3. ASSUME Mark(j) PROVE Moves(j, "list")
  <2>1. \/ Becomes(j, [jobs[j] EXCEPT !.pc = "list"])
        \/ Becomes(j, [jobs[j] EXCEPT !.pc = "list", !.keep = TRUE])
    BY <1>0, <1>3 DEF Mark, GoTo
  <2>2. QED BY <2>1, Forward
<1>4. ASSUME List(j) PROVE Moves(j, "commit")
  <2>1. PICK todo : Becomes(j, [jobs[j] EXCEPT !.pc = "commit", !.todo = todo])
    BY <1>0, <1>4 DEF List
  <2>2. QED BY <2>1, Forward
<1>5. ASSUME CommitOne(j) PROVE Moves(j, "commit")
  <2>1. jobs[j].pc = "commit" BY <1>0, <1>5 DEF CommitOne, At
  <2>2. PICK left : \/ Becomes(j, [jobs[j] EXCEPT !.todo = left, !.committed = TRUE])
                    \/ Becomes(j, [jobs[j] EXCEPT !.todo = left])
    BY <1>0, <1>5 DEF CommitOne
  <2>3. QED BY <2>1, <2>2, Forward
<1>6. ASSUME Finish(j) PROVE Moves(j, "clear")
  <2>1. PICK rescued : Becomes(j, [jobs[j] EXCEPT !.pc = "clear", !.keep = FALSE,
                                     !.rescued = rescued])
    BY <1>0, <1>6 DEF Finish
  <2>2. QED BY <2>1, Forward
<1>7. FinishPartly(j) => Quits(j) BY Quit DEF FinishPartly
<1>8. QED BY <1>2, <1>3, <1>4, <1>5, <1>6, <1>7

-----------------------------------------------------------------------------
(* What is rotated comes from the provider.  Wherever a run picks up a     *)
(* login to commit, from its directory, from memory or from a rescue file, *)
(* it is the successor the provider issued for the token the run is about. *)

ShapeOK(run) ==
  /\ run.exit = "running" => run.spends /\ run.pc \in {"note", "wait"}
  /\ run.pc \in {"launch", "note", "wait", "rescue", "mark"} => run.spends
  /\ run.pc \in {"idle", "lock", "look", "settle"} => ~run.spends
  /\ run.pc \in {"rescue", "mark", "list", "commit"} => run.rotated # NoToken
RotatedOK(run, succ) ==
  run.rotated # NoToken => run.token \in Tokens /\ run.rotated = succ[run.token]

RunsTrace == \A j \in Jobs : ShapeOK(jobs[j]) /\ RotatedOK(jobs[j], successor)
LoginsTrace ==
  /\ sent \in [Tokens -> Nat]
  /\ \A t \in Tokens : sent[t] > 0 <=> successor[t] # NoToken
  /\ \A t \in Tokens : pending[t] # NoToken => pending[t] = successor[t]
  /\ \A d \in Profiles \X Tokens : temps[d] \in Tokens \ {d[2]} => temps[d] = successor[d[2]]
Trace == RunsTrace /\ LoginsTrace

\* The provider issues one successor for a token.
Issues == \A t \in Tokens : successor[t] # NoToken => successor'[t] = successor[t]

LEMMA IdleTrace == ASSUME NEW succ PROVE ShapeOK(Idle) /\ RotatedOK(Idle, succ)
BY DEF ShapeOK, RotatedOK, Idle

\* One run changes; none does.
LEMMA RunTraced ==
  ASSUME TokenRefreshAssumption, RunsTrace, Issues, NEW j \in Jobs, Others(j),
         ShapeOK(jobs'[j]), RotatedOK(jobs'[j], successor')
  PROVE  RunsTrace'
<1>1. ASSUME NEW k \in Jobs PROVE ShapeOK(jobs'[k]) /\ RotatedOK(jobs'[k], successor')
  <2>1. CASE k = j BY <2>1
  <2>2. CASE k # j
    <3>1. jobs'[k] = jobs[k] BY <2>2 DEF Others
    <3>2. QED BY <3>1 DEF RunsTrace, RotatedOK, Issues
  <2>3. QED BY <2>1, <2>2
<1>2. QED BY <1>1 DEF RunsTrace

LEMMA RunsTraceKept == ASSUME RunsTrace, Issues, UNCHANGED jobs PROVE RunsTrace'
BY DEF RunsTrace, RotatedOK, Issues

LEMMA QuitTraced ==
  ASSUME TokenRefreshAssumption, RunsTrace, NEW j \in Jobs, Quits(j), UNCHANGED successor
  PROVE  RunsTrace'
BY IdleTrace, RunTraced DEF Quits, Issues

\* A run goes on with the token and the successor it has.
LEMMA MoveTraced ==
  ASSUME TokenRefreshAssumption, RunsTrace, NEW j \in Jobs, UNCHANGED successor,
         Others(j), jobs'[j].token = jobs[j].token, jobs'[j].rotated = jobs[j].rotated,
         ShapeOK(jobs'[j])
  PROVE  RunsTrace'
<1>1. Issues BY DEF Issues
<1>2. RotatedOK(jobs'[j], successor') BY DEF RunsTrace, RotatedOK
<1>3. QED BY <1>1, <1>2, RunTraced

LEMMA LoginsTraceKept ==
  ASSUME LoginsTrace, UNCHANGED <<successor, sent>>,
         \A t \in Tokens : pending'[t] \in {pending[t], NoToken, successor[t]},
         \A d \in Profiles \X Tokens : temps'[d] \in {temps[d], NoToken, d[2]},
         NoToken \notin Tokens
  PROVE  LoginsTrace'
<1>1. ASSUME NEW d \in Profiles \X Tokens, temps'[d] \in Tokens \ {d[2]}
      PROVE  temps'[d] = successor'[d[2]]
  BY <1>1 DEF LoginsTrace
<1>2. QED BY <1>1 DEF LoginsTrace

LEMMA ForgetTemps ==
  ASSUME DirsOK, NEW dirs, Forget(dirs)
  PROVE  /\ \A d \in Profiles \X Tokens : temps'[d] = IF d \in dirs THEN NoToken ELSE temps[d]
         /\ \A d \in Profiles \X Tokens : (strays'[d] = "none") <=> (strays[d] = "none")
BY DEF DirsOK, Forget

LEMMA ForgottenTrace ==
  ASSUME TokenRefreshAssumption, IInv, LoginsTrace, NEW dirs, Forget(dirs),
         UNCHANGED <<successor, sent>>,
         \A t \in Tokens : pending'[t] \in {pending[t], NoToken, successor[t]}
  PROVE  LoginsTrace'
<1>1. \A d \in Profiles \X Tokens : temps'[d] \in {temps[d], NoToken, d[2]}
  BY ForgetTemps DEF IInv
<1>2. NoToken \notin Tokens BY Numbers
<1>3. QED BY <1>1, <1>2, LoginsTraceKept

LEMMA SteadyTrace ==
  ASSUME TokenRefreshAssumption, LoginsTrace, UNCHANGED <<successor, sent, temps>>,
         \A t \in Tokens : pending'[t] \in {pending[t], NoToken, successor[t]}
  PROVE  LoginsTrace'
BY Numbers, LoginsTraceKept

LEMMA ClearTraced ==
  ASSUME TokenRefreshAssumption, IInv, Trace, NEW j \in Jobs, NEW dirs, ClearJournal(j, dirs),
         UNCHANGED <<successor, sent>>,
         \A t \in Tokens : pending'[t] \in {pending[t], NoToken, successor[t]}
  PROVE  Trace'
<1>1. Quits(j) BY Quit DEF ClearJournal, IInv
<1>2. PICK any : Forget(any) BY DEF ClearJournal
<1>3. QED BY <1>1, <1>2, QuitTraced, ForgottenTrace DEF Trace

LEMMA JudgeTraced ==
  ASSUME TokenRefreshAssumption, IInv, Trace, NEW j \in Jobs, Judge(j), jobs[j].exit # "running",
         UNCHANGED <<successor, sent, pending>>
  PROVE  Trace'
<1>1. ShapeOK(jobs[j]) BY DEF Trace, RunsTrace
<1>2. CASE Moves(j, "clear") /\ UNCHANGED <<temps, strays>>
  <2>1. RunsTrace' BY <1>1, <1>2, MoveTraced DEF Moves, Turns, ShapeOK, Trace
  <2>2. QED BY <1>2, <2>1, SteadyTrace DEF Trace
<1>3. CASE Quits(j) /\ Forget(OwnDir(j))
  BY <1>3, QuitTraced, ForgottenTrace DEF Trace
<1>4. QED BY <1>2, <1>3, TurnsJudged

LEMMA TracePreparing ==
  ASSUME TokenRefreshAssumption, IInv, Trace, NEW j \in Jobs,
         Acquire(j) \/ SettleLeftover(j) \/ Abandon(j) \/ Journal(j)
  PROVE  Trace'
<1>0. /\ jobs[j] \in Run /\ Job(j) = jobs[j] /\ RunOK(jobs[j], launched)
      /\ ShapeOK(jobs[j]) /\ jobs[j].pc \in {"lock", "look"} /\ RunsTrace
      /\ UNCHANGED <<successor, sent, pending>>
  BY DEF IInv, RunsOK, Job, Trace, RunsTrace, At, Acquire, SettleLeftover, Abandon, Journal,
         world, history
<1>1. RunsTrace'
  <2>1. CASE Quits(j) BY <1>0, <2>1, QuitTraced
  <2>2. CASE Moves(j, "look") BY <1>0, <2>2, MoveTraced DEF Moves, Turns, ShapeOK
  <2>3. ASSUME NEW e, Turns(j, "settle", jobs[j].spends, jobs[j].exit, e, jobs[j].rotated)
        PROVE  RunsTrace'
    BY <1>0, <2>3, MoveTraced DEF Turns, ShapeOK
  <2>4. CASE Turns(j, "launch", TRUE, jobs[j].exit, jobs[j].entry, jobs[j].rotated)
    BY <1>0, <2>4, MoveTraced DEF Turns, ShapeOK
  <2>5. QED BY <2>1, <2>2, <2>3, <2>4, TurnsPreparing
<1>2. LoginsTrace'
  <2>1. CASE UNCHANGED temps BY <1>0, <2>1, SteadyTrace DEF Trace
  <2>2. CASE temps' = [temps EXCEPT ![<<jobs[j].profile, jobs[j].token>>] = jobs[j].token]
    <3>1. \A d \in Profiles \X Tokens : temps'[d] \in {temps[d], NoToken, d[2]}
      BY <2>2 DEF IInv, DirsOK
    <3>2. QED BY <1>0, <3>1, Numbers, LoginsTraceKept DEF Trace
  <2>3. QED BY <1>0, <2>1, <2>2 DEF Acquire, SettleLeftover, Abandon, Journal, disk
<1>3. QED BY <1>1, <1>2 DEF Trace

\* The answer to a CLI: the token's first successor, or none.
LEMMA AnswerTraced ==
  ASSUME TokenRefreshAssumption, IInv, Order, Trace, NEW d \in Profiles \X Tokens,
         d[2] \in launched, NEW home,
         Idles \/ (\E answered : Spends(d, home, answered)) \/ Refused(d, home),
         UNCHANGED pending
  PROVE  LoginsTrace' /\ Issues
<1> USE DEF IInv, LoginsOK, DirsOK
<1> DEFINE t == d[2]
<1>0. t \in Tokens /\ NoToken \notin Tokens /\ Rejected \notin Tokens BY Numbers
<1>1. CASE Idles
  <2>1. UNCHANGED <<temps, successor, sent>> BY <1>1 DEF Idles
  <2>2. QED BY <2>1, SteadyTrace DEF Trace, Issues
<1>2. ASSUME NEW answered, Spends(d, home, answered) PROVE LoginsTrace' /\ Issues
  <2>1. /\ successor[t] = NoToken /\ successor' = [successor EXCEPT ![t] = issued + 1]
        /\ sent' = [sent EXCEPT ![t] = @ + 1]
        /\ temps' \in {temps, [temps EXCEPT ![d] = issued + 1]}
    BY <1>2 DEF Spends, Writes
  <2>2. issued + 1 # NoToken BY DEF NoToken
  <2>3. Issues BY <2>1 DEF Issues
  <2>4. \A u \in Tokens : sent[u] \in Nat BY DEF Trace, LoginsTrace
  <2>5. sent' \in [Tokens -> Nat] BY <2>1, <2>4 DEF Trace, LoginsTrace
  <2>6. ASSUME NEW u \in Tokens PROVE sent'[u] > 0 <=> successor'[u] # NoToken
    <3>1. CASE u = t BY <1>0, <2>1, <2>2, <2>4, <3>1 DEF Trace, LoginsTrace
    <3>2. CASE u # t BY <2>1, <3>2 DEF Trace, LoginsTrace
    <3>3. QED BY <3>1, <3>2
  <2>7. ASSUME NEW u \in Tokens, pending'[u] # NoToken PROVE pending'[u] = successor'[u]
    BY <2>1, <2>7 DEF Trace, LoginsTrace
  <2>8. ASSUME NEW e \in Profiles \X Tokens, temps'[e] \in Tokens \ {e[2]}
        PROVE  temps'[e] = successor'[e[2]]
    <3>1. CASE e = d /\ temps'[e] = issued + 1 BY <1>0, <2>1, <3>1
    <3>2. CASE temps'[e] = temps[e]
      <4>1. temps[e] = successor[e[2]] /\ e[2] \in Tokens
        BY <2>8, <3>2 DEF Trace, LoginsTrace
      <4>2. temps[e] # NoToken BY <1>0, <2>8, <3>2
      <4>3. QED BY <2>3, <3>2, <4>1, <4>2 DEF Issues
    <3>3. QED BY <2>1, <3>1, <3>2
  <2>9. QED BY <2>3, <2>5, <2>6, <2>7, <2>8 DEF LoginsTrace
<1>3. CASE Refused(d, home)
  <2>1. /\ successor[t] # NoToken /\ successor' = successor
        /\ sent' = [sent EXCEPT ![t] = @ + 1]
        /\ temps' \in {temps, [temps EXCEPT ![d] = Rejected]}
    BY <1>3 DEF Refused, Writes
  <2>2. Issues BY <2>1 DEF Issues
  <2>3. \A u \in Tokens : sent[u] \in Nat BY DEF Trace, LoginsTrace
  <2>4. sent' \in [Tokens -> Nat] BY <2>1, <2>3 DEF Trace, LoginsTrace
  <2>5. ASSUME NEW u \in Tokens PROVE sent'[u] > 0 <=> successor'[u] # NoToken
    <3>1. CASE u = t BY <1>0, <2>1, <2>3, <3>1 DEF Trace, LoginsTrace
    <3>2. CASE u # t BY <2>1, <3>2 DEF Trace, LoginsTrace
    <3>3. QED BY <3>1, <3>2
  <2>6. \A e \in Profiles \X Tokens : temps'[e] \in {temps[e], Rejected} BY <2>1
  <2>7. QED BY <1>0, <2>1, <2>2, <2>4, <2>5, <2>6 DEF Trace, LoginsTrace
<1>4. QED BY <1>1, <1>2, <1>3

LEMMA TraceRunning ==
  ASSUME TokenRefreshAssumption, IInv, Order, Trace,
         \/ \E j \in Jobs : Launch(j) \/ NoteStarted(j) \/ TimesOut(j) \/ CliEnds(j)
         \/ \E d \in Profiles \X Tokens : StrayEnds(d)
  PROVE  Trace'
<1>0. \A j \in Jobs : /\ jobs[j] \in Run /\ Job(j) = jobs[j] /\ RunOK(jobs[j], launched)
                      /\ ShapeOK(jobs[j]) /\ RotatedOK(jobs[j], successor)
  BY DEF IInv, RunsOK, Job, Trace, RunsTrace
<1>1. ASSUME NEW j \in Jobs, Launch(j) PROVE Trace'
  <2>1. jobs[j].pc = "launch" /\ UNCHANGED <<temps, successor, sent, pending>>
    BY <1>0, <1>1 DEF Launch, At, disk, world
  <2>2. RunsTrace'
    <3>1. jobs[j].spends BY <1>0, <2>1 DEF ShapeOK
    <3>2. \/ Turns(j, "note", jobs[j].spends, "running", jobs[j].entry, jobs[j].rotated)
          \/ Turns(j, "wait", jobs[j].spends, "unsent", jobs[j].entry, jobs[j].rotated)
      BY <1>1, TurnsRunning
    <3>3. QED BY <2>1, <3>1, <3>2, MoveTraced DEF Turns, ShapeOK, Trace
  <2>3. QED BY <2>1, <2>2, SteadyTrace DEF Trace
<1>2. ASSUME NEW j \in Jobs, NoteStarted(j) PROVE Trace'
  <2>1. jobs[j].pc = "note" /\ UNCHANGED <<temps, successor, sent, pending>>
    BY <1>0, <1>2 DEF NoteStarted, At, world
  <2>2. Moves(j, "wait") BY <1>2, TurnsRunning
  <2>3. RunsTrace' BY <1>0, <2>1, <2>2, MoveTraced DEF Moves, Turns, ShapeOK, Trace
  <2>4. QED BY <2>1, <2>3, SteadyTrace DEF Trace
<1>3. ASSUME NEW j \in Jobs, TimesOut(j) PROVE Trace'
  <2>1. UNCHANGED <<temps, successor, sent, pending>> BY <1>3 DEF TimesOut, disk, history
  <2>2. Turns(j, jobs[j].pc, jobs[j].spends, "failed", jobs[j].entry, jobs[j].rotated)
    BY <1>3, TurnsRunning DEF TimesOut
  <2>3. RunsTrace' BY <1>0, <2>1, <2>2, MoveTraced DEF Turns, ShapeOK, Trace
  <2>4. QED BY <2>1, <2>3, SteadyTrace DEF Trace
<1>4. ASSUME NEW j \in Jobs, CliEnds(j) PROVE Trace'
  <2> DEFINE d == <<jobs[j].profile, jobs[j].token>>
  <2>1. jobs[j].exit = "running" /\ jobs[j].token \in launched /\ launched \subseteq Tokens
    BY <1>0, <1>4 DEF CliEnds, RunOK, IInv, LoginsOK
  <2>2. d \in Profiles \X Tokens /\ d[2] \in launched /\ Dir(j) = d
    BY <1>0, <2>1 DEF Run, Dir
  <2>3. LoginsTrace' /\ Issues
    <3>1. Idles \/ (\E answered : Spends(d, TRUE, answered)) \/ Refused(d, TRUE)
      BY <1>4, <2>2 DEF CliEnds
    <3>2. UNCHANGED pending BY <1>4 DEF CliEnds
    <3> HIDE DEF d
    <3>3. QED BY <2>2, <3>1, <3>2, AnswerTraced
  <2>4. PICK how : how # "running"
          /\ Turns(j, jobs[j].pc, jobs[j].spends, how, jobs[j].entry, jobs[j].rotated)
    <3>1. \E how : how # "running" /\ Exits(j, how) BY <1>4 DEF CliEnds
    <3>2. QED BY <3>1, TurnsRunning
  <2>5. ShapeOK(jobs'[j]) BY <1>0, <2>4 DEF ShapeOK, Turns
  <2>6. RotatedOK(jobs'[j], successor') BY <1>0, <2>3, <2>4 DEF RotatedOK, Turns, Issues
  <2>7. RunsTrace' BY <2>3, <2>4, <2>5, <2>6, RunTraced DEF Turns, Trace
  <2>8. QED BY <2>3, <2>7 DEF Trace
<1>5. ASSUME NEW d \in Profiles \X Tokens, StrayEnds(d) PROVE Trace'
  <2>1. d[2] \in launched BY <1>5 DEF StrayEnds, IInv, DirsOK
  <2>2. UNCHANGED <<pending, jobs>> BY <1>5 DEF StrayEnds, memory
  <2>3. PICK home : Idles \/ (\E answered : Spends(d, home, answered)) \/ Refused(d, home)
    BY <1>5 DEF StrayEnds
  <2>4. LoginsTrace' /\ Issues BY <2>1, <2>2, <2>3, AnswerTraced
  <2>5. QED BY <2>2, <2>4, RunsTraceKept DEF Trace
<1>6. QED BY <1>1, <1>2, <1>3, <1>4, <1>5

LEMMA TraceClassifying ==
  ASSUME TokenRefreshAssumption, IInv, Order, Trace, NEW j \in Jobs,
         FindRotated(j) \/ FindUnsent(j) \/ FindSpent(j) \/ Clear(j)
  PROVE  Trace'
<1>0. /\ jobs[j] \in Run /\ Job(j) = jobs[j] /\ RunOK(jobs[j], launched)
      /\ ShapeOK(jobs[j]) /\ RotatedOK(jobs[j], successor)
      /\ UNCHANGED <<successor, sent>>
  BY DEF IInv, RunsOK, Job, Trace, RunsTrace, FindRotated, FindUnsent, FindSpent, Clear,
         world, history
<1>1. CASE FindRotated(j)
  <2> DEFINE d == <<jobs[j].profile, jobs[j].token>>
  <2>1. jobs[j].pc = "wait" /\ jobs[j].exit # "running" /\ Dir(j) = d
    BY <1>0, <1>1 DEF FindRotated, Ended, At, Dir
  <2>2. jobs[j].token \in Tokens /\ d \in Profiles \X Tokens /\ d[2] = jobs[j].token
    BY <1>0, <2>1 DEF RunOK, Run
  <2>3. /\ UNCHANGED <<temps, pending>> /\ Advanced(d) # NoToken
        /\ Turns(j, "rescue", jobs[j].spends, jobs[j].exit, jobs[j].entry, Advanced(d))
    <3>1. Becomes(j, [jobs[j] EXCEPT !.pc = "rescue", !.rotated = Advanced(d)])
      BY <1>0, <1>1, <2>1 DEF FindRotated
    <3>2. UNCHANGED <<temps, pending>> /\ Advanced(d) # NoToken
      BY <1>1, <2>1 DEF FindRotated, disk
    <3> HIDE DEF d
    <3>3. QED BY <3>1, <3>2, TurnsSettling
  <2>4. Advanced(d) = successor[jobs[j].token]
    <3> HIDE DEF d
    <3>1. QED BY <2>2, <2>3 DEF Advanced, Trace, LoginsTrace
  <2> HIDE DEF d
  <2>5. ShapeOK(jobs'[j]) BY <1>0, <2>1, <2>3 DEF Turns, ShapeOK
  <2>6. RotatedOK(jobs'[j], successor') BY <1>0, <2>2, <2>3, <2>4 DEF Turns, RotatedOK
  <2>7. RunsTrace' BY <1>0, <2>3, <2>5, <2>6, RunTraced DEF Turns, Issues, Trace
  <2>8. QED BY <1>0, <2>3, <2>7, SteadyTrace DEF Trace
<1>2. CASE FindUnsent(j)
  <2>1. UNCHANGED pending BY <1>2 DEF FindUnsent
  <2>2. PICK dirs : ClearJournal(j, dirs) BY <1>2 DEF FindUnsent
  <2>3. QED BY <1>0, <2>1, <2>2, ClearTraced
<1>3. CASE FindSpent(j)
  <2>1. UNCHANGED pending /\ Judge(j) /\ jobs[j].exit # "running"
    BY <1>0, <1>3 DEF FindSpent, Ended
  <2>2. QED BY <1>0, <2>1, JudgeTraced
<1>4. CASE Clear(j)
  <2>1. \A t \in Tokens : pending'[t] \in {pending[t], NoToken, successor[t]}
    BY <1>4 DEF Clear, DropPending, IInv, LoginsOK
  <2>2. PICK dirs : ClearJournal(j, dirs) BY <1>4 DEF Clear
  <2>3. QED BY <1>0, <2>1, <2>2, ClearTraced
<1>5. QED BY <1>1, <1>2, <1>3, <1>4

\* A run that has a rotated login, past the wait for its CLI.
LEMMA CommitTraced ==
  ASSUME TokenRefreshAssumption, IInv, Trace, NEW j \in Jobs,
         NEW pc \in {"mark", "list", "commit", "clear"}, Moves(j, pc),
         jobs[j].pc \in {"rescue", "mark", "list", "commit"},
         pc = "mark" => jobs[j].pc = "rescue", UNCHANGED <<successor, sent, temps>>,
         \A t \in Tokens : pending'[t] \in {pending[t], NoToken, successor[t]}
  PROVE  Trace'
<1>1. ShapeOK(jobs[j]) BY DEF Trace, RunsTrace
<1>2. ShapeOK(jobs'[j]) BY <1>1 DEF Moves, Turns, ShapeOK
<1>3. RunsTrace' BY <1>2, MoveTraced DEF Moves, Turns, Trace
<1>4. QED BY <1>3, SteadyTrace DEF Trace

LEMMA TraceCommitting ==
  ASSUME TokenRefreshAssumption, IInv, Order, Trace, NEW j \in Jobs,
         \/ WriteRescue(j) \/ Mark(j) \/ List(j) \/ CommitOne(j) \/ FinishPartly(j) \/ Finish(j)
  PROVE  Trace'
<1>0. /\ jobs[j] \in Run /\ Job(j) = jobs[j] /\ RunOK(jobs[j], launched)
      /\ ShapeOK(jobs[j]) /\ RotatedOK(jobs[j], successor)
      /\ UNCHANGED <<successor, sent>>
      /\ jobs[j].pc \in {"rescue", "mark", "list", "commit"}
  BY DEF IInv, RunsOK, Job, Trace, RunsTrace, WriteRescue, Mark, List, CommitOne, FinishPartly,
         Finish, At, world, history
<1>1. jobs[j].token \in Tokens /\ jobs[j].rotated = successor[jobs[j].token]
  BY <1>0 DEF RotatedOK, ShapeOK
<1>2. HoldPending(jobs[j].token, jobs[j].rotated)
        => \A t \in Tokens : pending'[t] \in {pending[t], NoToken, successor[t]}
  BY <1>1 DEF HoldPending, IInv, LoginsOK
<1>3. CASE WriteRescue(j)
  BY <1>0, <1>2, <1>3, TurnsCommitting, CommitTraced DEF WriteRescue, At, world
<1>4. CASE Mark(j)
  BY <1>0, <1>4, TurnsCommitting, CommitTraced DEF Mark, At, world
<1>5. CASE List(j)
  BY <1>0, <1>5, TurnsCommitting, CommitTraced DEF List, At, disk
<1>6. CASE CommitOne(j)
  BY <1>0, <1>6, TurnsCommitting, CommitTraced DEF CommitOne, At
<1>7. CASE Finish(j)
  BY <1>0, <1>7, TurnsCommitting, CommitTraced DEF Finish, At, disk
<1>8. CASE FinishPartly(j)
  <2>1. Quits(j) BY <1>8, TurnsCommitting
  <2>2. PICK dirs : Forget(dirs) BY <1>8 DEF FinishPartly
  <2>3. \A t \in Tokens : pending'[t] \in {pending[t], NoToken, successor[t]}
    BY <1>0, <1>2, <1>8 DEF FinishPartly
  <2>4. QED BY <1>0, <2>1, <2>2, <2>3, QuitTraced, ForgottenTrace DEF Trace
<1>9. QED BY <1>3, <1>4, <1>5, <1>6, <1>7, <1>8

\* Wherever the settling of an entry finds a login, it is the successor.
LEMMA RecoveredTrace ==
  ASSUME TokenRefreshAssumption, Trace, NEW e, NEW p \in Profiles, e.token \in Tokens,
         Recovered(e, p) # NoToken
  PROVE  Recovered(e, p) = successor[e.token]
<1> DEFINE t == e.token
           d == <<p, e.token>>
<1>1. pending[t] # NoToken => pending[t] = successor[t] BY DEF Trace, LoginsTrace
<1>2. Advanced(d) # NoToken => Advanced(d) = successor[t]
  <2>1. d \in Profiles \X Tokens /\ d[2] = t OBVIOUS
  <2> HIDE DEF d, t
  <2>2. QED BY <2>1 DEF Advanced, Trace, LoginsTrace
<1>3. \/ Recovered(e, p) = successor[t]
      \/ Recovered(e, p) = pending[t] \/ Recovered(e, p) = Advanced(d)
  BY DEF Recovered
<1> HIDE DEF d
<1>4. QED BY <1>1, <1>2, <1>3

LEMMA TraceSettling ==
  ASSUME TokenRefreshAssumption, IInv, Order, Trace, NEW j \in Jobs,
         SettleGone(j) \/ SettleRotated(j) \/ SettleUnsent(j) \/ SettleUnknown(j)
  PROVE  Trace'
<1>0. /\ jobs[j] \in Run /\ Job(j) = jobs[j] /\ RunOK(jobs[j], launched)
      /\ ShapeOK(jobs[j]) /\ jobs[j].pc = "settle" /\ UNCHANGED <<successor, sent>>
  BY DEF IInv, RunsOK, Job, Trace, RunsTrace, SettleGone, SettleRotated, SettleUnsent,
         SettleUnknown, Settling, At, world, history
<1>1. /\ jobs[j].token \in Tokens /\ jobs[j].entry.token = jobs[j].token
      /\ jobs[j].profile \in Profiles /\ jobs[j].exit # "running"
  BY <1>0 DEF RunOK, Run, ShapeOK
<1>2. CASE SettleGone(j)
  <2>1. \A t \in Tokens : pending'[t] \in {pending[t], NoToken, successor[t]}
    BY <1>2 DEF SettleGone, DropPending, IInv, LoginsOK
  <2>2. PICK dirs : ClearJournal(j, dirs) BY <1>2 DEF SettleGone
  <2>3. QED BY <1>0, <2>1, <2>2, ClearTraced
<1>3. CASE SettleRotated(j)
  <2> DEFINE s == Recovered(jobs[j].entry, jobs[j].profile)
  <2>1. s # NoToken /\ UNCHANGED <<temps, pending>> BY <1>0, <1>3 DEF SettleRotated
  <2>2. s = successor[jobs[j].token] BY <1>1, <2>1, RecoveredTrace
  <2>3. Turns(j, "list", jobs[j].spends, jobs[j].exit, jobs[j].entry, s)
    <3>1. Becomes(j, [jobs[j] EXCEPT !.pc = "list", !.rotated = s,
                                     !.rescued = jobs[j].entry.rescue])
      BY <1>0, <1>3 DEF SettleRotated
    <3> HIDE DEF s
    <3>2. QED BY <3>1, TurnsSettling
  <2> HIDE DEF s
  <2>4. ShapeOK(jobs'[j]) BY <1>0, <2>1, <2>3 DEF Turns, ShapeOK
  <2>5. RotatedOK(jobs'[j], successor') BY <1>0, <1>1, <2>2, <2>3 DEF Turns, RotatedOK
  <2>6. RunsTrace' BY <1>0, <2>3, <2>4, <2>5, RunTraced DEF Turns, Issues, Trace
  <2>7. QED BY <1>0, <2>1, <2>6, SteadyTrace DEF Trace
<1>4. CASE SettleUnsent(j)
  <2>1. UNCHANGED pending BY <1>4 DEF SettleUnsent
  <2>2. PICK dirs : ClearJournal(j, dirs) BY <1>4 DEF SettleUnsent
  <2>3. QED BY <1>0, <2>1, <2>2, ClearTraced
<1>5. CASE SettleUnknown(j) BY <1>0, <1>1, <1>5, JudgeTraced DEF SettleUnknown
<1>6. QED BY <1>2, <1>3, <1>4, <1>5

\* The run a job that was idle begins.
LEMMA BeginTraced ==
  ASSUME TokenRefreshAssumption, IInv, Trace, NEW j \in Jobs, NEW run, Becomes(j, run),
         run.pc \in {"lock", "look", "settle"}, run.spends = FALSE, run.exit = "none",
         run.rotated = NoToken, UNCHANGED <<successor, sent, pending, temps>>
  PROVE  Trace'
<1>1. Others(j) /\ jobs'[j] = run BY DEF Becomes, Others, IInv, RunsOK
<1>2. ShapeOK(run) /\ RotatedOK(run, successor') BY DEF ShapeOK, RotatedOK
<1>3. RunsTrace' BY <1>1, <1>2, RunTraced DEF Issues, Trace
<1>4. QED BY <1>3, SteadyTrace DEF Trace

LEMMA TraceSurroundings ==
  ASSUME TokenRefreshAssumption, IInv, Order, Trace,
         \/ Bootstrap \/ Toggle \/ Stop
         \/ \E p \in Profiles : Due(p) \/ Recover(p) \/ Login(p) \/ Remove(p)
         \/ \E h \in Handlers, p \in Profiles : Incoming(h, p)
  PROVE  Trace'
<1>1. CASE Stop
  <2>1. /\ jobs' = [k \in Jobs |-> Idle] /\ pending' = [t \in Tokens |-> NoToken]
        /\ UNCHANGED <<successor, sent, temps>>
    BY <1>1 DEF Stop, disk
  <2>2. RunsTrace' BY <2>1, IdleTrace DEF RunsTrace
  <2>3. QED BY <2>1, <2>2, SteadyTrace DEF Trace
<1>2. ASSUME UNCHANGED <<jobs, successor, sent, pending, temps>> PROVE Trace'
  BY <1>2, RunsTraceKept, SteadyTrace DEF Trace, Issues
<1>3. CASE Bootstrap \/ Toggle BY <1>2, <1>3 DEF Bootstrap, Toggle, disk, world, history
<1>4. ASSUME NEW p \in Profiles, Login(p) \/ Remove(p) PROVE Trace'
  BY <1>2, <1>4 DEF Login, Remove, memory, world, history
<1>5. ASSUME NEW p \in Profiles, Due(p) PROVE Trace'
  <2> DEFINE run == [Idle EXCEPT !.pc = "lock", !.profile = p, !.token = stored[p]]
  <2>1. Becomes(Ticker, run) /\ UNCHANGED <<successor, sent, pending, temps>>
    BY <1>5 DEF Due, disk, world, history
  <2>2. /\ run.pc = "lock" /\ run.spends = FALSE /\ run.exit = "none"
        /\ run.rotated = NoToken
    BY DEF Idle
  <2>3. Ticker \in Jobs BY DEF Jobs
  <2> HIDE DEF run
  <2>4. QED BY <2>1, <2>2, <2>3, BeginTraced
<1>6. ASSUME NEW h \in Handlers, NEW p \in Profiles, Incoming(h, p) PROVE Trace'
  <2> DEFINE run == [Idle EXCEPT !.pc = "look", !.profile = p, !.token = stored[p]]
  <2>1. Becomes(h, run) /\ UNCHANGED <<successor, sent, pending, temps>>
    BY <1>6 DEF Incoming, disk, world, history
  <2>2. /\ run.pc = "look" /\ run.spends = FALSE /\ run.exit = "none"
        /\ run.rotated = NoToken
    BY DEF Idle
  <2>3. h \in Jobs BY DEF Jobs
  <2> HIDE DEF run
  <2>4. QED BY <2>1, <2>2, <2>3, BeginTraced
<1>7. ASSUME NEW p \in Profiles, Recover(p) PROVE Trace'
  <2> DEFINE e == backlog[p]
             run == [Idle EXCEPT !.pc = "settle", !.profile = p, !.token = e.token, !.entry = e]
  <2>1. Becomes(Ticker, run) /\ UNCHANGED <<successor, sent, pending, temps>>
    BY <1>7, Zenon DEF Recover, disk, world, history
  <2>2. /\ run.pc = "settle" /\ run.spends = FALSE /\ run.exit = "none"
        /\ run.rotated = NoToken
    BY DEF Idle
  <2>3. Ticker \in Jobs BY DEF Jobs
  <2> HIDE DEF run
  <2>4. QED BY <2>1, <2>2, <2>3, BeginTraced
<1>8. QED BY <1>1, <1>3, <1>4, <1>5, <1>6, <1>7

LEMMA TraceInit == TokenRefreshAssumption /\ Init => Trace
<1> SUFFICES ASSUME TokenRefreshAssumption, Init PROVE Trace
  OBVIOUS
<1>1. NoToken \notin Tokens BY Numbers
<1>2. RunsTrace BY IdleTrace DEF Init, RunsTrace
<1>3. LoginsTrace BY <1>1 DEF Init, LoginsTrace
<1>4. QED BY <1>2, <1>3 DEF Trace

LEMMA TraceNext == TokenRefreshAssumption /\ IInv /\ Order /\ Trace /\ [Next]_vars => Trace'
<1> SUFFICES ASSUME TokenRefreshAssumption, IInv, Order, Trace, [Next]_vars PROVE Trace'
  OBVIOUS
<1>1. CASE UNCHANGED vars
  BY <1>1, RunsTraceKept, SteadyTrace
     DEF vars, disk, memory, world, history, Trace, Issues
<1>2. ASSUME NEW j \in Jobs, Step(j) PROVE Trace'
  BY <1>2, TracePreparing, TraceRunning, TraceClassifying, TraceCommitting, TraceSettling
     DEF Step
<1>3. CASE \E p \in Profiles : Due(p) \/ Recover(p) \/ Login(p) \/ Remove(p)
  BY <1>3, TraceSurroundings
<1>4. CASE \E h \in Handlers, p \in Profiles : Incoming(h, p) BY <1>4, TraceSurroundings
<1>5. CASE \E d \in Profiles \X Tokens : StrayEnds(d) BY <1>5, TraceRunning
<1>6. CASE Bootstrap \/ Toggle \/ Stop BY <1>6, TraceSurroundings
<1>7. QED BY <1>1, <1>2, <1>3, <1>4, <1>5, <1>6 DEF Next

\* What a profile holds changes to the login rotated from it, to a new one, or goes
\* with the profile (commitRotatedCredentials in target_refresher.go): a commit that
\* comes late, or retries one of an earlier process, never overwrites another login.
THEOREM CommitsSpareLogins == Spec => LoginsSurvive
<1> DEFINE Spared(p) == stored'[p] # stored[p] =>
                        \/ stored'[p] = NoToken
                        \/ stored[p] # NoToken /\ stored'[p] = successor[stored[p]]
                        \/ stored'[p] = issued' /\ issued' = issued + 1
<1>1. ASSUME TokenRefreshAssumption, IInv, Order, Trace, [Next]_vars, NEW p \in Profiles
      PROVE  Spared(p)
  <2>0. stored \in [Profiles -> Tokens \cup {NoToken}] BY <1>1 DEF IInv, LoginsOK
  <2>1. ASSUME NEW j \in Jobs, CommitOne(j) PROVE Spared(p)
    <3>1. Job(j) = jobs[j] /\ jobs[j].pc = "commit" /\ jobs[j] \in Run
      BY <1>1, <2>1 DEF CommitOne, At, Job, IInv, RunsOK
    <3>2. ShapeOK(jobs[j]) /\ RotatedOK(jobs[j], successor) BY <1>1 DEF Trace, RunsTrace
    <3>3. jobs[j].rotated = successor[jobs[j].token] /\ jobs[j].token \in Tokens
      BY <3>1, <3>2 DEF ShapeOK, RotatedOK
    <3>4. \/ UNCHANGED stored
          \/ \E q \in Profiles : /\ stored[q] = jobs[j].token
                                 /\ stored' = [stored EXCEPT ![q] = jobs[j].rotated]
      <4>1. \A o \in jobs[j].todo : \A q \in Receivers(o, jobs[j].token) :
              q \in Profiles /\ stored[q] = jobs[j].token
        BY <3>1 DEF Receivers, Holders, Run
      <4>2. QED BY <2>1, <3>1, <4>1 DEF CommitOne
    <3>5. NoToken \notin Tokens BY <1>1, Numbers
    <3>6. QED BY <2>0, <3>3, <3>4, <3>5
  <2>2. ASSUME NEW q \in Profiles, Login(q) \/ Remove(q) PROVE Spared(p)
    BY <2>0, <2>2 DEF Login, Remove
  <2>3. CASE UNCHANGED stored BY <2>3
  <2>4. ASSUME NEW j \in Jobs, Step(j), ~CommitOne(j) PROVE UNCHANGED stored
    <3>1. CASE Acquire(j) \/ SettleLeftover(j) \/ Abandon(j) \/ Journal(j)
      BY <3>1 DEF Acquire, SettleLeftover, Abandon, Journal, disk
    <3>2. CASE \/ Launch(j) \/ NoteStarted(j) \/ CliEnds(j) \/ TimesOut(j) \/ FindRotated(j)
               \/ FindUnsent(j) \/ FindSpent(j)
      BY <3>2 DEF Launch, NoteStarted, CliEnds, TimesOut, FindRotated, FindUnsent, FindSpent, disk
    <3>3. CASE WriteRescue(j) \/ Mark(j) \/ List(j) \/ FinishPartly(j) \/ Finish(j) \/ Clear(j)
      BY <3>3 DEF WriteRescue, Mark, List, FinishPartly, Finish, Clear, disk
    <3>4. CASE SettleGone(j) \/ SettleRotated(j) \/ SettleUnsent(j) \/ SettleUnknown(j)
      BY <3>4 DEF SettleGone, SettleRotated, SettleUnsent, SettleUnknown, Settling
    <3>5. QED BY <2>4, <3>1, <3>2, <3>3, <3>4 DEF Step
  <2>5. \/ UNCHANGED stored \/ \E j \in Jobs : CommitOne(j)
        \/ \E q \in Profiles : Login(q) \/ Remove(q)
    <3>1. CASE UNCHANGED vars BY <3>1 DEF vars, disk
    <3>2. CASE \E q \in Profiles : Due(q) \/ Recover(q)
      BY <3>2 DEF Due, Recover, disk
    <3>3. CASE \E h \in Handlers, q \in Profiles : Incoming(h, q) BY <3>3 DEF Incoming, disk
    <3>4. CASE \E d \in Profiles \X Tokens : StrayEnds(d) BY <3>4 DEF StrayEnds
    <3>5. CASE Bootstrap \/ Toggle \/ Stop BY <3>5 DEF Bootstrap, Toggle, Stop, disk
    <3>6. QED BY <1>1, <2>4, <3>1, <3>2, <3>3, <3>4, <3>5 DEF Next
  <2> HIDE DEF Spared
  <2>6. QED BY <2>1, <2>2, <2>3, <2>5
<1>2. IInv /\ Order /\ Trace /\ [Next]_vars => [\A p \in Profiles : Spared(p)]_vars
  BY <1>1, TokenRefreshAssumption
<1>3. Init => IInv /\ Order /\ Trace BY InvInit, OrderInit, TraceInit, TokenRefreshAssumption
<1>4. IInv /\ Order /\ Trace /\ [Next]_vars => (IInv /\ Order /\ Trace)'
  BY InvNext, OrderNext, TraceNext, TokenRefreshAssumption
<1>5. QED BY <1>2, <1>3, <1>4, PTL DEF Spec, LoginsSurvive

-----------------------------------------------------------------------------
(* A token is spent once.  Of a token that met no gap the invariant says   *)
(* who may still spend it, and that whoever did is on record: in an open   *)
(* entry of the journal, in memory and on disk, in a verdict, or no        *)
(* profile holds the token any more.                                       *)

Quiet(t) == sent[t] = 0 /\ \A p \in Profiles : strays[<<p, t>>] = "none"
Names(e, t) == Open(e) /\ e.token = t
Announced(e, t) == e.phase = "spending" /\ e.token = t
Listed(s, t) == t \in s.verdicts \/ \E p \in Profiles : Names(s.journal[p], t)
OneSlot(s, t) ==
  \A p, q \in Profiles : Names(s.journal[p], t) /\ Names(s.journal[q], t) => p = q
Spender(k, t) == jobs[k].spends /\ jobs[k].token = t

\* One request, from a run or from a container that outlived its run.
OnceOK(t) ==
  /\ sent[t] <= 1
  /\ sent[t] > 0 => \A p \in Profiles : strays[<<p, t>>] = "none"
  /\ \A p, q \in Profiles : strays[<<p, t>>] # "none" /\ strays[<<q, t>>] # "none" => p = q

\* On record, in one slot of the journal.
RecordOK(t) ==
  /\ ~Quiet(t) => Holders(t) = {} \/ (Listed(state, t) /\ Listed(saved, t))
  /\ OneSlot(state, t) /\ OneSlot(saved, t)

\* "spending" is said of a run that sent nothing, or that is about to say "started".
NotedOK(t) ==
  \A p \in Profiles : Announced(state.journal[p], t) /\ Touched(t) =>
     \E k \in Jobs : jobs[k].pc = "note" /\ jobs[k].profile = p /\ jobs[k].token = t

\* So is a "spending" entry read before, unless what came of its run shows.
Resolved(t) ==
  \/ Quiet(t) \/ t \in state.verdicts \/ Holders(t) = {} \/ pending[t] # NoToken
  \/ \E k \in Jobs : Spender(k, t)
ReadOK(t) ==
  /\ \A p \in Profiles : Announced(backlog[p], t) => Resolved(t)
  /\ \A k \in Jobs : jobs[k].pc = "settle" /\ Announced(jobs[k].entry, t) => Resolved(t)

\* A run that may clear its entry, and one that spends.
ClearOK(k, t) ==
  jobs[k].token = t /\ jobs[k].pc = "clear"
    => t \in state.verdicts \/ (Holders(t) = {} /\ sent[t] > 0)
SpenderOK(k, t) ==
  Spender(k, t) =>
    LET run == jobs[k]  d == <<run.profile, t>> IN
    /\ Names(state.journal[run.profile], t) /\ Names(saved.journal[run.profile], t)
    /\ run.pc = "launch" \/ run.exit \in {"running", "unsent"} => Quiet(t)
    /\ run.pc = "launch" \/ run.exit = "running" => temps[d] # NoToken
    /\ run.exit = "clean" /\ run.pc \in {"note", "wait"}
         => temps[d] \in Tokens \ {t} /\ sent[t] > 0

SpentOK(t) ==
  /\ OnceOK(t) /\ RecordOK(t) /\ NotedOK(t) /\ ReadOK(t)
  /\ \A k \in Jobs : ClearOK(k, t) /\ SpenderOK(k, t)
Spend == \A t \in Tokens \ exposed : SpentOK(t)

-----------------------------------------------------------------------------
(* Steps that leave a token alone.                                         *)

SentSame(t) ==
  /\ sent'[t] = sent[t]
  /\ \A p \in Profiles : (strays'[<<p, t>>] = "none") <=> (strays[<<p, t>>] = "none")
HoldersSame(t) == ~Quiet(t) /\ Holders(t) = {} => Holders(t)' = {}
NoNewEntry(t) ==
  /\ saved' \in {saved, state'}
  /\ t \in state.verdicts => t \in state'.verdicts
  /\ \A p \in Profiles : /\ Announced(state'.journal[p], t) => Announced(state.journal[p], t)
                         /\ Names(state'.journal[p], t) => Names(state.journal[p], t)
EntriesSame(t) ==
  /\ NoNewEntry(t)
  /\ \A p \in Profiles : Names(state.journal[p], t) => Names(state'.journal[p], t)
BacklogSame(t) ==
  \A p \in Profiles : backlog'[p] = backlog[p] \/ (Announced(backlog'[p], t) => Resolved(t))
PendingSame(t) == pending[t] # NoToken => pending'[t] # NoToken
DirsSame(t) ==
  \A k \in Jobs : Spender(k, t) =>
    temps'[<<jobs[k].profile, t>>] = temps[<<jobs[k].profile, t>>]

\* A run not spending t changes, or one that goes on with it.
Passes(k, t) ==
  /\ ~Spender(k, t)
  /\ jobs'[k].token = t => /\ ~jobs'[k].spends /\ jobs'[k].pc # "clear"
                           /\ jobs'[k].pc = "settle" /\ Announced(jobs'[k].entry, t)
                                => Resolved(t)
GoesOnWith(k, t) ==
  /\ jobs[k].token = t /\ jobs'[k].token = t
  /\ jobs'[k].profile = jobs[k].profile /\ jobs'[k].spends = jobs[k].spends
  /\ jobs'[k].exit = jobs[k].exit
  /\ jobs[k].pc = "note" => ~Announced(state'.journal[jobs[k].profile], t)
  /\ jobs'[k].pc \notin {"launch", "note", "settle"}
  /\ jobs'[k].pc = "wait" => jobs[k].pc \in {"note", "wait"}
  /\ jobs'[k].pc = "clear" => t \in state'.verdicts \/ (Holders(t)' = {} /\ sent[t] > 0)
JobsSame(t) == \A k \in Jobs : jobs'[k] = jobs[k] \/ Passes(k, t) \/ GoesOnWith(k, t)

Aside(t) ==
  /\ SentSame(t) /\ HoldersSame(t) /\ EntriesSame(t) /\ BacklogSame(t) /\ PendingSame(t)
  /\ DirsSame(t) /\ JobsSame(t)

LEMMA QuietSame == ASSUME NEW t \in Tokens, SentSame(t) PROVE Quiet(t)' <=> Quiet(t)
BY DEF SentSame, Quiet

\* Nothing starts to run on the token.
LEMMA TouchedSame ==
  ASSUME NEW t \in Tokens, SentSame(t),
         \A k \in Jobs : jobs'[k].exit = "running" /\ jobs'[k].token = t
            => jobs[k].exit = "running" /\ jobs[k].token = t
  PROVE  Touched(t)' => Touched(t)
BY DEF SentSame, Touched, Job

LEMMA RecordSame ==
  ASSUME NEW t \in Tokens, RecordOK(t), SentSame(t), HoldersSame(t), NoNewEntry(t),
         \A p \in Profiles : Names(state.journal[p], t) =>
            \/ Names(state'.journal[p], t)
            \/ Quiet(t)' \/ t \in state'.verdicts \/ Holders(t)' = {}
  PROVE  RecordOK(t)'
<1>1. OneSlot(state, t)' /\ OneSlot(saved, t)' BY DEF RecordOK, OneSlot, NoNewEntry
<1>2. ASSUME ~Quiet(t)', Holders(t)' # {} PROVE Listed(state, t)' /\ Listed(saved, t)'
  <2>1. ~Quiet(t) /\ Holders(t) # {} BY <1>2, QuietSame DEF HoldersSame
  <2>2. Listed(state, t) /\ Listed(saved, t) BY <2>1 DEF RecordOK
  <2>3. Listed(state, t)' BY <1>2, <2>2 DEF Listed, NoNewEntry
  <2>4. Listed(saved, t)' BY <2>2, <2>3 DEF Listed, NoNewEntry
  <2>5. QED BY <2>3, <2>4
<1>3. QED BY <1>1, <1>2 DEF RecordOK

LEMMA OnceSame == ASSUME NEW t \in Tokens, OnceOK(t), SentSame(t) PROVE OnceOK(t)'
BY DEF OnceOK, SentSame

\* What an entry read before waits for still shows.
LEMMA ResolvedSame ==
  ASSUME NEW t \in Tokens, SentSame(t), HoldersSame(t), NoNewEntry(t), PendingSame(t), Resolved(t),
         \A k \in Jobs : Spender(k, t) => Spender(k, t)'
  PROVE  Resolved(t)'
<1>1. Quiet(t) => Quiet(t)' BY QuietSame
<1>2. CASE ~Quiet(t) BY <1>2 DEF Resolved, HoldersSame, NoNewEntry, PendingSame
<1>3. QED BY <1>1, <1>2 DEF Resolved

LEMMA AsideJobs ==
  ASSUME IInv', Trace', NEW t \in Tokens, JobsSame(t), NEW k \in Jobs
  PROVE  /\ Spender(k, t) => Spender(k, t)'
         /\ jobs'[k].exit = "running" /\ jobs'[k].token = t
              => jobs[k].exit = "running" /\ jobs[k].token = t
         /\ jobs'[k].pc = "settle" /\ Announced(jobs'[k].entry, t)
              => \/ Resolved(t)
                 \/ jobs[k].pc = "settle" /\ Announced(jobs[k].entry, t)
<1>1. ShapeOK(jobs'[k]) BY DEF Trace, RunsTrace
<1>2. RunOK(jobs'[k], launched') BY DEF IInv, RunsOK
<1>3. jobs'[k] = jobs[k] \/ Passes(k, t) \/ GoesOnWith(k, t) BY DEF JobsSame
<1>4. Spender(k, t) => Spender(k, t)' BY <1>3 DEF Passes, GoesOnWith, Spender
<1>5. jobs'[k].exit = "running" /\ jobs'[k].token = t
        => jobs[k].exit = "running" /\ jobs[k].token = t
  BY <1>1, <1>3 DEF Passes, GoesOnWith, ShapeOK
<1>6. ASSUME jobs'[k].pc = "settle", Announced(jobs'[k].entry, t)
      PROVE  Resolved(t) \/ (jobs[k].pc = "settle" /\ Announced(jobs[k].entry, t))
  <2>1. jobs'[k].token = t BY <1>2, <1>6 DEF RunOK, Announced
  <2>2. CASE jobs'[k] = jobs[k] BY <1>6, <2>2
  <2>3. CASE Passes(k, t) BY <1>6, <2>1, <2>3 DEF Passes
  <2>4. CASE GoesOnWith(k, t) BY <1>6, <2>4 DEF GoesOnWith
  <2>5. QED BY <1>3, <2>2, <2>3, <2>4
<1>7. QED BY <1>4, <1>5, <1>6

LEMMA AsideKeeps ==
  ASSUME IInv, IInv', Trace, Trace', NEW t \in Tokens, SpentOK(t), Aside(t)
  PROVE  SpentOK(t)'
<1> USE DEF Aside
<1>0. /\ OnceOK(t) /\ RecordOK(t) /\ NotedOK(t) /\ ReadOK(t)
      /\ \A k \in Jobs : ClearOK(k, t) /\ SpenderOK(k, t)
  BY DEF SpentOK
<1>1. OnceOK(t)' BY <1>0, OnceSame
<1>n. NoNewEntry(t) /\ \A p \in Profiles : Names(state.journal[p], t) => Names(state'.journal[p], t)
  BY DEF EntriesSame
<1>2. RecordOK(t)' BY <1>0, <1>n, RecordSame
<1>3. Quiet(t)' <=> Quiet(t) BY QuietSame
<1>j. /\ \A k \in Jobs : Spender(k, t) => Spender(k, t)'
      /\ \A k \in Jobs : jobs'[k].exit = "running" /\ jobs'[k].token = t
           => jobs[k].exit = "running" /\ jobs[k].token = t
  BY AsideJobs
<1>4. Touched(t)' => Touched(t) BY <1>j, TouchedSame
<1>5. NotedOK(t)'
  <2>1. ASSUME NEW p \in Profiles, Announced(state'.journal[p], t), Touched(t)'
        PROVE  \E k \in Jobs : jobs'[k].pc = "note" /\ jobs'[k].profile = p /\ jobs'[k].token = t
    <3>1. PICK k \in Jobs : jobs[k].pc = "note" /\ jobs[k].profile = p /\ jobs[k].token = t
      BY <1>0, <1>4, <1>n, <2>1 DEF NotedOK, NoNewEntry
    <3>2. Spender(k, t) BY <3>1 DEF Trace, RunsTrace, ShapeOK, Spender
    <3>3. jobs'[k] = jobs[k] BY <2>1, <3>1, <3>2 DEF JobsSame, Passes, GoesOnWith
    <3>4. QED BY <3>1, <3>3
  <2>2. QED BY <2>1 DEF NotedOK
<1>6. Resolved(t) => Resolved(t)' BY <1>n, <1>j, ResolvedSame
<1>7. ReadOK(t)'
  <2>1. ASSUME NEW p \in Profiles, Announced(backlog'[p], t) PROVE Resolved(t)
    BY <1>0, <2>1 DEF BacklogSame, ReadOK
  <2>2. ASSUME NEW k \in Jobs, jobs'[k].pc = "settle", Announced(jobs'[k].entry, t)
        PROVE  Resolved(t)
    BY <1>0, <2>2, AsideJobs DEF ReadOK
  <2>3. QED BY <1>6, <2>1, <2>2 DEF ReadOK
<1>8. ASSUME NEW k \in Jobs PROVE ClearOK(k, t)'
  <2>1. CASE jobs'[k] = jobs[k]
    <3>1. sent[t] > 0 => ~Quiet(t) BY DEF Quiet
    <3>2. QED BY <1>0, <1>n, <2>1, <3>1 DEF ClearOK, NoNewEntry, HoldersSame, SentSame
  <2>2. CASE Passes(k, t) BY <2>2 DEF Passes, ClearOK
  <2>3. CASE GoesOnWith(k, t) BY <2>3 DEF GoesOnWith, ClearOK, SentSame
  <2>4. QED BY <2>1, <2>2, <2>3 DEF JobsSame
<1>9. ASSUME NEW k \in Jobs, Spender(k, t)' PROVE SpenderOK(k, t)'
  <2>1. Spender(k, t) /\ (jobs'[k] = jobs[k] \/ GoesOnWith(k, t))
    BY <1>9 DEF JobsSame, Passes, GoesOnWith, Spender
  <2>2. /\ jobs'[k].profile = jobs[k].profile /\ jobs'[k].exit = jobs[k].exit
        /\ jobs'[k].pc = "launch" => jobs[k].pc = "launch"
        /\ jobs'[k].pc \in {"note", "wait"} => jobs[k].pc \in {"note", "wait"}
    BY <2>1 DEF GoesOnWith
  <2>3. temps'[<<jobs[k].profile, t>>] = temps[<<jobs[k].profile, t>>]
    BY <2>1 DEF DirsSame
  <2>4. jobs[k].profile \in Profiles BY DEF IInv, RunsOK, Run
  <2>5. /\ Names(state'.journal[jobs[k].profile], t)
        /\ Names(saved'.journal[jobs[k].profile], t)
    BY <1>0, <1>n, <2>1, <2>4 DEF SpenderOK, NoNewEntry
  <2>6. QED BY <1>0, <1>3, <2>1, <2>2, <2>3, <2>5 DEF SpenderOK, SentSame
<1>10. QED BY <1>1, <1>2, <1>5, <1>7, <1>8, <1>9 DEF SpentOK, SpenderOK

-----------------------------------------------------------------------------
(* The run that spends a token, or settles its entry, is over.             *)

Over(j, t) ==
  /\ SentSame(t) /\ HoldersSame(t) /\ NoNewEntry(t) /\ BacklogSame(t)
  /\ \A p \in Profiles : Names(state.journal[p], t) =>
        \/ Names(state'.journal[p], t)
        \/ Quiet(t)' \/ t \in state'.verdicts \/ Holders(t)' = {}
  /\ Quiet(t)' \/ t \in state'.verdicts \/ Holders(t)' = {} \/ pending'[t] # NoToken
  /\ Quits(j) /\ jobs[j].pc # "note" /\ \A k \in Jobs \ {j} : ~Spender(k, t)

LEMMA OverKeeps ==
  ASSUME TokenRefreshAssumption, IInv, IInv', Trace, Trace', NEW t \in Tokens, SpentOK(t),
         NEW j \in Jobs, Over(j, t)
  PROVE  SpentOK(t)'
<1> USE DEF Over
<1>0. /\ OnceOK(t) /\ RecordOK(t) /\ NotedOK(t) /\ ReadOK(t)
      /\ \A k \in Jobs : ClearOK(k, t) /\ SpenderOK(k, t)
  BY DEF SpentOK
<1>1. OnceOK(t)' BY <1>0, OnceSame
<1>2. RecordOK(t)' BY <1>0, RecordSame
<1>i. jobs'[j].token # t /\ \A k \in Jobs : jobs'[k] = jobs[k] \/ k = j
  BY Numbers DEF Quits, Others, Idle
<1>3. Touched(t)' => Touched(t) BY <1>i, TouchedSame
<1>4. NotedOK(t)'
  <2>1. ASSUME NEW p \in Profiles, Announced(state'.journal[p], t), Touched(t)' PROVE FALSE
    <3>1. PICK k \in Jobs : jobs[k].pc = "note" /\ jobs[k].profile = p /\ jobs[k].token = t
      BY <1>0, <1>3, <2>1 DEF NotedOK, NoNewEntry
    <3>2. Spender(k, t) BY <3>1 DEF Trace, RunsTrace, ShapeOK, Spender
    <3>3. QED BY <3>1, <3>2
  <2>2. QED BY <2>1 DEF NotedOK
<1>5. Resolved(t)' BY DEF Resolved
<1>6. ReadOK(t)' BY <1>5 DEF ReadOK
<1>7. ASSUME NEW k \in Jobs PROVE ClearOK(k, t)'
  <2>1. CASE k = j BY <1>i, <2>1 DEF ClearOK
  <2>2. CASE jobs'[k] = jobs[k]
    <3>1. sent[t] > 0 => ~Quiet(t) BY DEF Quiet
    <3>2. QED BY <1>0, <2>2, <3>1 DEF ClearOK, NoNewEntry, HoldersSame, SentSame
  <2>3. QED BY <1>i, <2>1, <2>2
<1>8. ASSUME NEW k \in Jobs PROVE ~Spender(k, t)' BY <1>i DEF Spender
<1>9. QED BY <1>1, <1>2, <1>4, <1>6, <1>7, <1>8 DEF SpentOK, SpenderOK

-----------------------------------------------------------------------------
(* What single changes mean for a token.                                   *)

Sound == IInv /\ Order /\ Trace

\* A request that was sent, or a container left behind, touches the token.
LEMMA QuietOrTouched == ASSUME Trace, NEW t \in Tokens, ~Quiet(t) PROVE Touched(t)
<1>1. sent[t] \in Nat BY DEF Trace, LoginsTrace
<1>2. QED BY <1>1 DEF Quiet, Touched

\* An entry that says "spending" is of a run that shows, or of none.
LEMMA AnnouncedResolved ==
  ASSUME Trace, NEW t \in Tokens, NotedOK(t), NEW p \in Profiles,
         Announced(state.journal[p], t)
  PROVE  Resolved(t)
<1>1. CASE Quiet(t) BY <1>1 DEF Resolved
<1>2. CASE ~Quiet(t)
  <2>1. PICK k \in Jobs : jobs[k].pc = "note" /\ jobs[k].token = t
    BY <1>2, QuietOrTouched DEF NotedOK
  <2>2. Spender(k, t) BY <2>1 DEF Trace, RunsTrace, ShapeOK, Spender
  <2>3. QED BY <2>2 DEF Resolved
<1>3. QED BY <1>1, <1>2

\* Two runs that spend the token are one.
LEMMA OneSpender ==
  ASSUME IInv, Order, NEW t \in Tokens, NEW j \in Jobs, NEW k \in Jobs,
         Spender(j, t), Spender(k, t)
  PROVE  j = k
BY DEF Order, HeldOK, HeldRun, Spender

\* A slot of the journal gets a new entry.
LEMMA EntryChanged ==
  ASSUME JournalOK, NEW p \in Profiles, NEW e,
         Save(SetEntry(p, e)) \/ SaveFails(SetEntry(p, e))
  PROVE  /\ state'.verdicts = state.verdicts /\ saved' \in {saved, state'}
         /\ state'.journal[p] = e
         /\ \A q \in Profiles \ {p} : state'.journal[q] = state.journal[q]
<1>1. state \in RefreshState BY DEF JournalOK, StateOK
<1>2. state' = SetEntry(p, e) /\ saved' \in {saved, state'} BY DEF Save, SaveFails
<1>3. QED BY <1>1, <1>2 DEF SetEntry, RefreshState

LEMMA EntriesKept ==
  ASSUME JournalOK, NEW p \in Profiles, NEW e, NEW t \in Tokens,
         Save(SetEntry(p, e)) \/ SaveFails(SetEntry(p, e)),
         Names(e, t) <=> Names(state.journal[p], t),
         Announced(e, t) => Announced(state.journal[p], t)
  PROVE  EntriesSame(t)
<1>1. /\ state'.verdicts = state.verdicts /\ saved' \in {saved, state'}
      /\ state'.journal[p] = e
      /\ \A q \in Profiles \ {p} : state'.journal[q] = state.journal[q]
  BY EntryChanged
<1>2. ASSUME NEW q \in Profiles
      PROVE  /\ Announced(state'.journal[q], t) => Announced(state.journal[q], t)
             /\ Names(state'.journal[q], t) <=> Names(state.journal[q], t)
  <2>1. CASE q = p BY <1>1, <2>1
  <2>2. CASE q # p
    <3>1. state'.journal[q] = state.journal[q] BY <1>1, <2>2
    <3>2. QED BY <3>1 DEF Announced, Names
  <2>3. QED BY <2>1, <2>2
<1>3. QED BY <1>1, <1>2 DEF EntriesSame, NoNewEntry

\* An entry for another token leaves the entries for this one.
LEMMA OtherEntry ==
  ASSUME JournalOK, NEW p \in Profiles, NEW e, NEW t \in Tokens, NEW u, u # t,
         Save(SetEntry(p, e)) \/ SaveFails(SetEntry(p, e)), e.token \in {u, NoToken},
         TokenRefreshAssumption, t \notin Displaced(p, u)
  PROVE  EntriesSame(t) /\ state.journal[p].token # t
<1>1. t # NoToken BY Numbers
<1>2. state.journal[p].token # t BY <1>1 DEF Displaced
<1>3. ~Names(e, t) /\ ~Announced(e, t) /\ ~Names(state.journal[p], t)
  BY <1>1, <1>2 DEF Names, Announced
<1>4. QED BY <1>2, <1>3, EntriesKept

LEMMA VerdictKept ==
  ASSUME JournalOK, NEW u, NEW t \in Tokens, Save(SetVerdict(u)) \/ SaveFails(SetVerdict(u))
  PROVE  EntriesSame(t) /\ u \in state'.verdicts
<1>1. state \in RefreshState BY DEF JournalOK, StateOK
<1>2. state' = SetVerdict(u) /\ saved' \in {saved, state'} BY DEF Save, SaveFails
<1>3. state'.journal = state.journal /\ state'.verdicts = state.verdicts \cup {u}
  BY <1>1, <1>2 DEF SetVerdict, RefreshState
<1>4. \A p \in Profiles : state'.journal[p] = state.journal[p] BY <1>3
<1>5. /\ \A p \in Profiles : Announced(state'.journal[p], t) => Announced(state.journal[p], t)
      /\ \A p \in Profiles : Names(state'.journal[p], t) <=> Names(state.journal[p], t)
  BY <1>4 DEF Announced, Names
<1>6. QED BY <1>2, <1>3, <1>5 DEF EntriesSame, NoNewEntry

LEMMA EntriesUnchanged ==
  ASSUME NEW t \in Tokens, UNCHANGED <<state, saved>> PROVE EntriesSame(t)
BY DEF EntriesSame, NoNewEntry, Announced, Names

\* Directories of other tokens are deleted.
LEMMA OtherDirs ==
  ASSUME IInv, NEW t \in Tokens, NEW dirs, Forget(dirs), UNCHANGED sent,
         \A q \in Profiles : <<q, t>> \notin dirs
  PROVE  SentSame(t) /\ DirsSame(t)
<1>1. \A k \in Jobs : jobs[k].profile \in Profiles BY DEF IInv, RunsOK, Run
<1>2. \A q \in Profiles : /\ temps'[<<q, t>>] = temps[<<q, t>>]
                          /\ (strays'[<<q, t>>] = "none") <=> (strays[<<q, t>>] = "none")
  BY ForgetTemps DEF IInv
<1>3. QED BY <1>1, <1>2 DEF SentSame, DirsSame

LEMMA ForgetSent ==
  ASSUME IInv, NEW t \in Tokens, NEW dirs, Forget(dirs), UNCHANGED sent PROVE SentSame(t)
BY ForgetTemps DEF IInv, SentSame

LEMMA DirsUnchanged ==
  ASSUME NEW t \in Tokens, UNCHANGED <<temps, strays, sent>> PROVE SentSame(t) /\ DirsSame(t)
BY DEF SentSame, DirsSame

LEMMA HoldersFewer ==
  ASSUME NEW t \in Tokens, \A p \in Profiles : stored'[p] = t => stored[p] = t \/ Quiet(t)
  PROVE  HoldersSame(t)
BY DEF HoldersSame, Holders

LEMMA HoldersUnchanged == ASSUME NEW t \in Tokens, UNCHANGED stored PROVE HoldersSame(t)
BY DEF HoldersSame, Holders

\* A job whose run is about another token.
LEMMA OtherPasses ==
  ASSUME TokenRefreshAssumption, NEW t \in Tokens, NEW j \in Jobs, jobs[j].token # t, Others(j),
         Quits(j) \/ jobs'[j].token = jobs[j].token
  PROVE  JobsSame(t)
<1>1. jobs'[j].token # t BY Numbers DEF Quits, Idle
<1>2. Passes(j, t) BY <1>1 DEF Passes, Spender
<1>3. QED BY <1>2 DEF JobsSame, Others

\* A job that gives up a run that spends nothing.
LEMMA QuitPasses ==
  ASSUME TokenRefreshAssumption, NEW t \in Tokens, NEW j \in Jobs, Quits(j), ~Spender(j, t)
  PROVE  JobsSame(t)
<1>1. jobs'[j].token # t BY Numbers DEF Quits, Idle
<1>2. Passes(j, t) BY <1>1 DEF Passes
<1>3. QED BY <1>2 DEF JobsSame, Quits, Others

\* A job that goes on with the token.
LEMMA TurnPasses ==
  ASSUME NEW t \in Tokens, NEW j \in Jobs, NEW pc, NEW entry, NEW rotated,
         Turns(j, pc, jobs[j].spends, jobs[j].exit, entry, rotated),
         jobs[j].token = t, pc \notin {"launch", "note", "settle"},
         jobs[j].pc = "note" => ~Announced(state'.journal[jobs[j].profile], t),
         pc = "wait" => jobs[j].pc \in {"note", "wait"},
         pc = "clear" => t \in state'.verdicts \/ (Holders(t)' = {} /\ sent[t] > 0)
  PROVE  JobsSame(t)
<1>1. GoesOnWith(j, t) BY DEF Turns, GoesOnWith
<1>2. QED BY <1>1 DEF JobsSame, Turns, Others

\* Only jobs change, and what the entries read before say.
LEMMA AsideSteady ==
  ASSUME NEW t \in Tokens, UNCHANGED <<stored, state, saved, pending, temps, strays, sent>>,
         BacklogSame(t), JobsSame(t)
  PROVE  Aside(t)
BY EntriesUnchanged, DirsUnchanged, HoldersUnchanged DEF Aside, PendingSame

LEMMA BacklogUnchanged == ASSUME UNCHANGED backlog, NEW t \in Tokens PROVE BacklogSame(t)
BY DEF BacklogSame

-----------------------------------------------------------------------------
(* clearJournal.                                                           *)

\* It ends an entry for another token.
LEMMA ClearAside ==
  ASSUME TokenRefreshAssumption, IInv, NEW j \in Jobs, NEW dirs, ClearJournal(j, dirs),
         NEW t \in Tokens \ exposed', jobs[j].token # t, dirs \subseteq {Dir(j)},
         UNCHANGED <<stored, backlog, sent>>, PendingSame(t)
  PROVE  Aside(t)
<1> DEFINE p == jobs[j].profile
           u == jobs[j].token
           e == state.journal[p]
<1>0. jobs[j] \in Run /\ Job(j) = jobs[j] /\ p \in Profiles BY DEF IInv, RunsOK, Job, Run
<1>1. t \notin Displaced(p, u) BY <1>0 DEF ClearJournal
<1>2. Save(SetEntry(p, NoEntry)) \/ SaveFails(SetEntry(p, NoEntry)) BY <1>0 DEF ClearJournal
<1>3. NoEntry.token = NoToken BY DEF NoEntry
<1>4. EntriesSame(t) /\ e.token # t
  <2> HIDE DEF p, u
  <2>1. EntriesSame(t) /\ state.journal[p].token # t
    BY <1>0, <1>1, <1>2, <1>3, OtherEntry DEF IInv, u
  <2>2. QED BY <2>1
<1>5. PICK any : /\ Forget(any)
                 /\ any = dirs \cup (IF e.temp THEN {<<p, e.token>>} ELSE {})
  BY <1>0 DEF ClearJournal
<1>6. \A q \in Profiles : <<q, t>> \notin any BY <1>0, <1>4, <1>5 DEF Dir
<1>7. SentSame(t) /\ DirsSame(t) BY <1>5, <1>6, OtherDirs
<1>8. Quits(j) BY Quit DEF ClearJournal, IInv
<1>9. JobsSame(t) BY <1>8, OtherPasses DEF Quits
<1>10. QED BY <1>4, <1>7, <1>9, HoldersUnchanged, BacklogUnchanged DEF Aside

\* It ends the token's own entry, of which nothing is left to find out.
LEMMA ClearOver ==
  ASSUME TokenRefreshAssumption, IInv, Trace, NEW j \in Jobs, NEW dirs, ClearJournal(j, dirs),
         NEW t \in Tokens \ exposed', jobs[j].token = t, jobs[j].pc # "note",
         UNCHANGED <<stored, backlog, sent>>,
         Quiet(t) \/ t \in state.verdicts \/ Holders(t) = {}
  PROVE  Over(j, t)
<1> DEFINE p == jobs[j].profile
<1>0. jobs[j] \in Run /\ Job(j) = jobs[j] /\ p \in Profiles BY DEF IInv, RunsOK, Job, Run
<1>1. Save(SetEntry(p, NoEntry)) \/ SaveFails(SetEntry(p, NoEntry)) BY <1>0 DEF ClearJournal
<1>2. /\ state'.verdicts = state.verdicts /\ saved' \in {saved, state'}
      /\ state'.journal[p] = NoEntry
      /\ \A q \in Profiles \ {p} : state'.journal[q] = state.journal[q]
  BY <1>0, <1>1, EntryChanged DEF IInv
<1>3. ~Names(NoEntry, t) /\ ~Announced(NoEntry, t)
  BY DEF Names, Announced, NoEntry, Open
<1>4. NoNewEntry(t)
  <2>1. ASSUME NEW q \in Profiles
        PROVE  /\ Announced(state'.journal[q], t) => Announced(state.journal[q], t)
               /\ Names(state'.journal[q], t) => Names(state.journal[q], t)
    <3>1. CASE q = p BY <1>2, <1>3, <3>1
    <3>2. CASE q # p
      <4>1. state'.journal[q] = state.journal[q] BY <1>2, <3>2
      <4>2. QED BY <4>1
    <3>3. QED BY <3>1, <3>2
  <2>2. QED BY <1>2, <2>1 DEF NoNewEntry
<1>5. SentSame(t) /\ Quits(j)
  <2>1. PICK any : Forget(any) BY DEF ClearJournal
  <2>2. QED BY <2>1, ForgetSent, Quit DEF ClearJournal, IInv
<1>6. Quiet(t)' \/ t \in state'.verdicts \/ Holders(t)' = {}
  BY <1>2, <1>5, QuietSame DEF Holders
<1>7. \A k \in Jobs \ {j} : ~Spender(k, t)
  BY <1>0 DEF ClearJournal, InFlight, Spender, Job
<1>8. QED BY <1>4, <1>5, <1>6, <1>7, HoldersUnchanged, BacklogUnchanged DEF Over

\* settle, with the verdict saved or not.
LEMMA JudgeKeeps ==
  ASSUME TokenRefreshAssumption, Sound, Sound', NEW j \in Jobs, Judge(j),
         NEW t \in Tokens \ exposed', SpentOK(t), jobs[j].pc \in {"wait", "settle"},
         jobs[j].exit # "running", UNCHANGED <<stored, pending, backlog, sent>>
  PROVE  SpentOK(t)'
<1> DEFINE u == jobs[j].token
<1>0. /\ IInv /\ IInv' /\ Trace /\ Trace' /\ jobs[j] \in Run /\ Job(j) = jobs[j]
  BY DEF Sound, IInv, RunsOK, Job
<1>1. HoldersSame(t) /\ BacklogSame(t) /\ PendingSame(t)
  BY HoldersUnchanged, BacklogUnchanged DEF PendingSame
<1>2. CASE Moves(j, "clear") /\ Save(SetVerdict(u)) /\ UNCHANGED <<temps, strays>>
  <2>1. EntriesSame(t) /\ u \in state'.verdicts BY <1>0, <1>2, VerdictKept DEF IInv
  <2>2. SentSame(t) /\ DirsSame(t) BY <1>2, DirsUnchanged
  <2>3. JobsSame(t)
    <3>1. CASE u = t BY <1>2, <2>1, <3>1, TurnPasses DEF Moves
    <3>2. CASE u # t BY <1>2, <3>2, OtherPasses DEF Moves, Turns
    <3>3. QED BY <3>1, <3>2
  <2>4. Aside(t) BY <1>1, <2>1, <2>2, <2>3 DEF Aside
  <2>5. QED BY <1>0, <2>4, AsideKeeps
<1>3. CASE Quits(j) /\ SaveFails(SetVerdict(u)) /\ Forget(OwnDir(j))
  <2>1. EntriesSame(t) /\ u \in state'.verdicts BY <1>0, <1>3, VerdictKept DEF IInv
  <2>2. CASE Spender(j, t)
    <3>1. SentSame(t) BY <1>0, <1>3, ForgetSent
    <3>2. \A k \in Jobs \ {j} : ~Spender(k, t) BY <1>0, <2>2, OneSpender DEF Sound
    <3>3. t \in state'.verdicts BY <2>1, <2>2 DEF Spender
    <3>4. Over(j, t) BY <1>1, <1>3, <2>1, <3>1, <3>2, <3>3 DEF Over, EntriesSame
    <3>5. QED BY <1>0, <3>4, OverKeeps
  <2>3. CASE ~Spender(j, t)
    <3>1. \A q \in Profiles : <<q, t>> \notin OwnDir(j)
      BY <1>0, <2>3 DEF OwnDir, Dir, Spender
    <3>2. SentSame(t) /\ DirsSame(t) BY <1>0, <1>3, <3>1, OtherDirs
    <3>3. JobsSame(t) BY <1>3, <2>3, QuitPasses
    <3>4. Aside(t) BY <1>1, <2>1, <3>2, <3>3 DEF Aside
    <3>5. QED BY <1>0, <3>4, AsideKeeps
  <2>4. QED BY <2>2, <2>3
<1>4. QED BY <1>0, <1>2, <1>3, TurnsJudged

-----------------------------------------------------------------------------
(* The steps of a run.                                                     *)

LEMMA SpentPreparing ==
  ASSUME TokenRefreshAssumption, Sound, Sound', NEW j \in Jobs, NEW t \in Tokens, SpentOK(t),
         Acquire(j) \/ SettleLeftover(j) \/ Abandon(j)
  PROVE  SpentOK(t)'
<1>0. /\ IInv /\ IInv' /\ Trace /\ Trace' /\ jobs[j] \in Run /\ Job(j) = jobs[j]
      /\ jobs[j].pc \in {"lock", "look"} /\ ~jobs[j].spends
  BY DEF Sound, IInv, RunsOK, Job, Acquire, SettleLeftover, Abandon, At, Trace, RunsTrace, ShapeOK
<1>1. UNCHANGED <<stored, state, saved, pending, temps, strays, sent, backlog>>
  BY DEF Acquire, SettleLeftover, Abandon, disk, world, history
<1>2. JobsSame(t)
  <2>1. ASSUME NEW pc \in {"look", "settle"}, NEW e, Announced(e, t) => Resolved(t),
               Turns(j, pc, jobs[j].spends, jobs[j].exit, e, jobs[j].rotated),
               pc = "look" \/ jobs'[j].entry = e
        PROVE  JobsSame(t)
    <3>1. Passes(j, t) BY <1>0, <2>1 DEF Turns, Passes, Spender
    <3>2. QED BY <2>1, <3>1 DEF Turns, JobsSame, Others
  <2>2. CASE Quits(j) BY <1>0, <2>2, QuitPasses DEF Spender
  <2>3. CASE Moves(j, "look")
    <3>1. jobs'[j].pc = "look" /\ jobs'[j].spends = jobs[j].spends /\ Others(j)
      BY <2>3 DEF Moves, Turns
    <3>2. Passes(j, t) BY <1>0, <3>1 DEF Passes, Spender
    <3>3. QED BY <3>1, <3>2 DEF JobsSame, Others
  <2>4. CASE Turns(j, "settle", jobs[j].spends, jobs[j].exit, state.journal[jobs[j].profile],
                   jobs[j].rotated)
    <3>1. jobs[j].profile \in Profiles BY <1>0 DEF Run
    <3>2. Announced(state.journal[jobs[j].profile], t) => Resolved(t)
      BY <1>0, <3>1, AnnouncedResolved DEF SpentOK
    <3>3. QED BY <2>1, <2>4, <3>2 DEF Turns
  <2>5. QED BY <1>0, <2>2, <2>3, <2>4, TurnsPreparing
<1>3. Aside(t) BY <1>1, <1>2, BacklogUnchanged, AsideSteady
<1>4. QED BY <1>0, <1>3, AsideKeeps

\* The run that spends a token goes on in its slot of the journal.
LEMMA SpenderGoesOn ==
  ASSUME TokenRefreshAssumption, Sound, Sound', NEW j \in Jobs, NEW t \in Tokens, SpentOK(t),
         Spender(j, t), NEW pc, NEW exit,
         Turns(j, pc, jobs[j].spends, exit, jobs[j].entry, jobs[j].rotated), pc # "clear",
         UNCHANGED <<stored, state, saved, backlog>>,
         pc # "note" => ~(Announced(state.journal[jobs[j].profile], t) /\ Touched(t)'),
         OnceOK(t)', sent'[t] >= sent[t], SpenderOK(j, t)'
  PROVE  SpentOK(t)'
<1> DEFINE p == jobs[j].profile
<1>0. /\ IInv /\ IInv' /\ Trace /\ Trace' /\ Order /\ p \in Profiles
      /\ jobs'[j].token = t /\ jobs'[j].profile = p /\ jobs'[j].pc = pc /\ jobs'[j].spends
      /\ \A k \in Jobs \ {j} : jobs'[k] = jobs[k]
      /\ OnceOK(t) /\ RecordOK(t) /\ NotedOK(t) /\ ReadOK(t)
      /\ \A k \in Jobs : ClearOK(k, t) /\ SpenderOK(k, t)
  BY DEF Sound, IInv, RunsOK, Run, Turns, Others, Spender, SpentOK
<1>1. Names(state.journal[p], t) /\ Names(saved.journal[p], t) BY <1>0 DEF SpenderOK
<1>2. RecordOK(t)' BY <1>0, <1>1 DEF RecordOK, Listed, OneSlot, Names, Open
<1>3. NotedOK(t)'
  <2>1. ASSUME NEW q \in Profiles, Announced(state'.journal[q], t), Touched(t)'
        PROVE  jobs'[j].pc = "note" /\ jobs'[j].profile = q /\ jobs'[j].token = t
    <3>1. Announced(state.journal[q], t) BY <2>1 DEF Announced
    <3>2. Names(state.journal[q], t) BY <3>1 DEF Announced, Names, Open
    <3>3. q = p BY <1>0, <1>1, <3>2 DEF RecordOK, OneSlot
    <3>4. QED BY <1>0, <2>1, <3>1, <3>3
  <2>2. QED BY <2>1 DEF NotedOK
<1>4. Resolved(t)' BY <1>0 DEF Resolved, Spender
<1>5. ReadOK(t)' BY <1>4 DEF ReadOK
<1>6. ASSUME NEW k \in Jobs PROVE ClearOK(k, t)'
  <2>1. CASE k = j BY <1>0, <2>1 DEF ClearOK
  <2>2. CASE k # j
    <3>1. jobs'[k] = jobs[k] BY <1>0, <2>2
    <3>2. sent[t] \in Nat /\ sent'[t] \in Nat BY <1>0 DEF Trace, LoginsTrace
    <3>3. sent[t] > 0 => sent'[t] > 0 BY <3>2
    <3>4. Holders(t)' = Holders(t) BY DEF Holders
    <3>5. ClearOK(k, t) BY <1>0
    <3>6. QED BY <3>1, <3>3, <3>4, <3>5 DEF ClearOK
  <2>3. QED BY <2>1, <2>2
<1>7. ASSUME NEW k \in Jobs PROVE SpenderOK(k, t)'
  <2>1. CASE k = j BY <2>1
  <2>2. CASE k # j
    <3>1. ~Spender(k, t) BY <1>0, <2>2, OneSpender
    <3>2. ~Spender(k, t)' BY <1>0, <2>2, <3>1 DEF Spender
    <3>3. QED BY <3>2 DEF SpenderOK
  <2>3. QED BY <2>1, <2>2
<1>8. QED BY <1>2, <1>3, <1>5, <1>6, <1>7 DEF SpentOK

\* The run starts: its CLI, or nothing.
LEMMA SpentLaunch ==
  ASSUME TokenRefreshAssumption, Sound, Sound', NEW j \in Jobs, NEW t \in Tokens, SpentOK(t),
         Launch(j)
  PROVE  SpentOK(t)'
<1>0. /\ IInv /\ IInv' /\ Trace /\ Trace' /\ Order /\ jobs[j] \in Run /\ Job(j) = jobs[j]
      /\ jobs[j].pc = "launch" /\ jobs[j].spends
  BY DEF Sound, IInv, RunsOK, Job, Launch, At, Trace, RunsTrace, ShapeOK
<1>1. UNCHANGED <<stored, state, saved, pending, temps, strays, sent, backlog>>
  BY DEF Launch, disk, world
<1>2. PICK pc \in {"note", "wait"}, exit \in {"running", "unsent"} :
        /\ Turns(j, pc, jobs[j].spends, exit, jobs[j].entry, jobs[j].rotated)
        /\ pc = "wait" => exit = "unsent"
  BY <1>0, TurnsRunning DEF Sound
<1>3. CASE jobs[j].token # t
  <2>1. JobsSame(t) BY <1>2, <1>3, OtherPasses DEF Turns
  <2>2. Aside(t) BY <1>1, <2>1, BacklogUnchanged, AsideSteady
  <2>3. QED BY <1>0, <2>2, AsideKeeps
<1>4. CASE jobs[j].token = t
  <2>1. Spender(j, t) BY <1>0, <1>4 DEF Spender
  <2>2. SpenderOK(j, t) /\ OnceOK(t) BY DEF SpentOK
  <2>3. Quiet(t) /\ sent[t] \in Nat BY <1>0, <2>1, <2>2 DEF SpenderOK, Trace, LoginsTrace
  <2>4. OnceOK(t)' /\ Quiet(t)' BY <1>1, <2>2, <2>3 DEF OnceOK, Quiet
  <2>5. jobs'[j].exit = exit /\ jobs'[j].pc = pc /\ jobs'[j].profile = jobs[j].profile
    BY <1>2 DEF Turns
  <2>6. SpenderOK(j, t)'
    BY <1>0, <1>1, <2>1, <2>2, <2>4, <2>5 DEF SpenderOK, Names, Open
  <2>7. pc # "note" => ~Touched(t)'
    <3>1. ASSUME pc = "wait", NEW k \in Jobs, jobs'[k].exit = "running", jobs'[k].token = t
          PROVE  FALSE
      <4>1. k # j BY <1>2, <2>5, <3>1
      <4>2. jobs'[k] = jobs[k] BY <1>2, <4>1 DEF Turns, Others
      <4>3. Spender(k, t) BY <1>0, <3>1, <4>2 DEF Trace, RunsTrace, ShapeOK, Spender
      <4>4. QED BY <1>0, <2>1, <4>1, <4>3, OneSpender
    <3>2. sent'[t] = 0 /\ \A p \in Profiles : strays'[<<p, t>>] = "none" BY <2>4 DEF Quiet
    <3>3. ASSUME pc # "note" PROVE ~Touched(t)'
      <4>1. \A k \in Jobs : ~(jobs'[k].exit = "running" /\ jobs'[k].token = t)
        BY <3>1, <3>3
      <4>2. \A k \in Jobs : ~(Job(k)'.exit = "running" /\ Job(k)'.token = t)
        BY <4>1 DEF Job
      <4>3. ~(sent'[t] > 0) BY <3>2
      <4>4. QED BY <3>2, <4>2, <4>3 DEF Touched
    <3>4. QED BY <3>3
  <2>8. sent'[t] >= sent[t] BY <1>1, <2>3
  <2>9. QED BY <1>1, <1>2, <2>1, <2>4, <2>6, <2>7, <2>8, SpenderGoesOn
<1>5. QED BY <1>3, <1>4

LEMMA SpentNoteStarted ==
  ASSUME TokenRefreshAssumption, Sound, Sound', NEW j \in Jobs, NEW t \in Tokens \ exposed',
         SpentOK(t), NoteStarted(j)
  PROVE  SpentOK(t)'
<1> DEFINE p == jobs[j].profile
           u == jobs[j].token
           e == [Spending(j) EXCEPT !.phase = "started"]
<1>0. /\ IInv /\ IInv' /\ Trace /\ Trace' /\ Order /\ jobs[j] \in Run /\ Job(j) = jobs[j]
      /\ jobs[j].pc = "note" /\ jobs[j].spends /\ p \in Profiles
  BY DEF Sound, IInv, RunsOK, Job, NoteStarted, At, Trace, RunsTrace, ShapeOK, Run
<1>1. UNCHANGED <<stored, pending, temps, strays, sent, backlog>>
  BY DEF NoteStarted, world
<1>2. Moves(j, "wait") BY <1>0, TurnsRunning
<1>3. Save(SetEntry(p, e)) \/ SaveFails(SetEntry(p, e)) BY <1>0 DEF NoteStarted
<1>4. e.token = u /\ e.phase = "started" BY <1>0 DEF Spending
<1>5. t \notin Displaced(p, u) BY <1>0 DEF NoteStarted
<1> HIDE DEF e
<1>6. ~Announced(e, t) BY <1>4 DEF Announced
<1>7. EntriesSame(t)
  <2>1. CASE u # t BY <1>0, <1>3, <1>4, <1>5, <2>1, OtherEntry DEF IInv
  <2>2. CASE u = t
    <3>1. Names(state.journal[p], t) BY <1>0, <2>2 DEF SpentOK, SpenderOK, Spender
    <3>2. Names(e, t) BY <1>4, <2>2 DEF Names, Open
    <3>3. QED BY <1>0, <1>3, <1>6, <3>1, <3>2, EntriesKept DEF IInv
  <2>3. QED BY <2>1, <2>2
<1>8. JobsSame(t)
  <2>1. CASE u # t BY <1>2, <2>1, OtherPasses DEF Moves, Turns
  <2>2. CASE u = t
    <3>1. state'.journal[p] = e BY <1>0, <1>3, EntryChanged DEF IInv
    <3>2. ~Announced(state'.journal[jobs[j].profile], t) /\ jobs[j].token = t
      BY <1>6, <2>2, <3>1
    <3>3. GoesOnWith(j, t) BY <1>0, <1>2, <3>2 DEF Moves, Turns, GoesOnWith
    <3>4. QED BY <1>2, <3>3 DEF JobsSame, Moves, Turns, Others
  <2>3. QED BY <2>1, <2>2
<1>9. Aside(t)
  BY <1>1, <1>7, <1>8, DirsUnchanged, HoldersUnchanged, BacklogUnchanged DEF Aside, PendingSame
<1>10. QED BY <1>0, <1>9, AsideKeeps

\* The answer to a CLI in the directory of another token.
LEMMA OtherAnswer ==
  ASSUME IInv, Trace, NEW t \in Tokens, NEW d \in Profiles \X Tokens, d[2] # t, NEW home,
         Idles \/ (\E answered : Spends(d, home, answered)) \/ Refused(d, home)
  PROVE  /\ sent'[t] = sent[t]
         /\ \A p \in Profiles : temps'[<<p, t>>] = temps[<<p, t>>]
<1>1. \A p \in Profiles : <<p, t>> # d /\ <<p, t>> \in Profiles \X Tokens OBVIOUS
<1>2. sent'[t] = sent[t] BY DEF Idles, Spends, Refused, Trace, LoginsTrace
<1>3. temps' = temps \/ \E s : temps' = [temps EXCEPT ![d] = s]
  BY DEF Idles, Spends, Refused, Writes
<1>4. QED BY <1>1, <1>2, <1>3 DEF IInv, DirsOK

Answers(d) == Spends(d, TRUE, TRUE)

\* The answer to a CLI on a token nothing was sent for yet.
LEMMA FirstAnswer ==
  ASSUME TokenRefreshAssumption, IInv, Order, Trace, NEW t \in launched,
         NEW d \in Profiles \X Tokens, d[2] = t, NEW home, sent[t] = 0,
         Idles \/ (\E answered : Spends(d, home, answered)) \/ Refused(d, home)
  PROVE  /\ sent'[t] \in {0, 1} /\ (Idles => sent'[t] = 0 /\ UNCHANGED temps)
         /\ temps[d] # NoToken /\ Answers(d) => sent'[t] = 1 /\ temps'[d] \in Tokens \ {t}
<1>0. t \in Tokens /\ successor[t] = NoToken /\ issued \in 0..MaxToken /\ t <= issued
  BY DEF IInv, LoginsOK, Trace, LoginsTrace, Order, LoginsAge
<1>1. sent \in [Tokens -> Nat] BY DEF Trace, LoginsTrace
<1>2. ~Refused(d, home) BY <1>0 DEF Refused
<1>3. \A answered : Spends(d, home, answered) => sent'[t] = 1 BY <1>0, <1>1 DEF Spends
<1>4. Idles => sent'[t] = 0 /\ UNCHANGED temps BY DEF Idles
<1>5. ASSUME temps[d] # NoToken, Answers(d) PROVE sent'[t] = 1 /\ temps'[d] \in Tokens \ {t}
  <2>1. temps'[d] = issued + 1 /\ issued < MaxToken BY <1>5 DEF Answers, Spends, Writes, IInv, DirsOK
  <2>2. issued + 1 \in Tokens /\ issued + 1 # t
    BY <1>0, <2>1, Numbers DEF Tokens, TokenRefreshAssumption
  <2>3. sent'[t] = 1 BY <1>0, <1>1, <1>5 DEF Answers, Spends
  <2>4. QED BY <2>1, <2>2, <2>3
<1>6. QED BY <1>2, <1>3, <1>4, <1>5

LEMMA SpentCliEnds ==
  ASSUME TokenRefreshAssumption, Sound, Sound', NEW j \in Jobs, NEW t \in Tokens, SpentOK(t),
         CliEnds(j)
  PROVE  SpentOK(t)'
<1> DEFINE d == <<jobs[j].profile, jobs[j].token>>
<1>0. /\ IInv /\ IInv' /\ Trace /\ Trace' /\ Order /\ jobs[j] \in Run /\ Job(j) = jobs[j]
      /\ jobs[j].exit = "running" /\ jobs[j].token \in launched
  BY DEF Sound, IInv, RunsOK, Job, CliEnds, RunOK
<1>1. /\ jobs[j].spends /\ jobs[j].pc \in {"note", "wait"} /\ Dir(j) = d
      /\ d \in Profiles \X Tokens
  BY <1>0 DEF Trace, RunsTrace, ShapeOK, Dir, IInv, LoginsOK, Run
<1>2. UNCHANGED <<stored, state, saved, pending, strays, backlog>> BY DEF CliEnds
<1>3. Idles \/ (\E answered : Spends(d, TRUE, answered)) \/ Refused(d, TRUE)
  BY <1>1 DEF CliEnds
<1>4. PICK how \in {"unsent", "clean", "failed", "rejected"} :
        /\ Turns(j, jobs[j].pc, jobs[j].spends, how, jobs[j].entry, jobs[j].rotated)
        /\ how = "unsent" => Idles
        /\ how = "clean" => Answers(d)
  <2>1. PICK how \in {"unsent", "clean", "failed", "rejected"} :
          /\ Exits(j, how) /\ (how = "unsent" => Idles)
          /\ how = "clean" => Answers(d)
    BY <1>1 DEF CliEnds, Answers
  <2>2. QED BY <1>0, <2>1, TurnsRunning
<1>5. CASE jobs[j].token # t
  <2>1. d[2] # t BY <1>5
  <2>2. /\ sent'[t] = sent[t]
        /\ \A p \in Profiles : temps'[<<p, t>>] = temps[<<p, t>>]
    <3> HIDE DEF d
    <3>1. QED BY <1>0, <1>1, <1>3, <2>1, OtherAnswer
  <2>3. \A k \in Jobs : jobs[k].profile \in Profiles BY <1>0 DEF IInv, RunsOK, Run
  <2>4. SentSame(t) /\ DirsSame(t) BY <1>2, <2>2, <2>3 DEF SentSame, DirsSame
  <2>5. JobsSame(t) BY <1>4, <1>5, OtherPasses DEF Turns
  <2>6. Aside(t)
    BY <1>2, <2>4, <2>5, EntriesUnchanged, HoldersUnchanged, BacklogUnchanged
       DEF Aside, PendingSame
  <2>7. QED BY <1>0, <2>6, AsideKeeps
<1>6. CASE jobs[j].token = t
  <2>1. Spender(j, t) /\ d[2] = t /\ t \in launched BY <1>0, <1>1, <1>6 DEF Spender
  <2>2. SpenderOK(j, t) /\ OnceOK(t) /\ NotedOK(t) BY DEF SpentOK
  <2>3. Quiet(t) /\ temps[d] # NoToken BY <1>0, <1>6, <2>1, <2>2 DEF SpenderOK
  <2>4. sent[t] = 0 BY <2>3 DEF Quiet
  <2>5. /\ sent'[t] \in {0, 1} /\ (Idles => sent'[t] = 0 /\ UNCHANGED temps)
        /\ Answers(d) => sent'[t] = 1 /\ temps'[d] \in Tokens \ {t}
    <3> HIDE DEF d
    <3>1. /\ sent'[t] \in {0, 1} /\ (Idles => sent'[t] = 0 /\ UNCHANGED temps)
          /\ Answers(d) => sent'[t] = 1 /\ temps'[d] \in Tokens \ {t}
      BY <1>0, <1>1, <1>3, <2>1, <2>3, <2>4, FirstAnswer
    <3>2. QED BY <3>1
  <2>6. OnceOK(t)' BY <1>2, <2>3, <2>5 DEF OnceOK, Quiet
  <2>7. /\ jobs'[j].exit = how /\ jobs'[j].pc = jobs[j].pc
        /\ jobs'[j].profile = jobs[j].profile /\ d = <<jobs[j].profile, t>>
    BY <1>4, <1>6 DEF Turns
  <2>8. how = "unsent" => Quiet(t)' BY <1>2, <1>4, <2>3, <2>5 DEF Quiet
  <2>9. how = "clean" => temps'[d] \in Tokens \ {t} /\ sent'[t] > 0
    <3> HIDE DEF d
    <3>1. QED BY <1>4, <2>5
  <2>10. Names(state.journal[jobs[j].profile], t)' /\ Names(saved.journal[jobs[j].profile], t)'
    BY <1>2, <2>1, <2>2, <2>7 DEF SpenderOK, Names, Open
  <2>11. SpenderOK(j, t)'
    <3> HIDE DEF d
    <3>1. QED BY <1>1, <2>7, <2>8, <2>9, <2>10 DEF SpenderOK
  <2>12. jobs[j].pc # "note" => ~Announced(state.journal[jobs[j].profile], t)
    <3>1. Touched(t) BY <1>0, <1>6 DEF Touched
    <3>2. ASSUME Announced(state.journal[jobs[j].profile], t) PROVE jobs[j].pc = "note"
      <4>1. PICK k \in Jobs : jobs[k].pc = "note" /\ jobs[k].token = t
        BY <1>0, <2>2, <3>1, <3>2 DEF NotedOK, Run
      <4>2. Spender(k, t) BY <1>0, <4>1 DEF Trace, RunsTrace, ShapeOK, Spender
      <4>3. QED BY <1>0, <2>1, <4>1, <4>2, OneSpender
    <3>3. QED BY <3>2
  <2>13. sent'[t] >= sent[t] BY <2>4, <2>5
  <2>14. jobs[j].pc # "clear" BY <1>1
  <2>15. QED BY <1>2, <1>4, <2>1, <2>6, <2>11, <2>12, <2>13, <2>14, SpenderGoesOn
<1>7. QED BY <1>5, <1>6

\* The run is given up; its container goes on, and may send the one request.
LEMMA SpentTimesOut ==
  ASSUME TokenRefreshAssumption, Sound, Sound', NEW j \in Jobs, NEW t \in Tokens, SpentOK(t),
         TimesOut(j)
  PROVE  SpentOK(t)'
<1> DEFINE d == <<jobs[j].profile, jobs[j].token>>
<1>0. /\ IInv /\ IInv' /\ Trace /\ Trace' /\ Order /\ jobs[j] \in Run /\ Job(j) = jobs[j]
      /\ jobs[j].exit = "running" /\ jobs[j].pc = "wait" /\ jobs[j].spends
      /\ jobs[j].token \in Tokens
  BY DEF Sound, IInv, LoginsOK, RunsOK, RunOK, Job, TimesOut, At, Trace, RunsTrace, ShapeOK
<1>1. Dir(j) = d /\ d \in Profiles \X Tokens BY <1>0 DEF Dir, Run
<1>2. UNCHANGED <<stored, state, saved, pending, temps, backlog, sent>>
  BY DEF TimesOut, disk, history
<1>3. Turns(j, "wait", jobs[j].spends, "failed", jobs[j].entry, jobs[j].rotated)
  BY <1>0, TurnsRunning DEF TimesOut
<1>4. \A e \in Profiles \X Tokens \ {d} : strays'[e] = strays[e]
  BY <1>0, <1>1 DEF TimesOut, IInv, DirsOK
<1>5. CASE jobs[j].token # t
  <2>1. SentSame(t) /\ DirsSame(t) BY <1>2, <1>4, <1>5 DEF SentSame, DirsSame
  <2>2. JobsSame(t) BY <1>3, <1>5, OtherPasses DEF Turns
  <2>3. Aside(t)
    BY <1>2, <2>1, <2>2, EntriesUnchanged, HoldersUnchanged, BacklogUnchanged
       DEF Aside, PendingSame
  <2>4. QED BY <1>0, <2>3, AsideKeeps
<1>6. CASE jobs[j].token = t
  <2>1. Spender(j, t) BY <1>0, <1>6 DEF Spender
  <2>2. SpenderOK(j, t) /\ NotedOK(t) BY DEF SpentOK
  <2>3. Quiet(t) BY <1>0, <2>1, <2>2 DEF SpenderOK
  <2>4. \A p \in Profiles : strays'[<<p, t>>] # "none" => p = jobs[j].profile
    BY <1>4, <2>3 DEF Quiet
  <2>5. OnceOK(t)' BY <1>2, <2>3, <2>4 DEF OnceOK, Quiet
  <2>6. /\ jobs'[j].exit = "failed" /\ jobs'[j].pc = "wait"
        /\ jobs'[j].profile = jobs[j].profile
    BY <1>3 DEF Turns
  <2>7. SpenderOK(j, t)' BY <1>2, <2>1, <2>2, <2>6 DEF SpenderOK, Names, Open
  <2>8. ~Announced(state.journal[jobs[j].profile], t)
    <3>1. Touched(t) BY <1>0, <1>6 DEF Touched
    <3>2. ASSUME Announced(state.journal[jobs[j].profile], t) PROVE FALSE
      <4>1. PICK k \in Jobs : jobs[k].pc = "note" /\ jobs[k].token = t
        BY <1>0, <2>2, <3>1, <3>2 DEF NotedOK, Run
      <4>2. Spender(k, t) BY <1>0, <4>1 DEF Trace, RunsTrace, ShapeOK, Spender
      <4>3. QED BY <1>0, <2>1, <4>1, <4>2, OneSpender
    <3>3. QED BY <3>2
  <2>9. sent'[t] >= sent[t] BY <1>0, <1>2 DEF Trace, LoginsTrace
  <2>10. QED BY <1>2, <1>3, <2>1, <2>5, <2>7, <2>8, <2>9, SpenderGoesOn
<1>7. QED BY <1>5, <1>6

\* The container left behind sends its one request, or none.
LEMMA SpentStrayEnds ==
  ASSUME TokenRefreshAssumption, Sound, Sound', NEW d \in Profiles \X Tokens, NEW t \in Tokens,
         SpentOK(t), StrayEnds(d)
  PROVE  SpentOK(t)'
<1>0. /\ IInv /\ IInv' /\ Trace /\ Trace' /\ Order /\ strays[d] # "none" /\ d[2] \in launched
  BY DEF Sound, StrayEnds, IInv, DirsOK
<1>1. UNCHANGED <<stored, state, saved, pending, backlog, jobs>> BY DEF StrayEnds, memory
<1>2. PICK home : Idles \/ (\E answered : Spends(d, home, answered)) \/ Refused(d, home)
  BY DEF StrayEnds
<1>3. strays' = [strays EXCEPT ![d] = "none"] BY DEF StrayEnds
<1>4. JobsSame(t) BY <1>1 DEF JobsSame
<1>5. CASE d[2] # t
  <2>1. /\ sent'[t] = sent[t]
        /\ \A p \in Profiles : temps'[<<p, t>>] = temps[<<p, t>>]
    BY <1>0, <1>2, <1>5, OtherAnswer
  <2>2. \A p \in Profiles : strays'[<<p, t>>] = strays[<<p, t>>]
    BY <1>0, <1>3, <1>5 DEF IInv, DirsOK
  <2>3. \A k \in Jobs : jobs[k].profile \in Profiles BY <1>0 DEF IInv, RunsOK, Run
  <2>4. SentSame(t) /\ DirsSame(t) BY <2>1, <2>2, <2>3 DEF SentSame, DirsSame
  <2>5. Aside(t)
    BY <1>1, <1>4, <2>4, EntriesUnchanged, HoldersUnchanged, BacklogUnchanged
       DEF Aside, PendingSame
  <2>6. QED BY <1>0, <2>5, AsideKeeps
<1>6. CASE d[2] = t
  <2>0. /\ OnceOK(t) /\ RecordOK(t) /\ NotedOK(t) /\ ReadOK(t)
        /\ \A k \in Jobs : ClearOK(k, t) /\ SpenderOK(k, t)
    BY DEF SpentOK
  <2>1. d = <<d[1], t>> /\ d[1] \in Profiles BY <1>6
  <2>2. ~Quiet(t) BY <1>0, <2>1 DEF Quiet
  <2>3. sent[t] \in Nat /\ sent'[t] \in Nat BY <1>0 DEF Trace, LoginsTrace
  <2>4. sent[t] = 0 BY <1>0, <2>0, <2>1, <2>3 DEF OnceOK
  <2>5. sent'[t] \in {0, 1} BY <1>0, <1>2, <1>6, <2>4, FirstAnswer
  <2>6. \A p \in Profiles : strays'[<<p, t>>] = "none"
    <3>1. ASSUME NEW p \in Profiles PROVE strays'[<<p, t>>] = "none"
      <4>1. CASE p = d[1] BY <1>0, <1>3, <2>1, <4>1 DEF IInv, DirsOK
      <4>2. CASE p # d[1]
        <5>1. strays[<<p, t>>] = "none" BY <1>0, <2>0, <2>1, <4>2 DEF OnceOK
        <5>2. QED BY <1>0, <1>3, <5>1 DEF IInv, DirsOK
      <4>3. QED BY <4>1, <4>2
    <3>2. QED BY <3>1
  <2>7. OnceOK(t)' BY <2>5, <2>6 DEF OnceOK
  <2>8. Holders(t)' = Holders(t) BY <1>1 DEF Holders
  <2>9. RecordOK(t)'
    <3>1. Holders(t) = {} \/ (Listed(state, t) /\ Listed(saved, t)) BY <2>0, <2>2 DEF RecordOK
    <3>2. Listed(state, t)' = Listed(state, t) /\ Listed(saved, t)' = Listed(saved, t)
      BY <1>1 DEF Listed, Names, Open
    <3>3. OneSlot(state, t)' /\ OneSlot(saved, t)' BY <1>1, <2>0 DEF RecordOK, OneSlot, Names, Open
    <3>4. QED BY <2>8, <3>1, <3>2, <3>3 DEF RecordOK
  <2>10. Touched(t) BY <1>0, <2>2, QuietOrTouched
  <2>11. NotedOK(t)' BY <1>1, <2>0, <2>10 DEF NotedOK, Announced
  <2>12. Resolved(t) => Resolved(t)' BY <1>1, <2>2, <2>8 DEF Resolved, Spender
  <2>13. ReadOK(t)' BY <1>1, <2>0, <2>12 DEF ReadOK, Announced
  <2>14. ASSUME NEW k \in Jobs PROVE ClearOK(k, t)'
    <3>1. ClearOK(k, t) BY <2>0
    <3>2. QED BY <1>1, <2>4, <2>8, <3>1 DEF ClearOK
  <2>15. ASSUME NEW k \in Jobs PROVE SpenderOK(k, t)'
    <3>1. SpenderOK(k, t) BY <2>0
    <3>2. QED BY <1>1, <2>2, <2>4, <3>1 DEF SpenderOK, Spender, Names, Open
  <2>16. QED BY <2>7, <2>9, <2>11, <2>13, <2>14, <2>15 DEF SpentOK
<1>7. QED BY <1>5, <1>6

\* The journal entry is written: nothing was sent for the token yet.
LEMMA JournalQuiet ==
  ASSUME TokenRefreshAssumption, Sound, NEW j \in Jobs, NEW t \in Tokens \ exposed', SpentOK(t),
         Journal(j), jobs[j].token = t
  PROVE  /\ ~Listed(state, t) /\ Quiet(t) /\ \A k \in Jobs : ~Spender(k, t)
         /\ \A k \in Jobs : ~(jobs[k].pc = "clear" /\ jobs[k].token = t)
<1>0. /\ IInv /\ Trace /\ jobs[j] \in Run /\ Job(j) = jobs[j] /\ jobs[j].profile \in Profiles
  BY DEF Sound, IInv, RunsOK, Job, Run
<1>1. t \notin state.verdicts /\ ~NamedElsewhere(j) /\ ~Leftover(j)
      /\ stored[jobs[j].profile] = t
  BY <1>0 DEF Journal
<1>2. ~Listed(state, t)
  BY <1>0, <1>1 DEF Listed, Names, NamedElsewhere, Leftover
<1>3. Holders(t) # {} BY <1>0, <1>1 DEF Holders
<1>4. Quiet(t) BY <1>2, <1>3 DEF SpentOK, RecordOK
<1>5. \A k \in Jobs : ~Spender(k, t)
  BY <1>0, <1>2 DEF SpentOK, SpenderOK, Listed, IInv, RunsOK, Run
<1>6. \A k \in Jobs : ~(jobs[k].pc = "clear" /\ jobs[k].token = t)
  BY <1>1, <1>3 DEF SpentOK, ClearOK
<1>7. QED BY <1>2, <1>4, <1>5, <1>6

LEMMA SpentJournal ==
  ASSUME TokenRefreshAssumption, Sound, Sound', NEW j \in Jobs, NEW t \in Tokens \ exposed',
         SpentOK(t), Journal(j)
  PROVE  SpentOK(t)'
<1> DEFINE p == jobs[j].profile
           u == jobs[j].token
           e == Spending(j)
<1>0. /\ IInv /\ IInv' /\ Trace /\ Trace' /\ jobs[j] \in Run /\ Job(j) = jobs[j]
      /\ jobs[j].pc = "look" /\ ~jobs[j].spends /\ p \in Profiles /\ u \in Tokens
  BY DEF Sound, IInv, RunsOK, RunOK, Job, Journal, At, Trace, RunsTrace, ShapeOK, Run
<1>1. UNCHANGED <<stored, pending, sent, backlog>> BY DEF Journal
<1>2. Save(SetEntry(p, e)) \/ SaveFails(SetEntry(p, e)) BY <1>0 DEF Journal
<1>3. e.token = u /\ e.phase = "spending" BY <1>0 DEF Spending
<1>4. t \notin Displaced(p, u) BY <1>0 DEF Journal
<1>5. \/ Quits(j)
      \/ Turns(j, "launch", TRUE, jobs[j].exit, jobs[j].entry, jobs[j].rotated)
  BY <1>0, TurnsPreparing
<1>6. \/ UNCHANGED <<temps, strays>>
      \/ /\ temps' = [temps EXCEPT ![<<p, u>>] = u]
         /\ strays' = [strays EXCEPT ![<<p, u>>] = IF @ = "home" THEN "lost" ELSE @]
  BY <1>0 DEF Journal
<1>7. \A q \in Profiles : (strays'[<<q, t>>] = "none") <=> (strays[<<q, t>>] = "none")
  BY <1>0, <1>6 DEF IInv, DirsOK
<1>8. SentSame(t) BY <1>1, <1>7 DEF SentSame
<1> HIDE DEF e
<1>9. CASE u # t
  <2>1. EntriesSame(t)
    <3> HIDE DEF p, u
    <3>1. QED BY <1>0, <1>2, <1>3, <1>4, <1>9, OtherEntry DEF IInv
  <2>2. DirsSame(t)
    <3>1. ASSUME NEW k \in Jobs
          PROVE  temps'[<<jobs[k].profile, t>>] = temps[<<jobs[k].profile, t>>]
      <4>1. <<jobs[k].profile, t>> \in Profiles \X Tokens BY <1>0 DEF IInv, RunsOK, Run
      <4>2. <<jobs[k].profile, t>> # <<p, u>> BY <1>9
      <4>3. QED BY <1>0, <1>6, <4>1, <4>2 DEF IInv, DirsOK
    <3>2. QED BY <3>1 DEF DirsSame
  <2>3. JobsSame(t) BY <1>5, <1>9, OtherPasses DEF Quits, Turns
  <2>4. Aside(t)
    BY <1>1, <1>8, <2>1, <2>2, <2>3, HoldersUnchanged, BacklogUnchanged DEF Aside, PendingSame
  <2>5. QED BY <1>0, <2>4, AsideKeeps
<1>10. CASE u = t
  <2>1. /\ ~Listed(state, t) /\ Quiet(t) /\ \A k \in Jobs : ~Spender(k, t)
        /\ \A k \in Jobs : ~(jobs[k].pc = "clear" /\ jobs[k].token = t)
    BY <1>10, JournalQuiet
  <2>2. /\ state'.verdicts = state.verdicts /\ saved' \in {saved, state'}
        /\ state'.journal[p] = e
        /\ \A q \in Profiles \ {p} : state'.journal[q] = state.journal[q]
    BY <1>0, <1>2, EntryChanged DEF IInv
  <2>3. Quiet(t)' BY <1>8, <2>1, QuietSame
  <2>4. \A q \in Profiles : Names(state'.journal[q], t) => q = p
    <3>1. \A q \in Profiles \ {p} : ~Names(state'.journal[q], t) BY <2>1, <2>2 DEF Listed
    <3>2. QED BY <3>1
  <2>5. RecordOK(t)'
    <3>1. OneSlot(state, t)' BY <2>4 DEF OneSlot
    <3>2. OneSlot(saved, t) BY DEF SpentOK, RecordOK
    <3>3. OneSlot(saved, t)' BY <2>2, <3>1, <3>2 DEF OneSlot
    <3>4. QED BY <2>3, <3>1, <3>3 DEF RecordOK
  <2>6. ASSUME NEW k \in Jobs PROVE ~(jobs'[k].exit = "running" /\ jobs'[k].token = t)
    <3>1. CASE k = j
      <4>1. jobs[j].exit # "running" BY <1>0 DEF Trace, RunsTrace, ShapeOK
      <4>2. QED BY <1>5, <3>1, <4>1 DEF Quits, Turns, Idle
    <3>2. CASE k # j
      <4>1. jobs'[k] = jobs[k] BY <1>5, <3>2 DEF Quits, Turns, Others
      <4>2. QED BY <1>0, <2>1, <4>1 DEF Trace, RunsTrace, ShapeOK, Spender
    <3>3. QED BY <3>1, <3>2
  <2>7. ~Touched(t)'
    <3>1. \A k \in Jobs : ~(Job(k)'.exit = "running" /\ Job(k)'.token = t) BY <2>6 DEF Job
    <3>2. sent'[t] = 0 /\ \A q \in Profiles : strays'[<<q, t>>] = "none" BY <2>3 DEF Quiet
    <3>3. ~(sent'[t] > 0) BY <3>2
    <3>4. QED BY <3>1, <3>2, <3>3 DEF Touched
  <2>8. NotedOK(t)' BY <2>7 DEF NotedOK
  <2>9. ReadOK(t)' BY <2>3 DEF ReadOK, Resolved
  <2>10. OnceOK(t)' BY <1>8, OnceSame DEF SpentOK
  <2>11. ASSUME NEW k \in Jobs PROVE ClearOK(k, t)'
    <3>1. CASE k = j
      <4>1. jobs'[j].pc # "clear" BY <1>5 DEF Quits, Turns, Idle
      <4>2. QED BY <3>1, <4>1 DEF ClearOK
    <3>2. CASE k # j
      <4>1. jobs'[k] = jobs[k] BY <1>5, <3>2 DEF Quits, Turns, Others
      <4>2. QED BY <2>1, <4>1 DEF ClearOK
    <3>3. QED BY <3>1, <3>2
  <2>12. ASSUME NEW k \in Jobs, Spender(k, t)' PROVE SpenderOK(k, t)'
    <3>1. k = j
      <4>1. CASE k # j
        <5>1. jobs'[k] = jobs[k] BY <1>5, <4>1 DEF Quits, Turns, Others
        <5>2. QED BY <2>1, <2>12, <5>1 DEF Spender
      <4>2. QED BY <4>1
    <3>2. ~Quits(j) BY <2>12, <3>1 DEF Quits, Spender, Idle
    <3>3. /\ Save(SetEntry(p, e)) /\ temps' = [temps EXCEPT ![<<p, u>>] = u]
      <4>1. Leave(j) => Quits(j) BY <1>0, Quit DEF IInv
      <4>2. QED BY <1>0, <3>2, <4>1 DEF Journal, e
    <3>4. saved' = state' BY <3>3 DEF Save
    <3>5. Names(e, t) BY <1>3, <1>10 DEF Names, Open
    <3>6. jobs'[j].pc = "launch" /\ jobs'[j].profile = p BY <1>5, <3>2 DEF Turns
    <3>7. temps'[<<p, t>>] = t
      <4>1. <<p, t>> \in Profiles \X Tokens /\ <<p, t>> = <<p, u>> BY <1>0, <1>10
      <4> HIDE DEF p, u
      <4>2. QED BY <1>0, <1>10, <3>3, <4>1 DEF IInv, DirsOK
    <3>8. t # NoToken BY Numbers
    <3>9. Names(state'.journal[p], t) /\ Names(saved'.journal[p], t) BY <2>2, <3>4, <3>5
    <3> HIDE DEF p, u
    <3>10. QED BY <2>3, <3>1, <3>6, <3>7, <3>8, <3>9 DEF SpenderOK
  <2>13. QED BY <2>5, <2>8, <2>9, <2>10, <2>11, <2>12 DEF SpentOK, SpenderOK
<1>11. QED BY <1>9, <1>10

LEMMA SpentClassifying ==
  ASSUME TokenRefreshAssumption, Sound, Sound', NEW j \in Jobs, NEW t \in Tokens \ exposed',
         SpentOK(t), FindRotated(j) \/ FindUnsent(j) \/ FindSpent(j) \/ Clear(j)
  PROVE  SpentOK(t)'
<1> DEFINE u == jobs[j].token
           d == <<jobs[j].profile, jobs[j].token>>
<1>0. /\ IInv /\ IInv' /\ Trace /\ Trace' /\ Order /\ jobs[j] \in Run /\ Job(j) = jobs[j]
      /\ ShapeOK(jobs[j])
  BY DEF Sound, IInv, RunsOK, Job, Trace, RunsTrace
<1>1. UNCHANGED <<stored, backlog, sent>>
  BY DEF FindRotated, FindUnsent, FindSpent, Clear, disk, history
<1>2. CASE FindRotated(j)
  <2>1. UNCHANGED <<state, saved, pending, temps, strays>> BY <1>2 DEF FindRotated, disk, world
  <2>2. jobs[j].pc = "wait" BY <1>0, <1>2 DEF FindRotated, Ended, At
  <2>3. PICK s : Turns(j, "rescue", jobs[j].spends, jobs[j].exit, jobs[j].entry, s)
    BY <1>0, <1>2, TurnsSettling DEF FindRotated
  <2>4. JobsSame(t)
    <3>1. CASE u # t BY <2>3, <3>1, OtherPasses DEF Turns
    <3>2. CASE u = t BY <2>2, <2>3, <3>2, TurnPasses
    <3>3. QED BY <3>1, <3>2
  <2>5. Aside(t) BY <1>1, <2>1, <2>4, BacklogUnchanged, AsideSteady
  <2>6. QED BY <1>0, <2>5, AsideKeeps
<1>3. CASE FindUnsent(j)
  <2>1. ClearJournal(j, OwnDir(j)) /\ UNCHANGED pending /\ jobs[j].pc = "wait"
    BY <1>0, <1>3 DEF FindUnsent, Ended, At
  <2>2. CASE u # t
    <3>1. OwnDir(j) \subseteq {Dir(j)} BY DEF OwnDir
    <3>2. PendingSame(t) BY <2>1 DEF PendingSame
    <3>3. Aside(t) BY <1>0, <1>1, <2>1, <2>2, <3>1, <3>2, ClearAside
    <3>4. QED BY <1>0, <3>3, AsideKeeps
  <2>3. CASE u = t
    <3>1. Spender(j, t) BY <1>0, <2>1, <2>3 DEF ShapeOK, Spender
    <3>2. SpenderOK(j, t) BY DEF SpentOK
    <3>3. jobs[j].exit # "clean"
      <4>1. SUFFICES ASSUME jobs[j].exit = "clean" PROVE FALSE OBVIOUS
      <4>2. temps[d] \in Tokens \ {d[2]} BY <2>1, <2>3, <3>1, <3>2, <4>1 DEF SpenderOK
      <4>3. Advanced(d) = temps[d] BY <4>2 DEF Advanced
      <4>4. Advanced(d) # NoToken BY <4>2, <4>3, Numbers
      <4>5. QED BY <1>0, <1>3, <4>4 DEF FindUnsent, Dir
    <3>4. jobs[j].exit = "unsent" BY <1>0, <1>3, <3>3 DEF FindUnsent, Unsent
    <3>5. Quiet(t) BY <3>1, <3>2, <3>4 DEF SpenderOK
    <3>6. Over(j, t) BY <1>0, <1>1, <2>1, <2>3, <3>5, ClearOver
    <3>7. QED BY <1>0, <3>6, OverKeeps
  <2>4. QED BY <2>2, <2>3
<1>4. CASE FindSpent(j)
  <2>1. /\ Judge(j) /\ jobs[j].pc = "wait" /\ jobs[j].exit # "running" /\ UNCHANGED pending
    BY <1>0, <1>4 DEF FindSpent, Ended, At
  <2>2. QED BY <1>1, <2>1, JudgeKeeps
<1>5. CASE Clear(j)
  <2>1. ClearJournal(j, OwnDir(j)) /\ jobs[j].pc = "clear" BY <1>0, <1>5 DEF Clear, At
  <2>2. CASE u # t
    <3>1. OwnDir(j) \subseteq {Dir(j)} BY DEF OwnDir
    <3>2. PendingSame(t)
      BY <1>0, <1>5, <2>2 DEF Clear, DropPending, PendingSame, IInv, LoginsOK
    <3>3. Aside(t) BY <1>0, <1>1, <2>1, <2>2, <3>1, <3>2, ClearAside
    <3>4. QED BY <1>0, <3>3, AsideKeeps
  <2>3. CASE u = t
    <3>1. t \in state.verdicts \/ Holders(t) = {} BY <2>1, <2>3 DEF SpentOK, ClearOK
    <3>2. Over(j, t) BY <1>0, <1>1, <2>1, <2>3, <3>1, ClearOver
    <3>3. QED BY <1>0, <3>2, OverKeeps
  <2>4. QED BY <2>2, <2>3
<1>6. QED BY <1>2, <1>3, <1>4, <1>5

LEMMA SpentCommitting ==
  ASSUME TokenRefreshAssumption, Sound, Sound', NEW j \in Jobs, NEW t \in Tokens \ exposed',
         SpentOK(t),
         \/ WriteRescue(j) \/ Mark(j) \/ List(j) \/ CommitOne(j) \/ FinishPartly(j) \/ Finish(j)
  PROVE  SpentOK(t)'
<1> DEFINE p == jobs[j].profile
           u == jobs[j].token
           s == jobs[j].rotated
<1>0. /\ IInv /\ IInv' /\ Trace /\ Trace' /\ Order /\ jobs[j] \in Run /\ Job(j) = jobs[j]
      /\ ShapeOK(jobs[j]) /\ RotatedOK(jobs[j], successor) /\ p \in Profiles
      /\ jobs[j].pc \in {"rescue", "mark", "list", "commit"}
  BY DEF Sound, IInv, RunsOK, Job, Trace, RunsTrace, Run, At, WriteRescue, Mark, List,
         CommitOne, FinishPartly, Finish
<1>1. UNCHANGED <<backlog, sent>>
  BY DEF WriteRescue, Mark, List, CommitOne, FinishPartly, Finish, disk, world, history
<1>2. s # NoToken /\ u \in Tokens /\ s = successor[u] BY <1>0 DEF ShapeOK, RotatedOK
<1>3. ASSUME HoldPending(u, s) PROVE PendingSame(t) /\ (u = t => pending'[t] # NoToken)
  BY <1>0, <1>2, <1>3 DEF HoldPending, PendingSame, IInv, LoginsOK
<1>4. ASSUME NEW pc \in {"mark", "list", "commit", "clear"}, Moves(j, pc),
             pc = "clear" => u # t \/ (Holders(t)' = {} /\ sent[t] > 0)
      PROVE  JobsSame(t)
  <2>1. CASE u # t BY <1>4, <2>1, OtherPasses DEF Moves, Turns
  <2>2. CASE u = t
    <3>1. jobs[j].pc # "note" BY <1>0
    <3>2. pc \notin {"launch", "note", "settle"} /\ pc # "wait" BY <1>4
    <3>3. GoesOnWith(j, t) BY <1>4, <2>2, <3>1, <3>2 DEF Moves, Turns, GoesOnWith
    <3>4. QED BY <1>4, <3>3 DEF JobsSame, Moves, Turns, Others
  <2>3. QED BY <2>1, <2>2
<1>5. ASSUME UNCHANGED <<temps, strays>>, EntriesSame(t), HoldersSame(t), PendingSame(t),
             JobsSame(t)
      PROVE  SpentOK(t)'
  <2>1. Aside(t) BY <1>1, <1>5, DirsUnchanged, BacklogUnchanged DEF Aside
  <2>2. QED BY <1>0, <2>1, AsideKeeps
<1>6. CASE WriteRescue(j)
  <2>1. /\ UNCHANGED <<temps, strays, state, saved, stored>> /\ HoldPending(u, s)
    BY <1>0, <1>6 DEF WriteRescue, world
  <2>2. Moves(j, "mark") BY <1>0, <1>6, TurnsCommitting
  <2>3. QED BY <1>3, <1>4, <1>5, <2>1, <2>2, EntriesUnchanged, HoldersUnchanged
<1>7. CASE Mark(j)
  <2> DEFINE e == [phase |-> "rotated", token |-> u, rescue |-> jobs[j].rescued,
                   temp |-> ~jobs[j].rescued]
  <2>1. UNCHANGED <<temps, strays, stored, pending>> /\ jobs[j].pc = "mark"
    BY <1>0, <1>7 DEF Mark, world, At
  <2>2. /\ Save(SetEntry(p, e)) \/ SaveFails(SetEntry(p, e))
        /\ t \notin Displaced(p, u)
    BY <1>0, <1>7 DEF Mark
  <2>3. e.token = u /\ e.phase = "rotated" OBVIOUS
  <2> HIDE DEF e
  <2>4. EntriesSame(t)
    <3>1. CASE u # t
      <4> HIDE DEF p, u
      <4>1. QED BY <1>0, <2>2, <2>3, <3>1, OtherEntry DEF IInv
    <3>2. CASE u = t
      <4>1. Spender(j, t) BY <1>0, <2>1, <3>2 DEF ShapeOK, Spender
      <4>2. Names(state.journal[p], t) BY <4>1 DEF SpentOK, SpenderOK
      <4>3. Names(e, t) /\ ~Announced(e, t) BY <2>3, <3>2 DEF Names, Open, Announced
      <4>4. QED BY <1>0, <2>2, <4>2, <4>3, EntriesKept DEF IInv
    <3>3. QED BY <3>1, <3>2
  <2>5. Moves(j, "list") BY <1>0, <1>7, TurnsCommitting
  <2>6. PendingSame(t) BY <2>1 DEF PendingSame
  <2>7. QED BY <1>4, <1>5, <2>1, <2>4, <2>5, <2>6, HoldersUnchanged
<1>8. CASE List(j)
  <2>1. UNCHANGED <<stored, state, saved, pending, temps, strays>> BY <1>8 DEF List, disk, world
  <2>2. Moves(j, "commit") BY <1>0, <1>8, TurnsCommitting
  <2>3. PendingSame(t) BY <2>1 DEF PendingSame
  <2>4. QED BY <1>4, <1>5, <2>1, <2>2, <2>3, EntriesUnchanged, HoldersUnchanged
<1>9. CASE CommitOne(j)
  <2>1. UNCHANGED <<state, saved, pending, temps, strays>> BY <1>9 DEF CommitOne, world
  <2>2. Moves(j, "commit") BY <1>0, <1>9, TurnsCommitting
  <2>3. PendingSame(t) BY <2>1 DEF PendingSame
  <2>4. \/ UNCHANGED stored
        \/ /\ \E q \in Profiles : stored' = [stored EXCEPT ![q] = s]
           /\ t = s => ~Touched(t)
    <3>1. \A o \in jobs[j].todo : Receivers(o, u) \subseteq Profiles
      BY <1>0 DEF Receivers, Holders, Run
    <3>2. QED BY <1>0, <1>9, <3>1 DEF CommitOne
  <2>5. HoldersSame(t)
    <3>1. t = s /\ ~Touched(t) => Quiet(t) BY <1>0, QuietOrTouched
    <3>2. \A q \in Profiles : stored'[q] = t => stored[q] = t \/ Quiet(t)
      BY <1>0, <2>4, <3>1 DEF IInv, LoginsOK
    <3>3. QED BY <3>2, HoldersFewer
  <2>6. QED BY <1>4, <1>5, <2>1, <2>2, <2>3, <2>5, EntriesUnchanged
<1>10. CASE Finish(j)
  <2>1. UNCHANGED <<stored, state, saved, pending, temps, strays>> /\ Holders(u) = {}
    BY <1>0, <1>10 DEF Finish, disk, world
  <2>2. Moves(j, "clear") BY <1>0, <1>10, TurnsCommitting
  <2>3. PendingSame(t) BY <2>1 DEF PendingSame
  <2>4. u = t => Holders(t)' = {} /\ sent[t] > 0
    BY <1>0, <1>2, <2>1 DEF Holders, Trace, LoginsTrace
  <2>5. QED BY <1>4, <1>5, <2>1, <2>2, <2>3, <2>4, EntriesUnchanged, HoldersUnchanged
<1>11. CASE FinishPartly(j)
  <2>1. /\ UNCHANGED <<stored, state, saved>> /\ HoldPending(u, s) /\ Forget(OwnDir(j))
    BY <1>0, <1>11 DEF FinishPartly
  <2>2. Quits(j) /\ jobs[j].pc = "commit"
    BY <1>0, <1>11, TurnsCommitting DEF FinishPartly, At
  <2>3. EntriesSame(t) /\ HoldersSame(t) /\ BacklogSame(t) /\ PendingSame(t)
    BY <1>1, <1>3, <2>1, EntriesUnchanged, HoldersUnchanged, BacklogUnchanged
  <2>4. CASE Spender(j, t)
    <3>1. SentSame(t) BY <1>0, <1>1, <2>1, ForgetSent
    <3>2. \A k \in Jobs \ {j} : ~Spender(k, t) BY <1>0, <2>4, OneSpender
    <3>3. pending'[t] # NoToken BY <1>3, <2>1, <2>4 DEF Spender
    <3>4. Over(j, t) BY <2>2, <2>3, <3>1, <3>2, <3>3 DEF Over, EntriesSame
    <3>5. QED BY <1>0, <3>4, OverKeeps
  <2>5. CASE ~Spender(j, t)
    <3>1. \A q \in Profiles : <<q, t>> \notin OwnDir(j)
      BY <1>0, <2>5 DEF OwnDir, Dir, Spender
    <3>2. SentSame(t) /\ DirsSame(t) BY <1>0, <1>1, <2>1, <3>1, OtherDirs
    <3>3. JobsSame(t) BY <2>2, <2>5, QuitPasses
    <3>4. Aside(t) BY <2>3, <3>2, <3>3 DEF Aside
    <3>5. QED BY <1>0, <3>4, AsideKeeps
  <2>6. QED BY <2>4, <2>5
<1>12. QED BY <1>6, <1>7, <1>8, <1>9, <1>10, <1>11

\* An entry that says "spending" is ended as one that spent nothing only if it did not.
LEMMA NothingSpent ==
  ASSUME TokenRefreshAssumption, IInv, Trace, NEW j \in Jobs, NEW t \in Tokens \ exposed',
         SpentOK(t), SettleUnsent(j), jobs[j].token = t
  PROVE  Quiet(t) \/ t \in state.verdicts \/ Holders(t) = {}
<1> DEFINE e == jobs[j].entry
           p == jobs[j].profile
<1>0. /\ jobs[j] \in Run /\ Job(j) = jobs[j] /\ RunOK(jobs[j], launched) /\ ShapeOK(jobs[j])
      /\ jobs[j].pc = "settle"
  BY DEF IInv, RunsOK, Job, Trace, RunsTrace, SettleUnsent, Settling, At
<1>1. e.token = t /\ e.phase = "spending" /\ ~jobs[j].spends
  BY <1>0 DEF RunOK, ShapeOK, SettleUnsent
<1>2. Resolved(t) BY <1>0, <1>1 DEF SpentOK, ReadOK, Announced
<1>3. pending[t] = NoToken
  <2>1. Recovered(e, p) = NoToken BY <1>0 DEF SettleUnsent, NotFound
  <2>2. NoToken \notin Tokens BY Numbers
  <2> HIDE DEF e, p
  <2>3. QED BY <1>1, <2>1, <2>2 DEF Recovered
<1>4. \A k \in Jobs : ~Spender(k, t)
  <2>1. ~InFlight(t, j) BY <1>0 DEF SettleUnsent, ClearJournal
  <2>2. QED BY <1>1, <2>1 DEF InFlight, Spender, Job
<1>5. QED BY <1>2, <1>3, <1>4 DEF Resolved

LEMMA SpentSettling ==
  ASSUME TokenRefreshAssumption, Sound, Sound', NEW j \in Jobs, NEW t \in Tokens \ exposed',
         SpentOK(t), SettleGone(j) \/ SettleRotated(j) \/ SettleUnsent(j) \/ SettleUnknown(j)
  PROVE  SpentOK(t)'
<1> DEFINE u == jobs[j].token
<1>0. /\ IInv /\ IInv' /\ Trace /\ Trace' /\ Order /\ jobs[j] \in Run /\ Job(j) = jobs[j]
      /\ ShapeOK(jobs[j]) /\ jobs[j].pc = "settle" /\ UNCHANGED <<stored, backlog, sent>>
  BY DEF Sound, IInv, RunsOK, Job, Trace, RunsTrace, At, SettleGone, SettleRotated,
         SettleUnsent, SettleUnknown, Settling, history
<1>1. ASSUME ClearJournal(j, {}), u # t, PendingSame(t) PROVE SpentOK(t)'
  <2>1. Aside(t)
    <3>1. {} \subseteq {Dir(j)} OBVIOUS
    <3>2. QED BY <1>0, <1>1, <3>1, ClearAside
  <2>2. QED BY <1>0, <2>1, AsideKeeps
<1>2. ASSUME ClearJournal(j, {}), u = t, Quiet(t) \/ t \in state.verdicts \/ Holders(t) = {}
      PROVE  SpentOK(t)'
  <2>1. Over(j, t) BY <1>0, <1>2, ClearOver
  <2>2. QED BY <1>0, <2>1, OverKeeps
<1>3. CASE SettleGone(j)
  <2>1. ClearJournal(j, {}) /\ Holders(u) = {} /\ DropPending(u)
    BY <1>0, <1>3 DEF SettleGone
  <2>2. u # t => PendingSame(t)
    BY <1>0, <2>1 DEF DropPending, PendingSame, IInv, LoginsOK
  <2>3. QED BY <1>1, <1>2, <2>1, <2>2
<1>4. CASE SettleUnsent(j)
  <2>1. ClearJournal(j, {}) /\ UNCHANGED pending BY <1>4 DEF SettleUnsent
  <2>2. PendingSame(t) BY <2>1 DEF PendingSame
  <2>3. u = t => Quiet(t) \/ t \in state.verdicts \/ Holders(t) = {}
    BY <1>0, <1>4, NothingSpent
  <2>4. QED BY <1>1, <1>2, <2>1, <2>2, <2>3
<1>5. CASE SettleRotated(j)
  <2>1. UNCHANGED <<state, saved, pending, temps, strays>> BY <1>5 DEF SettleRotated, world
  <2>2. PICK s : Turns(j, "list", jobs[j].spends, jobs[j].exit, jobs[j].entry, s)
    BY <1>0, <1>5, TurnsSettling DEF SettleRotated
  <2>3. JobsSame(t)
    <3>1. CASE u # t BY <2>2, <3>1, OtherPasses DEF Turns
    <3>2. CASE u = t BY <1>0, <2>2, <3>2, TurnPasses
    <3>3. QED BY <3>1, <3>2
  <2>4. Aside(t) BY <1>0, <2>1, <2>3, BacklogUnchanged, AsideSteady
  <2>5. QED BY <1>0, <2>4, AsideKeeps
<1>6. CASE SettleUnknown(j)
  <2>1. Judge(j) /\ UNCHANGED pending /\ jobs[j].exit # "running"
    BY <1>0, <1>6 DEF SettleUnknown, ShapeOK
  <2>2. QED BY <1>0, <2>1, JudgeKeeps
<1>7. QED BY <1>3, <1>4, <1>5, <1>6

-----------------------------------------------------------------------------
(* The surroundings, and a stop of the server.                             *)

\* A job that was idle takes up a run.
LEMMA BeginPasses ==
  ASSUME TokenRefreshAssumption, Sound, NEW j \in Jobs, jobs[j].pc = "idle", NEW run,
         Becomes(j, run), run.spends = FALSE, run.pc \in {"lock", "look", "settle"},
         NEW t \in Tokens, run.pc = "settle" /\ Announced(run.entry, t) => Resolved(t)
  PROVE  JobsSame(t)
<1>1. Others(j) /\ jobs'[j] = run BY DEF Becomes, Others, Sound, IInv, RunsOK
<1>2. ~jobs[j].spends BY DEF Sound, Trace, RunsTrace, ShapeOK
<1>3. Passes(j, t) BY <1>1, <1>2 DEF Passes, Spender
<1>4. QED BY <1>1, <1>3 DEF JobsSame, Others

LEMMA SpentSurroundings ==
  ASSUME TokenRefreshAssumption, Sound, Sound', NEW t \in Tokens, SpentOK(t),
         \/ Bootstrap \/ Toggle \/ UNCHANGED vars
         \/ \E p \in Profiles : Due(p) \/ Recover(p) \/ Login(p) \/ Remove(p)
         \/ \E h \in Handlers, p \in Profiles : Incoming(h, p)
  PROVE  SpentOK(t)'
<1>0. /\ IInv /\ IInv' /\ Trace /\ Trace' /\ Order /\ Ticker \in Jobs /\ Handlers \subseteq Jobs
  BY DEF Sound, Jobs
<1>1. ASSUME UNCHANGED <<stored, state, saved, pending, temps, strays, sent>>, BacklogSame(t),
             JobsSame(t)
      PROVE  SpentOK(t)'
  <2>1. Aside(t) BY <1>1, AsideSteady
  <2>2. QED BY <1>0, <2>1, AsideKeeps
<1>2. UNCHANGED jobs => JobsSame(t) BY DEF JobsSame
<1>3. CASE Toggle \/ UNCHANGED vars
  BY <1>1, <1>2, <1>3, BacklogUnchanged DEF Toggle, vars, disk, memory, world, history
<1>4. CASE Bootstrap
  <2>1. UNCHANGED <<stored, state, saved, pending, temps, strays, sent, jobs>>
        /\ backlog' = state.journal
    BY <1>4 DEF Bootstrap, disk, world, history
  <2>2. BacklogSame(t)
    <3>1. ASSUME NEW p \in Profiles, Announced(backlog'[p], t) PROVE Resolved(t)
      <4>1. Announced(state.journal[p], t) BY <2>1, <3>1
      <4>2. QED BY <1>0, <4>1, AnnouncedResolved DEF SpentOK
    <3>2. QED BY <3>1 DEF BacklogSame
  <2>3. QED BY <1>1, <1>2, <2>1, <2>2
<1>5. ASSUME NEW p \in Profiles, Due(p) PROVE SpentOK(t)'
  <2> DEFINE run == [Idle EXCEPT !.pc = "lock", !.profile = p, !.token = stored[p]]
  <2>1. Becomes(Ticker, run) /\ jobs[Ticker].pc = "idle"
    BY <1>5 DEF Due, At
  <2>2. UNCHANGED <<stored, state, saved, pending, temps, strays, sent, backlog>>
    BY <1>5 DEF Due, disk, world, history
  <2>3. run.pc = "lock" /\ run.spends = FALSE BY DEF Idle
  <2> HIDE DEF run
  <2>4. JobsSame(t) BY <1>0, <2>1, <2>3, BeginPasses
  <2>5. QED BY <1>1, <2>2, <2>4, BacklogUnchanged
<1>6. ASSUME NEW h \in Handlers, NEW p \in Profiles, Incoming(h, p) PROVE SpentOK(t)'
  <2> DEFINE run == [Idle EXCEPT !.pc = "look", !.profile = p, !.token = stored[p]]
  <2>1. Becomes(h, run) /\ jobs[h].pc = "idle"
    BY <1>6 DEF Incoming, At
  <2>2. UNCHANGED <<stored, state, saved, pending, temps, strays, sent, backlog>>
    BY <1>6 DEF Incoming, disk, world, history
  <2>3. run.pc = "look" /\ run.spends = FALSE BY DEF Idle
  <2> HIDE DEF run
  <2>4. JobsSame(t) BY <1>0, <2>1, <2>3, BeginPasses
  <2>5. QED BY <1>1, <2>2, <2>4, BacklogUnchanged
<1>7. ASSUME NEW p \in Profiles, Recover(p) PROVE SpentOK(t)'
  <2> DEFINE e == backlog[p]
             run == [Idle EXCEPT !.pc = "settle", !.profile = p, !.token = e.token, !.entry = e]
  <2>1. Becomes(Ticker, run) /\ jobs[Ticker].pc = "idle" BY <1>7, Zenon DEF Recover, At
  <2>2. UNCHANGED <<stored, state, saved, pending, temps, strays, sent>>
        /\ backlog' = [backlog EXCEPT ![p] = NoEntry]
    BY <1>7 DEF Recover, disk, world, history
  <2>3. run.pc = "settle" /\ run.spends = FALSE /\ run.entry = e BY DEF Idle
  <2>4. Announced(e, t) => Resolved(t) BY DEF SpentOK, ReadOK
  <2>5. BacklogSame(t)
    <3>1. ~Announced(NoEntry, t) BY DEF NoEntry, Announced
    <3>2. ASSUME NEW q \in Profiles PROVE backlog'[q] = backlog[q] \/ backlog'[q] = NoEntry
      BY <1>0, <2>2 DEF IInv, BacklogOK
    <3>3. QED BY <3>1, <3>2 DEF BacklogSame
  <2> HIDE DEF run, e
  <2>6. JobsSame(t) BY <1>0, <2>1, <2>3, <2>4, BeginPasses
  <2>7. QED BY <1>1, <2>2, <2>5, <2>6
<1>8. ASSUME NEW p \in Profiles, Login(p) \/ Remove(p) PROVE SpentOK(t)'
  <2>1. UNCHANGED <<state, saved, pending, temps, strays, sent, jobs, backlog>>
    BY <1>8 DEF Login, Remove, memory, world, history
  <2>2. \A q \in Profiles : stored'[q] \in {stored[q], NoToken, issued + 1}
    BY <1>0, <1>8 DEF Login, Remove, IInv, LoginsOK
  <2>3. t = issued + 1 => Quiet(t)
    <3>1. SUFFICES ASSUME t = issued + 1 PROVE Quiet(t) OBVIOUS
    <3>2. issued \in Int /\ ~(t <= issued) BY <1>0, <3>1 DEF IInv, LoginsOK
    <3>3. t \notin launched BY <1>0, <3>2 DEF Order, LoginsAge
    <3>4. \A q \in Profiles : strays[<<q, t>>] = "none" BY <1>0, <3>3 DEF IInv, DirsOK
    <3>5. successor[t] = NoToken
      <4>1. successor[t] \in Tokens \cup {NoToken} BY <1>0 DEF IInv, LoginsOK
      <4>2. successor[t] # NoToken => t < successor[t] /\ successor[t] <= issued
        BY <1>0 DEF Order, LoginsAge
      <4>3. t \in Int /\ (successor[t] # NoToken => successor[t] \in Int) BY <4>1, Numbers
      <4>4. QED BY <3>2, <4>2, <4>3
    <3>6. sent[t] = 0 BY <1>0, <3>5 DEF Trace, LoginsTrace
    <3>7. QED BY <3>4, <3>6 DEF Quiet
  <2>4. HoldersSame(t)
    <3>1. t # NoToken BY Numbers
    <3>2. \A q \in Profiles : stored'[q] = t => stored[q] = t \/ Quiet(t) BY <2>2, <2>3, <3>1
    <3>3. QED BY <3>2, HoldersFewer
  <2>5. Aside(t)
    BY <1>2, <2>1, <2>4, EntriesUnchanged, DirsUnchanged, BacklogUnchanged
       DEF Aside, PendingSame
  <2>6. QED BY <1>0, <2>5, AsideKeeps
<1>9. QED BY <1>3, <1>4, <1>5, <1>6, <1>7, <1>8

\* What a stop leaves: the journal on disk, and containers that go on.
LEMMA SpentStop ==
  ASSUME TokenRefreshAssumption, Sound, Sound', NEW t \in Tokens \ exposed', SpentOK(t), Stop
  PROVE  SpentOK(t)'
<1>0. /\ IInv /\ Trace /\ Trace' /\ Order /\ OnceOK(t) /\ RecordOK(t)
      /\ \A k \in Jobs : SpenderOK(k, t)
  BY DEF Sound, SpentOK
<1>1. /\ state' = saved /\ saved' = saved /\ stored' = stored /\ sent' = sent
      /\ jobs' = [k \in Jobs |-> Idle] /\ backlog' = [p \in Profiles |-> NoEntry]
  BY DEF Stop, disk
<1>2. \A k \in Jobs : jobs'[k].token # t /\ jobs'[k].pc = "idle" /\ jobs'[k].exit = "none"
                       /\ ~jobs'[k].spends
  BY <1>1, Numbers DEF Idle
<1>3. ASSUME NEW p \in Profiles, strays'[<<p, t>>] # "none", strays[<<p, t>>] = "none"
      PROVE  /\ Quiet(t)
             /\ \E k \in Jobs : Spender(k, t) /\ jobs[k].profile = p /\ jobs[k].exit = "running"
  <2>1. PICK k \in Jobs : Job(k).exit = "running" /\ Dir(k) = <<p, t>>
    BY <1>0, <1>3 DEF Stop, IInv, DirsOK
  <2>2. jobs[k].exit = "running" /\ jobs[k].profile = p /\ jobs[k].token = t
    BY <2>1 DEF Job, Dir
  <2>3. Spender(k, t) BY <1>0, <2>2 DEF Spender, Trace, RunsTrace, ShapeOK
  <2>4. QED BY <1>0, <2>2, <2>3 DEF SpenderOK
<1>4. \A p \in Profiles : strays'[<<p, t>>] = "none" => strays[<<p, t>>] = "none"
  BY <1>0 DEF Stop, IInv, DirsOK
<1>5. OnceOK(t)'
  <2>1. sent[t] > 0 => \A p \in Profiles : strays'[<<p, t>>] = "none"
    BY <1>0, <1>3 DEF OnceOK, Quiet
  <2>2. ASSUME NEW p \in Profiles, NEW q \in Profiles, strays'[<<p, t>>] # "none",
               strays'[<<q, t>>] # "none"
        PROVE  p = q
    <3>1. CASE Quiet(t)
      <4>1. PICK k \in Jobs : Spender(k, t) /\ jobs[k].profile = p
        BY <1>3, <2>2, <3>1 DEF Quiet
      <4>2. PICK l \in Jobs : Spender(l, t) /\ jobs[l].profile = q
        BY <1>3, <2>2, <3>1 DEF Quiet
      <4>3. QED BY <1>0, <4>1, <4>2, OneSpender
    <3>2. CASE ~Quiet(t)
      <4>1. strays[<<p, t>>] # "none" /\ strays[<<q, t>>] # "none" BY <1>3, <2>2, <3>2
      <4>2. QED BY <1>0, <4>1 DEF OnceOK
    <3>3. QED BY <3>1, <3>2
  <2>3. QED BY <1>0, <1>1, <2>1, <2>2 DEF OnceOK
<1>6. Touched(t)' => Touched(t)
  <2>1. ASSUME Touched(t)' PROVE Touched(t)
    <3>1. \/ sent[t] > 0 \/ \E p \in Profiles : strays'[<<p, t>>] # "none"
      BY <1>1, <1>2, <2>1 DEF Touched, Job
    <3>2. CASE sent[t] > 0 BY <3>2 DEF Touched
    <3>3. ASSUME NEW p \in Profiles, strays'[<<p, t>>] # "none" PROVE Touched(t)
      <4>1. CASE strays[<<p, t>>] # "none" BY <4>1 DEF Touched
      <4>2. CASE strays[<<p, t>>] = "none" BY <1>3, <3>3, <4>2 DEF Touched, Spender, Job
      <4>3. QED BY <4>1, <4>2
    <3>4. QED BY <3>1, <3>2, <3>3
  <2>2. QED BY <2>1
<1>7. Holders(t)' = Holders(t) BY <1>1 DEF Holders
<1>8. RecordOK(t)'
  <2>1. Listed(state, t)' = Listed(saved, t) /\ Listed(saved, t)' = Listed(saved, t)
        /\ OneSlot(state, t)' = OneSlot(saved, t) /\ OneSlot(saved, t)' = OneSlot(saved, t)
    BY <1>1 DEF Listed, OneSlot, Names, Open
  <2>2. ASSUME ~Quiet(t)' PROVE Holders(t) = {} \/ Listed(saved, t)
    <3>1. CASE ~Quiet(t) BY <1>0, <3>1 DEF RecordOK
    <3>2. CASE Quiet(t)
      <4>1. PICK p \in Profiles : strays'[<<p, t>>] # "none" BY <1>1, <2>2, <3>2 DEF Quiet
      <4>2. PICK k \in Jobs : Spender(k, t) BY <1>3, <3>2, <4>1 DEF Quiet
      <4>3. Names(saved.journal[jobs[k].profile], t) /\ jobs[k].profile \in Profiles
        BY <1>0, <4>2 DEF SpenderOK, IInv, RunsOK, Run
      <4>4. QED BY <4>3 DEF Listed
    <3>3. QED BY <3>1, <3>2
  <2>3. QED BY <1>0, <1>7, <2>1, <2>2 DEF RecordOK
<1>9. NotedOK(t)'
  <2>1. t \notin Unrecorded BY DEF Stop
  <2>2. \A p \in Profiles : ~(Announced(state'.journal[p], t) /\ Touched(t)')
    BY <1>1, <1>6, <2>1 DEF Unrecorded, Announced
  <2>3. QED BY <2>2 DEF NotedOK
<1>10. ReadOK(t)'
  <2>1. \A p \in Profiles : ~Announced(backlog'[p], t) BY <1>1 DEF Announced, NoEntry
  <2>2. QED BY <1>2, <2>1 DEF ReadOK
<1>11. \A k \in Jobs : ClearOK(k, t)' /\ SpenderOK(k, t)' BY <1>2 DEF ClearOK, SpenderOK, Spender
<1>12. QED BY <1>5, <1>8, <1>9, <1>10, <1>11 DEF SpentOK

LEMMA SpendInit == TokenRefreshAssumption /\ Init => Spend
<1> SUFFICES ASSUME TokenRefreshAssumption, Init, NEW t \in Tokens PROVE SpentOK(t)
  BY DEF Spend
<1>1. Quiet(t) /\ OnceOK(t) BY DEF Init, Quiet, OnceOK
<1>2. ~Open(NoEntry) /\ \A p \in Profiles : state.journal[p] = NoEntry /\ backlog[p] = NoEntry
  BY DEF Init, NoEntry, Open
<1>3. RecordOK(t) /\ NotedOK(t)
  BY <1>1, <1>2 DEF Init, RecordOK, NotedOK, OneSlot, Names, Announced, NoEntry
<1>4. \A k \in Jobs : jobs[k].pc = "idle" /\ ~jobs[k].spends BY DEF Init, Idle
<1>5. ReadOK(t) BY <1>1 DEF ReadOK, Resolved
<1>6. QED BY <1>1, <1>3, <1>4, <1>5 DEF SpentOK, ClearOK, SpenderOK, Spender

\* What met a gap has met it.
LEMMA ExposedGrows == [Next]_vars => exposed \subseteq exposed'
<1>1. CASE UNCHANGED vars BY <1>1 DEF vars, history
<1>2. ASSUME NEW j \in Jobs, Step(j) PROVE exposed \subseteq exposed'
  <2>1. CASE Acquire(j) \/ SettleLeftover(j) \/ Abandon(j) \/ Journal(j)
    BY <2>1 DEF Acquire, SettleLeftover, Abandon, Journal, history
  <2>2. CASE \/ Launch(j) \/ NoteStarted(j) \/ CliEnds(j) \/ TimesOut(j) \/ FindRotated(j)
             \/ FindUnsent(j) \/ FindSpent(j)
    BY <2>2 DEF Launch, NoteStarted, CliEnds, TimesOut, FindRotated, FindUnsent, FindSpent,
                ClearJournal, history
  <2>3. CASE \/ WriteRescue(j) \/ Mark(j) \/ List(j) \/ CommitOne(j) \/ FinishPartly(j)
             \/ Finish(j) \/ Clear(j)
    BY <2>3 DEF WriteRescue, Mark, List, CommitOne, FinishPartly, Finish, Clear, ClearJournal,
                history
  <2>4. CASE SettleGone(j) \/ SettleRotated(j) \/ SettleUnsent(j) \/ SettleUnknown(j)
    BY <2>4 DEF SettleGone, SettleRotated, SettleUnsent, SettleUnknown, ClearJournal, history
  <2>5. QED BY <1>2, <2>1, <2>2, <2>3, <2>4 DEF Step
<1>3. CASE \E p \in Profiles : Due(p) \/ Recover(p) \/ Login(p) \/ Remove(p)
  BY <1>3 DEF Due, Recover, Login, Remove, history
<1>4. CASE \E h \in Handlers, p \in Profiles : Incoming(h, p) BY <1>4 DEF Incoming, history
<1>5. CASE \E d \in Profiles \X Tokens : StrayEnds(d) BY <1>5 DEF StrayEnds
<1>6. CASE Bootstrap \/ Toggle \/ Stop BY <1>6 DEF Bootstrap, Toggle, Stop, history
<1>7. QED BY <1>1, <1>2, <1>3, <1>4, <1>5, <1>6 DEF Next

LEMMA SpendNext ==
  TokenRefreshAssumption /\ Sound /\ Sound' /\ Spend /\ [Next]_vars => Spend'
<1> SUFFICES ASSUME TokenRefreshAssumption, Sound, Sound', Spend, [Next]_vars,
                    NEW t \in Tokens \ exposed'
             PROVE  SpentOK(t)'
  BY DEF Spend
<1>0. SpentOK(t) BY ExposedGrows DEF Spend
<1>1. ASSUME NEW j \in Jobs, Step(j) PROVE SpentOK(t)'
  <2>1. CASE Acquire(j) \/ SettleLeftover(j) \/ Abandon(j) BY <1>0, <2>1, SpentPreparing
  <2>2. CASE Journal(j) BY <1>0, <2>2, SpentJournal
  <2>3. CASE Launch(j) BY <1>0, <2>3, SpentLaunch
  <2>4. CASE NoteStarted(j) BY <1>0, <2>4, SpentNoteStarted
  <2>5. CASE CliEnds(j) BY <1>0, <2>5, SpentCliEnds
  <2>6. CASE TimesOut(j) BY <1>0, <2>6, SpentTimesOut
  <2>7. CASE FindRotated(j) \/ FindUnsent(j) \/ FindSpent(j) \/ Clear(j)
    BY <1>0, <2>7, SpentClassifying
  <2>8. CASE \/ WriteRescue(j) \/ Mark(j) \/ List(j) \/ CommitOne(j) \/ FinishPartly(j)
             \/ Finish(j)
    BY <1>0, <2>8, SpentCommitting
  <2>9. CASE SettleGone(j) \/ SettleRotated(j) \/ SettleUnsent(j) \/ SettleUnknown(j)
    BY <1>0, <2>9, SpentSettling
  <2>10. QED BY <1>1, <2>1, <2>2, <2>3, <2>4, <2>5, <2>6, <2>7, <2>8, <2>9 DEF Step
<1>2. CASE \E d \in Profiles \X Tokens : StrayEnds(d) BY <1>0, <1>2, SpentStrayEnds
<1>3. CASE Stop BY <1>0, <1>3, SpentStop
<1>4. CASE \/ Bootstrap \/ Toggle \/ UNCHANGED vars
           \/ \E p \in Profiles : Due(p) \/ Recover(p) \/ Login(p) \/ Remove(p)
           \/ \E h \in Handlers, p \in Profiles : Incoming(h, p)
  BY <1>0, <1>4, SpentSurroundings
<1>5. QED BY <1>1, <1>2, <1>3, <1>4 DEF Next

\* A refresh token is sent to the provider a second time only after one of the gaps the
\* code leaves open, each marked where its step adds to exposed (refreshProfile,
\* spend, settle and recoverEntry in target_refresher.go): whatever the interleaving of
\* switches and passes, the writes that fail, and the stops of the server.
THEOREM SpentOnce == Spec => []RespentOnlyThroughGaps
<1>1. Init => Sound /\ Spend
  BY InvInit, OrderInit, TraceInit, SpendInit, TokenRefreshAssumption DEF Sound
<1>2. Sound /\ Spend /\ [Next]_vars => (Sound /\ Spend)'
  <2>1. Sound /\ [Next]_vars => Sound'
    BY InvNext, OrderNext, TraceNext, TokenRefreshAssumption DEF Sound
  <2>2. QED BY <2>1, SpendNext, TokenRefreshAssumption
<1>3. Sound /\ Spend => RespentOnlyThroughGaps
  <2> SUFFICES ASSUME Sound, Spend, NEW t \in Tokens, sent[t] > 1 PROVE t \in exposed
    BY DEF RespentOnlyThroughGaps
  <2>1. sent[t] \in Nat BY DEF Sound, Trace, LoginsTrace
  <2>2. ~OnceOK(t) BY <2>1 DEF OnceOK
  <2>3. QED BY <2>2 DEF Spend, SpentOK
<1>4. QED BY <1>1, <1>2, <1>3, PTL DEF Spec

-----------------------------------------------------------------------------
(* A rotated login is kept.  Of a token that met no gap, and whose rotated *)
(* login reached the server, the invariant says that the entry of the      *)
(* journal, in memory and on disk, leads to the login: by the directory it *)
(* names, or by the rescue file.                                           *)

\* Rescue files are dropped by number, and if the process stops then, too much is lost:
\* either it does not stop, or there is room for one more file.
RoomForRescues == MaxStops = 0 \/ \A p \in Profiles : Len(rescues[p]) < MaxRescues

\* Nothing is left to keep for the token.
Settled(t) == t \in saved.verdicts \/ (Holders(t) = {} /\ ~Quiet(t))

\* Where the rotated login of t is: in the directory, or out of it.
InDir(p, t) == temps[<<p, t>>] = successor[t]
Filed(p, t) ==
  IF MaxStops = 0 THEN pending[t] = successor[t]
  ELSE \E i \in DOMAIN rescues[p] : rescues[p][i] = [token |-> successor[t], own |-> TRUE]

\* Before it says "rotated" an entry names a directory and no file.
Early(e) == e.temp /\ ~e.rescue
EarlyOK(e) == e.phase \in {"spending", "started"} => Early(e)
EntriesShaped ==
  /\ \A p \in Profiles : /\ EarlyOK(state.journal[p]) /\ EarlyOK(saved.journal[p])
                         /\ EarlyOK(backlog[p])
  /\ \A k \in Jobs : EarlyOK(jobs[k].entry)

\* What the steps below read besides.
FilesTyped ==
  /\ rescues \in [Profiles -> Seq(Rescue)]
  /\ stops \in Nat /\ delivered \subseteq Tokens
  /\ saved.verdicts \subseteq state.verdicts
OneParent == \A t, u \in Tokens : successor[t] # NoToken /\ successor[t] = successor[u] => t = u
DeliveredSent == \A t \in delivered : sent[t] > 0
\* A run notes what it did with the rescue file only when it has one to write.
RunsShaped == \A k \in Jobs :
  jobs[k].keep \/ jobs[k].rescued => jobs[k].pc \in {"mark", "list", "commit", "clear"}
Shaped == EntriesShaped /\ FilesTyped /\ OneParent /\ DeliveredSent /\ RunsShaped

\* The entry leads to the login, as the server sees it and as it is on disk.
LeadsTo(p, t) ==
  /\ Names(state.journal[p], t) /\ Names(saved.journal[p], t)
  /\ (state.journal[p].temp /\ InDir(p, t)) \/ (state.journal[p].rescue /\ Filed(p, t))
  /\ (saved.journal[p].temp /\ InDir(p, t)) \/ (saved.journal[p].rescue /\ Filed(p, t))
LandOK(t) == t \in delivered => Settled(t) \/ \E p \in Profiles : LeadsTo(p, t)

\* A container that may still bring the login works in a directory the journal names.
EarlyAt(p, t) == /\ Names(state.journal[p], t) /\ Names(saved.journal[p], t)
                 /\ Early(state.journal[p]) /\ Early(saved.journal[p])
HomeOK(t) == \A p \in Profiles : strays[<<p, t>>] = "home" => Settled(t) \/ EarlyAt(p, t)

\* A "spending" entry that was read before is of a run that shows, or brought nothing.
Dead(t) == t \in state.verdicts /\ t \notin delivered /\ \A p \in Profiles : strays[<<p, t>>] # "home"
Explained(t) ==
  \/ Quiet(t) \/ Settled(t) \/ Dead(t) \/ pending[t] # NoToken
  \/ \E k \in Jobs : Spender(k, t)
HandOK(k, t) == jobs[k].pc = "settle" /\ Announced(jobs[k].entry, t) => Explained(t)
HandsOK(t) ==
  /\ \A p \in Profiles : Announced(backlog[p], t) => Explained(t)
  /\ \A k \in Jobs : HandOK(k, t)

\* A run that may clear its entry, and one that spends.
EndsOK(k, t) ==
  jobs[k].token = t /\ jobs[k].pc = "clear"
    => t \in saved.verdicts \/ (Holders(t) = {} /\ sent[t] > 0)
CarriesOK(k, t) ==
  Spender(k, t) =>
    LET p == jobs[k].profile IN
    /\ jobs[k].pc \in {"launch", "note", "wait", "rescue", "mark"} =>
         Early(state.journal[p]) /\ Early(saved.journal[p])
    /\ jobs[k].pc = "mark" => IF jobs[k].rescued THEN Filed(p, t) \/ Settled(t) ELSE jobs[k].keep
    /\ jobs[k].pc \in {"list", "commit"} /\ ~jobs[k].keep =>
         Settled(t) \/ (state.journal[p].rescue /\ saved.journal[p].rescue /\ Filed(p, t))

KeepOK(t) ==
  /\ LandOK(t) /\ HomeOK(t) /\ HandsOK(t)
  /\ \A k \in Jobs : EndsOK(k, t) /\ CarriesOK(k, t)
Keep == Shaped /\ \A t \in Tokens \ exposed : KeepOK(t)


-----------------------------------------------------------------------------
(* Steps that leave the rotated login of a token alone.                    *)

\* An entry for t keeps what leads to the login.
SlotsSame(t) ==
  /\ saved' \in {saved, state'}
  /\ t \in state.verdicts => t \in state'.verdicts
  /\ \A p \in Profiles : Names(state.journal[p], t) =>
       /\ Names(state'.journal[p], t)
       /\ state'.journal[p].temp <=> state.journal[p].temp
       /\ state'.journal[p].rescue <=> state.journal[p].rescue
FilesSame(t) == \A p \in Profiles : Filed(p, t) => Filed(p, t)' \/ Settled(t)'
PlacesSame(t) ==
  /\ successor'[t] = successor[t] /\ (t \in delivered' => t \in delivered)
  /\ \A p \in Profiles : /\ temps'[<<p, t>>] = temps[<<p, t>>]
                         /\ strays'[<<p, t>>] = "home" => strays[<<p, t>>] = "home"
HandsSame(t) ==
  \A p \in Profiles : backlog'[p] = backlog[p] \/ (Announced(backlog'[p], t) => Explained(t))

Undisturbed(t) ==
  /\ SentSame(t) /\ HoldersSame(t) /\ SlotsSame(t) /\ PendingSame(t)
  /\ FilesSame(t) /\ PlacesSame(t) /\ HandsSame(t)

LEMMA SettledSame ==
  ASSUME Shaped, NEW t \in Tokens, SentSame(t), HoldersSame(t), saved' \in {saved, state'},
         t \in state.verdicts => t \in state'.verdicts, Settled(t)
  PROVE  Settled(t)'
<1>1. t \in saved.verdicts => t \in saved'.verdicts BY DEF Shaped, FilesTyped
<1>2. CASE t \in saved.verdicts BY <1>1, <1>2 DEF Settled
<1>3. CASE Holders(t) = {} /\ ~Quiet(t) BY <1>3, QuietSame DEF HoldersSame, Settled
<1>4. QED BY <1>2, <1>3 DEF Settled

LEMMA UndisturbedSettled ==
  ASSUME Shaped, NEW t \in Tokens, Undisturbed(t), Settled(t) PROVE Settled(t)'
BY SettledSame DEF Undisturbed, SlotsSame

LEMMA UndisturbedLand ==
  ASSUME Shaped, NEW t \in Tokens, Undisturbed(t), LandOK(t) PROVE LandOK(t)'
<1> SUFFICES ASSUME t \in delivered', ~Settled(t)'
             PROVE  \E p \in Profiles : LeadsTo(p, t)'
  BY DEF LandOK
<1>1. ~Settled(t) /\ t \in delivered BY UndisturbedSettled DEF Undisturbed, PlacesSame
<1>2. PICK p \in Profiles : LeadsTo(p, t) BY <1>1 DEF LandOK
<1>3. InDir(p, t) => InDir(p, t)' BY DEF Undisturbed, PlacesSame, InDir
<1>4. Filed(p, t) => Filed(p, t)' BY DEF Undisturbed, FilesSame
<1>5. /\ Names(state'.journal[p], t)
      /\ state'.journal[p].temp <=> state.journal[p].temp
      /\ state'.journal[p].rescue <=> state.journal[p].rescue
      /\ saved' \in {saved, state'}
  BY <1>2 DEF LeadsTo, Undisturbed, SlotsSame
<1>6. \/ state'.journal[p].temp /\ InDir(p, t)'
      \/ state'.journal[p].rescue /\ Filed(p, t)'
  BY <1>2, <1>3, <1>4, <1>5, Zenon DEF LeadsTo
<1>7. CASE saved' = saved
  <2>1. Names(saved'.journal[p], t) BY <1>2, <1>7 DEF LeadsTo
  <2>2. \/ saved'.journal[p].temp /\ InDir(p, t)'
        \/ saved'.journal[p].rescue /\ Filed(p, t)'
    BY <1>2, <1>3, <1>4, <1>7, Zenon DEF LeadsTo
  <2>3. LeadsTo(p, t)' BY <1>5, <1>6, <2>1, <2>2, Zenon DEF LeadsTo
  <2>4. QED BY <2>3
<1>8. CASE saved' = state'
  <2>1. LeadsTo(p, t)' BY <1>5, <1>6, <1>8, Zenon DEF LeadsTo
  <2>2. QED BY <2>1
<1>9. QED BY <1>5, <1>7, <1>8

LEMMA UndisturbedEarly ==
  ASSUME NEW t \in Tokens, Undisturbed(t), NEW p \in Profiles, EarlyAt(p, t) PROVE EarlyAt(p, t)'
<1>1. /\ Names(state'.journal[p], t)
      /\ state'.journal[p].temp <=> state.journal[p].temp
      /\ state'.journal[p].rescue <=> state.journal[p].rescue
      /\ saved' \in {saved, state'}
  BY DEF EarlyAt, Undisturbed, SlotsSame
<1>2. Early(state'.journal[p]) BY <1>1, Zenon DEF EarlyAt, Early
<1>3. CASE saved' = saved BY <1>1, <1>2, <1>3 DEF EarlyAt
<1>4. CASE saved' = state' BY <1>1, <1>2, <1>4 DEF EarlyAt
<1>5. QED BY <1>1, <1>3, <1>4

LEMMA UndisturbedHome ==
  ASSUME Shaped, NEW t \in Tokens, Undisturbed(t), HomeOK(t) PROVE HomeOK(t)'
<1> SUFFICES ASSUME NEW p \in Profiles, strays'[<<p, t>>] = "home"
             PROVE  Settled(t)' \/ EarlyAt(p, t)'
  BY DEF HomeOK
<1>1. strays[<<p, t>>] = "home" BY DEF Undisturbed, PlacesSame
<1>2. QED BY <1>1, UndisturbedSettled, UndisturbedEarly DEF HomeOK

LEMMA UndisturbedExplained ==
  ASSUME Shaped, NEW t \in Tokens, Undisturbed(t), Explained(t),
         \A k \in Jobs : Spender(k, t) => Spender(k, t)'
  PROVE  Explained(t)'
<1>1. CASE Quiet(t) BY <1>1, QuietSame DEF Undisturbed, Explained
<1>2. CASE Settled(t) BY <1>2, UndisturbedSettled DEF Explained
<1>3. CASE Dead(t)
  <2>1. Dead(t)' BY <1>3 DEF Dead, Undisturbed, SlotsSame, PlacesSame
  <2>2. QED BY <2>1 DEF Explained
<1>4. CASE pending[t] # NoToken BY <1>4 DEF Undisturbed, PendingSame, Explained
<1>5. CASE \E k \in Jobs : Spender(k, t) BY <1>5 DEF Explained
<1>6. QED BY <1>1, <1>2, <1>3, <1>4, <1>5 DEF Explained

\* What is said of a run that does not change.
LEMMA EndsSame ==
  ASSUME Shaped, Trace, NEW t \in Tokens, SentSame(t), HoldersSame(t), saved' \in {saved, state'},
         t \in state.verdicts => t \in state'.verdicts,
         NEW k \in Jobs, jobs'[k] = jobs[k], EndsOK(k, t)
  PROVE  EndsOK(k, t)'
<1>1. t \in saved.verdicts => t \in saved'.verdicts BY DEF Shaped, FilesTyped
<1>2. sent[t] > 0 => ~Quiet(t) BY DEF Trace, LoginsTrace, Quiet
<1>3. sent'[t] = sent[t] BY DEF SentSame
<1>4. QED BY <1>1, <1>2, <1>3 DEF EndsOK, HoldersSame

LEMMA CarriesSame ==
  ASSUME Shaped, IInv, NEW t \in Tokens, Undisturbed(t), NEW k \in Jobs, SpenderOK(k, t),
         CarriesOK(k, t), Spender(k, t),
         jobs'[k].profile = jobs[k].profile,
         jobs'[k].pc \in {"launch", "note", "wait", "rescue", "mark"}
           => jobs[k].pc \in {"launch", "note", "wait", "rescue", "mark"},
         jobs'[k].pc = "mark" => /\ jobs[k].pc = "mark" /\ (jobs'[k].rescued <=> jobs[k].rescued)
                                 /\ jobs'[k].keep <=> jobs[k].keep,
         jobs'[k].pc \in {"list", "commit"} => /\ jobs[k].pc \in {"list", "commit"}
                                               /\ jobs'[k].keep <=> jobs[k].keep
  PROVE  CarriesOK(k, t)'
<1> SUFFICES ASSUME Spender(k, t)' PROVE CarriesOK(k, t)' BY DEF CarriesOK
<1>0. PICK p \in Profiles : p = jobs[k].profile BY DEF IInv, RunsOK, Run
<1>1. Names(state.journal[p], t) /\ Names(saved.journal[p], t) BY <1>0 DEF SpenderOK
<1>2. /\ Names(state'.journal[p], t)
      /\ state'.journal[p].temp <=> state.journal[p].temp
      /\ state'.journal[p].rescue <=> state.journal[p].rescue
      /\ saved' \in {saved, state'}
  BY <1>1 DEF Undisturbed, SlotsSame
<1>3. ASSUME Early(state.journal[p]) /\ Early(saved.journal[p])
      PROVE  Early(state'.journal[p]) /\ Early(saved'.journal[p])
  <2>1. EarlyAt(p, t) BY <1>1, <1>3 DEF EarlyAt
  <2>2. EarlyAt(p, t)' BY <2>1, UndisturbedEarly
  <2>3. QED BY <2>2 DEF EarlyAt
<1>4. ASSUME state.journal[p].rescue /\ saved.journal[p].rescue
      PROVE  state'.journal[p].rescue /\ saved'.journal[p].rescue
  <2>1. CASE saved' = saved BY <1>2, <1>4, <2>1, Zenon
  <2>2. CASE saved' = state' BY <1>2, <1>4, <2>2, Zenon
  <2>3. QED BY <1>2, <2>1, <2>2
<1>5. Filed(p, t) => Filed(p, t)' \/ Settled(t)' BY DEF Undisturbed, FilesSame
<1>6. Settled(t) => Settled(t)' BY UndisturbedSettled
<1>7. jobs'[k].profile = p BY <1>0
<1>8. jobs'[k].pc \in {"launch", "note", "wait", "rescue", "mark"}
        => Early(state'.journal[p]) /\ Early(saved'.journal[p])
  BY <1>0, <1>3 DEF CarriesOK
<1>9. jobs'[k].pc = "mark" => IF jobs'[k].rescued THEN Filed(p, t)' \/ Settled(t)' ELSE jobs'[k].keep
  <2>1. SUFFICES ASSUME jobs'[k].pc = "mark"
                 PROVE  IF jobs'[k].rescued THEN Filed(p, t)' \/ Settled(t)' ELSE jobs'[k].keep
    OBVIOUS
  <2>2. IF jobs[k].rescued THEN Filed(p, t) \/ Settled(t) ELSE jobs[k].keep
    BY <1>0, <2>1 DEF CarriesOK
  <2>3. (jobs'[k].rescued <=> jobs[k].rescued) /\ (jobs'[k].keep <=> jobs[k].keep) BY <2>1
  <2>4. QED BY <1>5, <1>6, <2>2, <2>3, Zenon
<1>10. jobs'[k].pc \in {"list", "commit"} /\ ~jobs'[k].keep =>
         Settled(t)' \/ (state'.journal[p].rescue /\ saved'.journal[p].rescue /\ Filed(p, t)')
  <2>1. SUFFICES ASSUME jobs'[k].pc \in {"list", "commit"}, ~jobs'[k].keep
                 PROVE  \/ Settled(t)'
                        \/ state'.journal[p].rescue /\ saved'.journal[p].rescue /\ Filed(p, t)'
    OBVIOUS
  <2>2. jobs[k].pc \in {"list", "commit"} /\ ~jobs[k].keep BY <2>1
  <2>3. Settled(t) \/ (state.journal[p].rescue /\ saved.journal[p].rescue /\ Filed(p, t))
    BY <1>0, <2>2 DEF CarriesOK
  <2>4. QED BY <1>4, <1>5, <1>6, <2>3, Zenon
<1>11. QED BY <1>7, <1>8, <1>9, <1>10, Zenon DEF CarriesOK

\* One run changes; what holds of it is shown where it does.
LEMMA UndisturbedKeeps ==
  ASSUME Shaped, Sound, Sound', NEW t \in Tokens, SpentOK(t), KeepOK(t), Undisturbed(t),
         NEW j \in Jobs, Others(j), Spender(j, t) => Spender(j, t)',
         jobs'[j].pc = "settle" /\ Announced(jobs'[j].entry, t) => Explained(t),
         EndsOK(j, t)', CarriesOK(j, t)'
  PROVE  KeepOK(t)'
<1>0. /\ IInv /\ Trace /\ LandOK(t) /\ HomeOK(t) /\ HandsOK(t)
      /\ \A k \in Jobs : EndsOK(k, t) /\ CarriesOK(k, t) /\ SpenderOK(k, t)
      /\ SentSame(t) /\ HoldersSame(t) /\ SlotsSame(t)
  BY DEF Sound, KeepOK, SpentOK, Undisturbed
<1>1. LandOK(t)' /\ HomeOK(t)' BY <1>0, UndisturbedLand, UndisturbedHome
<1>2. \A k \in Jobs : k = j \/ jobs'[k] = jobs[k] BY DEF Others
<1>3. \A k \in Jobs : Spender(k, t) => Spender(k, t)' BY <1>2 DEF Spender
<1>4. Explained(t) => Explained(t)' BY <1>3, UndisturbedExplained
<1>5. HandsOK(t)'
  <2>1. ASSUME NEW p \in Profiles, Announced(backlog'[p], t) PROVE Explained(t)
    BY <1>0, <2>1 DEF HandsOK, Undisturbed, HandsSame
  <2>2. ASSUME NEW k \in Jobs, jobs'[k].pc = "settle", Announced(jobs'[k].entry, t)
        PROVE  Explained(t)
    <3>1. CASE k = j BY <2>2, <3>1
    <3>2. CASE jobs'[k] = jobs[k] BY <1>0, <2>2, <3>2 DEF HandsOK, HandOK
    <3>3. QED BY <1>2, <3>1, <3>2
  <2>3. QED BY <1>4, <2>1, <2>2 DEF HandsOK, HandOK
<1>6. ASSUME NEW k \in Jobs PROVE EndsOK(k, t)' /\ CarriesOK(k, t)'
  <2>1. CASE k = j BY <2>1
  <2>2. CASE jobs'[k] = jobs[k]
    <3>1. EndsOK(k, t)' BY <1>0, <2>2, EndsSame DEF SlotsSame
    <3>2. Spender(k, t) => CarriesOK(k, t)' BY <1>0, <2>2, CarriesSame
    <3>3. ~Spender(k, t) => CarriesOK(k, t)' BY <2>2 DEF CarriesOK, Spender
    <3>4. QED BY <3>1, <3>2, <3>3
  <2>3. QED BY <1>2, <2>1, <2>2
<1>7. QED BY <1>1, <1>5, <1>6 DEF KeepOK

\* The run that changes is about another token, or is given up and spent nothing.
LEMMA OtherRunKeeps ==
  ASSUME TokenRefreshAssumption, Shaped, Sound, Sound', NEW t \in Tokens, SpentOK(t), KeepOK(t),
         Undisturbed(t), NEW j \in Jobs,
         \/ Quits(j) /\ ~Spender(j, t)
         \/ Others(j) /\ jobs[j].token # t /\ jobs'[j].token = jobs[j].token
  PROVE  KeepOK(t)'
<1>1. jobs'[j].token # t /\ Others(j) /\ ~Spender(j, t) BY Numbers DEF Quits, Idle, Spender
<1>2. RunOK(jobs'[j], launched') BY DEF Sound, IInv, RunsOK
<1>3. ~(jobs'[j].pc = "settle" /\ Announced(jobs'[j].entry, t)) BY <1>1, <1>2 DEF RunOK, Announced
<1>4. EndsOK(j, t)' /\ CarriesOK(j, t)' BY <1>1 DEF EndsOK, CarriesOK, Spender
<1>5. QED BY <1>1, <1>3, <1>4, UndisturbedKeeps

\* Nothing is left to keep, and no run goes on.
LEMMA NothingLeft ==
  ASSUME TokenRefreshAssumption, Shaped, Shaped', Sound, NEW t \in Tokens, KeepOK(t),
         SentSame(t), HoldersSame(t), saved' \in {saved, state'},
         t \in state.verdicts => t \in state'.verdicts,
         NEW j \in Jobs, Quits(j), \A k \in Jobs \ {j} : ~Spender(k, t),
         Quiet(t)' \/ Settled(t)' \/ Dead(t)'
  PROVE  KeepOK(t)'
<1>0. jobs'[j].token # t /\ \A k \in Jobs : k = j \/ jobs'[k] = jobs[k]
  BY Numbers DEF Quits, Others, Idle
<1>1. LandOK(t)' /\ HomeOK(t)'
  <2>1. CASE Quiet(t)'
    <3>1. t \notin delivered' BY <2>1 DEF Quiet, Shaped, DeliveredSent
    <3>2. \A p \in Profiles : strays'[<<p, t>>] # "home" BY <2>1 DEF Quiet
    <3>3. QED BY <3>1, <3>2 DEF LandOK, HomeOK
  <2>2. CASE Settled(t)' BY <2>2 DEF LandOK, HomeOK
  <2>3. CASE Dead(t)' BY <2>3 DEF Dead, LandOK, HomeOK
  <2>4. QED BY <2>1, <2>2, <2>3
<1>2. Explained(t)' BY DEF Explained
<1>3. HandsOK(t)' BY <1>2 DEF HandsOK, HandOK
<1>4. ASSUME NEW k \in Jobs PROVE EndsOK(k, t)' /\ CarriesOK(k, t)'
  <2>1. CASE k = j BY <1>0, <2>1 DEF EndsOK, CarriesOK, Spender
  <2>2. CASE k # j
    <3>1. jobs'[k] = jobs[k] /\ ~Spender(k, t) BY <1>0, <2>2
    <3>2. CarriesOK(k, t)' BY <3>1 DEF CarriesOK, Spender
    <3>3. EndsOK(k, t)' BY <3>1, EndsSame DEF Sound, KeepOK
    <3>4. QED BY <3>2, <3>3
  <2>3. QED BY <2>1, <2>2
<1>5. QED BY <1>1, <1>3, <1>4 DEF KeepOK

-----------------------------------------------------------------------------
(* Rescue files.                                                           *)

Held(files, f) == \E i \in DOMAIN files : files[i] = f
OwnFile(s) == [token |-> s, own |-> TRUE]

\* With room for one more, no file is dropped for a new one.
LEMMA AddedFile ==
  ASSUME TokenRefreshAssumption, NEW files \in Seq(Rescue), NEW f \in Rescue
  PROVE  /\ Kept(Append(files, f)) \in Seq(Rescue)
         /\ Len(files) < MaxRescues => /\ Held(Kept(Append(files, f)), f)
                                       /\ \A g : Held(files, g) => Held(Kept(Append(files, f)), g)
<1> DEFINE more == Append(files, f)
<1>0. MaxRescues \in Nat \ {0} BY DEF TokenRefreshAssumption
<1>1. /\ more \in Seq(Rescue) /\ Len(more) = Len(files) + 1 /\ Len(files) \in Nat
      /\ more[Len(files) + 1] = f /\ \A i \in 1..Len(files) : more[i] = files[i]
  OBVIOUS
<1> HIDE DEF more
<1>2. Kept(more) \in Seq(Rescue)
  <2>1. CASE Len(more) > MaxRescues
    <3>1. Kept(more) = SubSeq(more, Len(more) - MaxRescues + 1, Len(more)) BY <2>1 DEF Kept
    <3>2. \A i \in (Len(more) - MaxRescues + 1)..Len(more) : more[i] \in Rescue BY <1>0, <1>1, <2>1
    <3>3. QED BY <1>0, <1>1, <2>1, <3>1, <3>2
  <2>2. CASE ~(Len(more) > MaxRescues)
    <3>1. Kept(more) = SubSeq(more, 1, Len(more)) BY <2>2 DEF Kept
    <3>2. QED BY <1>1, <3>1
  <2>3. QED BY <2>1, <2>2
<1>3. ASSUME Len(files) < MaxRescues
      PROVE  Held(Kept(more), f) /\ \A g : Held(files, g) => Held(Kept(more), g)
  <2>1. ~(Len(more) > MaxRescues) BY <1>0, <1>1, <1>3
  <2>2. Kept(more) = SubSeq(more, 1, Len(more)) BY <2>1 DEF Kept
  <2>3. Kept(more) = more BY <1>1, <2>2
  <2>4. DOMAIN files = 1..Len(files) /\ DOMAIN more = 1..(Len(files) + 1) BY <1>1
  <2>5. Held(more, f) BY <1>1, <2>4 DEF Held
  <2>6. \A g : Held(files, g) => Held(more, g) BY <1>1, <2>4 DEF Held
  <2>7. QED BY <2>3, <2>5, <2>6
<1>4. QED BY <1>2, <1>3 DEF more

\* One file is deleted.
LEMMA DeletedFile ==
  ASSUME NEW files \in Seq(Rescue), NEW f
  PROVE  /\ Without(files, f) \in Seq(Rescue)
         /\ \A g : g # f /\ Held(files, g) => Held(Without(files, f), g)
<1> DEFINE found == {i \in DOMAIN files : files[i] = f}
<1>1. CASE found = {}
  <2>1. Without(files, f) = files BY <1>1 DEF Without
  <2>2. QED BY <2>1
<1>2. CASE found # {}
  <2> DEFINE n == CHOOSE i \in found : TRUE
             left == SubSeq(files, 1, n - 1)
             right == SubSeq(files, n + 1, Len(files))
  <2>1. n \in found BY <1>2
  <2>2. n \in 1..Len(files) /\ files[n] = f /\ Len(files) \in Nat BY <2>1
  <2>3. Without(files, f) = left \o right BY <1>2 DEF Without
  <2> HIDE DEF n
  <2>4. /\ left \in Seq(Rescue) /\ Len(left) = n - 1
        /\ \A i \in 1..(n - 1) : left[i] = files[i]
    BY <2>2
  <2>5. /\ right \in Seq(Rescue) /\ Len(right) = Len(files) - n
        /\ \A i \in 1..(Len(files) - n) : right[i] = files[n + i]
    BY <2>2
  <2> HIDE DEF left, right
  <2>6. /\ left \o right \in Seq(Rescue) /\ Len(left \o right) = Len(files) - 1
        /\ \A i \in 1..(n - 1) : (left \o right)[i] = files[i]
        /\ \A i \in 1..(Len(files) - n) : (left \o right)[n - 1 + i] = files[n + i]
    <3>0. left \in Seq(Rescue) /\ right \in Seq(Rescue) BY <2>4, <2>5
    <3>1. /\ left \o right \in Seq(Rescue)
          /\ Len(left \o right) = Len(left) + Len(right)
          /\ \A i \in 1..(Len(left) + Len(right)) :
               (left \o right)[i] = IF i <= Len(left) THEN left[i] ELSE right[i - Len(left)]
      BY <3>0, ConcatProperties
    <3>l. Len(left) = n - 1 /\ Len(right) = Len(files) - n BY <2>4, <2>5
    <3>2. ASSUME NEW i \in 1..(n - 1) PROVE (left \o right)[i] = files[i]
      <4>1. (left \o right)[i] = left[i] BY <2>2, <3>1, <3>l
      <4>2. QED BY <2>4, <4>1
    <3>3. ASSUME NEW i \in 1..(Len(files) - n) PROVE (left \o right)[n - 1 + i] = files[n + i]
      <4>1. /\ n - 1 + i \in 1..((n - 1) + (Len(files) - n)) /\ ~(n - 1 + i <= n - 1)
            /\ n - 1 + i - (n - 1) = i
        BY <2>2
      <4>2. (left \o right)[n - 1 + i] = right[i] BY <3>1, <3>l, <4>1
      <4>3. QED BY <2>5, <4>2
    <3>4. QED BY <2>2, <3>1, <3>l, <3>2, <3>3
  <2>7. ASSUME NEW g, g # f, Held(files, g) PROVE Held(left \o right, g)
    <3>1. PICK i \in 1..Len(files) : files[i] = g BY <2>7 DEF Held
    <3>2. DOMAIN (left \o right) = 1..(Len(files) - 1) BY <2>2, <2>6
    <3>3. i # n BY <2>2, <2>7, <3>1
    <3>4. CASE i < n
      <4>1. i \in 1..(n - 1) /\ i \in 1..(Len(files) - 1) BY <2>2, <3>4
      <4>2. QED BY <2>6, <3>1, <3>2, <4>1 DEF Held
    <3>5. CASE i > n
      <4>1. i - n \in 1..(Len(files) - n) /\ i - 1 \in 1..(Len(files) - 1) BY <2>2, <3>5
      <4>2. (left \o right)[n - 1 + (i - n)] = files[n + (i - n)] BY <2>6, <4>1
      <4>3. n - 1 + (i - n) = i - 1 /\ n + (i - n) = i BY <2>2
      <4>4. (left \o right)[i - 1] = g BY <3>1, <4>2, <4>3
      <4>5. QED BY <3>2, <4>1, <4>4 DEF Held
    <3>6. QED BY <2>2, <3>3, <3>4, <3>5
  <2>8. QED BY <2>3, <2>6, <2>7
<1>3. QED BY <1>1, <1>2

LEMMA FiledMeans ==
  ASSUME NEW t \in Tokens, NEW p \in Profiles
  PROVE  Filed(p, t) = IF MaxStops = 0 THEN pending[t] = successor[t]
                       ELSE Held(rescues[p], OwnFile(successor[t]))
BY DEF Filed, Held, OwnFile

\* A filed login was issued.
LEMMA FiledIssued ==
  ASSUME TokenRefreshAssumption, Shaped, NEW t \in Tokens, NEW p \in Profiles,
         Held(rescues[p], OwnFile(successor[t]))
  PROVE  successor[t] # NoToken
<1>1. PICK i \in DOMAIN rescues[p] : rescues[p][i] = OwnFile(successor[t]) BY DEF Held
<1>2. rescues[p] \in Seq(Rescue) BY DEF Shaped, FilesTyped
<1>3. OwnFile(successor[t]) \in Rescue BY <1>1, <1>2
<1>4. successor[t] \in Tokens BY <1>3 DEF Rescue, OwnFile
<1>5. QED BY <1>4, Numbers

LEMMA FilesStay ==
  ASSUME NEW t \in Tokens, successor'[t] = successor[t],
         MaxStops = 0 => pending'[t] \in {pending[t], successor[t]},
         MaxStops # 0 => \A p \in Profiles :
           Held(rescues[p], OwnFile(successor[t])) => Held(rescues'[p], OwnFile(successor[t]))
  PROVE  FilesSame(t)
<1> SUFFICES ASSUME NEW p \in Profiles, Filed(p, t) PROVE Filed(p, t)' BY DEF FilesSame
<1>1. CASE MaxStops = 0 BY <1>1 DEF Filed
<1>2. CASE MaxStops # 0
  <2>1. Held(rescues'[p], OwnFile(successor[t])) BY <1>2, FiledMeans
  <2>2. QED BY <1>2, <2>1 DEF Filed, Held, OwnFile
<1>3. QED BY <1>1, <1>2

LEMMA FilesUnchanged ==
  ASSUME NEW t \in Tokens, UNCHANGED rescues, successor'[t] = successor[t],
         pending'[t] \in {pending[t], successor[t]}
  PROVE  FilesSame(t)
BY FilesStay

LEMMA FilesAdded ==
  ASSUME TokenRefreshAssumption, Shaped, RoomForRescues, NEW p \in Profiles, NEW s \in Tokens,
         NEW own \in BOOLEAN, AddRescue(p, s, own)
  PROVE  /\ rescues' \in [Profiles -> Seq(Rescue)]
         /\ MaxStops # 0 => /\ Held(rescues'[p], [token |-> s, own |-> own])
                            /\ \A q \in Profiles : \A g : Held(rescues[q], g) => Held(rescues'[q], g)
<1> DEFINE f == [token |-> s, own |-> own]
<1>1. rescues \in [Profiles -> Seq(Rescue)] BY DEF Shaped, FilesTyped
<1>2. f \in Rescue BY DEF Rescue
<1>3. rescues' = [rescues EXCEPT ![p] = Kept(Append(rescues[p], f))] BY DEF AddRescue
<1> HIDE DEF f
<1>4. Kept(Append(rescues[p], f)) \in Seq(Rescue) BY <1>1, <1>2, AddedFile
<1>5. /\ rescues'[p] = Kept(Append(rescues[p], f))
      /\ \A q \in Profiles \ {p} : rescues'[q] = rescues[q]
  BY <1>1, <1>3
<1>6. rescues' \in [Profiles -> Seq(Rescue)] BY <1>1, <1>3, <1>4
<1>7. ASSUME MaxStops # 0
      PROVE  /\ Held(rescues'[p], f)
             /\ \A q \in Profiles : \A g : Held(rescues[q], g) => Held(rescues'[q], g)
  <2>1. Len(rescues[p]) < MaxRescues BY <1>7 DEF RoomForRescues
  <2>2. /\ Held(rescues'[p], f) /\ \A g : Held(rescues[p], g) => Held(rescues'[p], g)
    BY <1>1, <1>2, <1>5, <2>1, AddedFile
  <2>3. QED BY <1>5, <2>2
<1>8. QED BY <1>6, <1>7 DEF f

-----------------------------------------------------------------------------
(* What single changes mean for a rotated login.                           *)

LEMMA SlotsUnchanged ==
  ASSUME NEW t \in Tokens, UNCHANGED <<state, saved>> PROVE SlotsSame(t)
BY DEF SlotsSame, Names, Open

LEMMA SlotsOfOther ==
  ASSUME JournalOK, NEW p \in Profiles, NEW e, NEW t \in Tokens, NEW u, u # t,
         Save(SetEntry(p, e)) \/ SaveFails(SetEntry(p, e)), e.token \in {u, NoToken},
         TokenRefreshAssumption, t \notin Displaced(p, u)
  PROVE  SlotsSame(t)
<1>1. state.journal[p].token # t BY OtherEntry
<1>2. /\ state'.verdicts = state.verdicts /\ saved' \in {saved, state'}
      /\ \A q \in Profiles \ {p} : state'.journal[q] = state.journal[q]
  BY EntryChanged
<1>3. ASSUME NEW q \in Profiles, Names(state.journal[q], t)
      PROVE  state'.journal[q] = state.journal[q]
  BY <1>1, <1>2, <1>3 DEF Names
<1>4. QED BY <1>2, <1>3 DEF SlotsSame

LEMMA SlotsJudged ==
  ASSUME JournalOK, NEW u, NEW t \in Tokens, Save(SetVerdict(u)) \/ SaveFails(SetVerdict(u))
  PROVE  SlotsSame(t) /\ u \in state'.verdicts
<1>1. state \in RefreshState BY DEF JournalOK, StateOK
<1>2. state' = SetVerdict(u) /\ saved' \in {saved, state'} BY DEF Save, SaveFails
<1>3. state'.journal = state.journal /\ state'.verdicts = state.verdicts \cup {u}
  BY <1>1, <1>2 DEF SetVerdict, RefreshState
<1>4. \A p \in Profiles : state'.journal[p] = state.journal[p] BY <1>3
<1>5. QED BY <1>2, <1>3, <1>4 DEF SlotsSame

LEMMA PlacesUnchanged ==
  ASSUME NEW t \in Tokens, UNCHANGED <<temps, strays, successor, delivered>> PROVE PlacesSame(t)
BY DEF PlacesSame

LEMMA PlacesForgotten ==
  ASSUME IInv, NEW t \in Tokens, NEW dirs, Forget(dirs), UNCHANGED <<successor, delivered>>,
         \A q \in Profiles : <<q, t>> \notin dirs
  PROVE  PlacesSame(t)
<1>1. \A d \in Profiles \X Tokens : temps'[d] = IF d \in dirs THEN NoToken ELSE temps[d]
  BY ForgetTemps DEF IInv
<1>2. \A d \in Profiles \X Tokens : strays'[d] = "home" => strays[d] = "home"
  BY DEF Forget, IInv, DirsOK
<1>3. QED BY <1>1, <1>2 DEF PlacesSame

LEMMA HandsUnchanged == ASSUME UNCHANGED backlog, NEW t \in Tokens PROVE HandsSame(t)
BY DEF HandsSame

\* An entry that says "spending" is of a run that shows, or of none.
LEMMA AnnouncedExplained ==
  ASSUME Trace, NEW t \in Tokens, NotedOK(t), NEW p \in Profiles,
         Announced(state.journal[p], t)
  PROVE  Explained(t)
<1>1. CASE Quiet(t) BY <1>1 DEF Explained
<1>2. CASE ~Quiet(t)
  <2>1. PICK k \in Jobs : jobs[k].pc = "note" /\ jobs[k].token = t
    BY <1>2, QuietOrTouched DEF NotedOK
  <2>2. Spender(k, t) BY <2>1 DEF Trace, RunsTrace, ShapeOK, Spender
  <2>3. QED BY <2>2 DEF Explained
<1>3. QED BY <1>1, <1>2

\* A token for which a run has the rotated login was sent, and nothing is under way for it.
LEMMA RotatedSent ==
  ASSUME TokenRefreshAssumption, Trace, NEW j \in Jobs, NEW t \in Tokens, SpentOK(t),
         jobs[j].token = t, jobs[j].rotated # NoToken
  PROVE  /\ jobs[j].rotated = successor[t] /\ sent[t] > 0 /\ ~Quiet(t)
         /\ \A p \in Profiles : strays[<<p, t>>] = "none"
<1>1. jobs[j].rotated = successor[t] BY DEF Trace, RunsTrace, RotatedOK
<1>2. sent[t] > 0 /\ sent[t] \in Nat BY <1>1 DEF Trace, LoginsTrace
<1>3. QED BY <1>1, <1>2 DEF SpentOK, OnceOK, Quiet

\* Only jobs change, and what the entries read before say.
LEMMA UndisturbedSteady ==
  ASSUME NEW t \in Tokens, HandsSame(t),
         UNCHANGED <<stored, state, saved, rescues, pending, temps, strays, sent, successor, delivered>>
  PROVE  Undisturbed(t)
BY SlotsUnchanged, PlacesUnchanged, FilesUnchanged, DirsUnchanged, HoldersUnchanged
   DEF Undisturbed, PendingSame

-----------------------------------------------------------------------------
(* clearJournal, and settle.                                               *)

\* It ends an entry for another token.
LEMMA KeepClearOther ==
  ASSUME TokenRefreshAssumption, Shaped, Sound, Sound', NEW j \in Jobs, NEW dirs,
         ClearJournal(j, dirs), NEW t \in Tokens \ exposed', SpentOK(t), KeepOK(t),
         jobs[j].token # t, dirs \subseteq {Dir(j)},
         UNCHANGED <<stored, backlog, sent, successor, delivered>>,
         FilesSame(t), PendingSame(t)
  PROVE  KeepOK(t)'
<1> DEFINE p == jobs[j].profile
           u == jobs[j].token
           e == state.journal[p]
<1>0. IInv /\ jobs[j] \in Run /\ Job(j) = jobs[j] /\ p \in Profiles
  BY DEF Sound, IInv, RunsOK, Job, Run
<1>1. t \notin Displaced(p, u) BY <1>0 DEF ClearJournal
<1>2. Save(SetEntry(p, NoEntry)) \/ SaveFails(SetEntry(p, NoEntry)) BY <1>0 DEF ClearJournal
<1>3. NoEntry.token = NoToken BY DEF NoEntry
<1>4. SlotsSame(t) /\ e.token # t
  <2> HIDE DEF p, u
  <2>1. SlotsSame(t) /\ state.journal[p].token # t
    BY <1>0, <1>1, <1>2, <1>3, OtherEntry, SlotsOfOther DEF IInv, u
  <2>2. QED BY <2>1
<1>5. PICK any : /\ Forget(any)
                 /\ any = dirs \cup (IF e.temp THEN {<<p, e.token>>} ELSE {})
  BY <1>0 DEF ClearJournal
<1>6. \A q \in Profiles : <<q, t>> \notin any BY <1>0, <1>4, <1>5 DEF Dir
<1>7. SentSame(t) /\ PlacesSame(t) BY <1>0, <1>5, <1>6, OtherDirs, PlacesForgotten
<1>8. Quits(j) BY <1>0, Quit DEF ClearJournal, IInv
<1>9. Undisturbed(t)
  BY <1>4, <1>7, HoldersUnchanged, HandsUnchanged DEF Undisturbed
<1>10. QED BY <1>8, <1>9, OtherRunKeeps DEF Spender

\* It ends the token's own entry, of which nothing is left to keep.
LEMMA KeepClearOwn ==
  ASSUME TokenRefreshAssumption, Shaped, Shaped', Sound, NEW j \in Jobs, NEW dirs,
         ClearJournal(j, dirs), NEW t \in Tokens \ exposed', KeepOK(t), jobs[j].token = t,
         UNCHANGED <<stored, backlog, sent, delivered>>,
         Quiet(t) \/ Settled(t) \/ Dead(t)
  PROVE  KeepOK(t)'
<1> DEFINE p == jobs[j].profile
<1>0. IInv /\ jobs[j] \in Run /\ Job(j) = jobs[j] /\ p \in Profiles
  BY DEF Sound, IInv, RunsOK, Job, Run
<1>1. Save(SetEntry(p, NoEntry)) \/ SaveFails(SetEntry(p, NoEntry)) BY <1>0 DEF ClearJournal
<1>2. state'.verdicts = state.verdicts /\ saved' \in {saved, state'}
  BY <1>0, <1>1, EntryChanged DEF IInv
<1>3. PICK any : Forget(any) BY DEF ClearJournal
<1>4. SentSame(t) /\ HoldersSame(t) BY <1>0, <1>3, ForgetSent, HoldersUnchanged
<1>5. Quits(j) BY <1>0, Quit DEF ClearJournal, IInv
<1>6. \A k \in Jobs \ {j} : ~Spender(k, t) BY <1>0 DEF ClearJournal, InFlight, Spender, Job
<1>7. Quiet(t) => Quiet(t)' BY <1>4, QuietSame
<1>8. Settled(t) => Settled(t)' BY <1>2, <1>4, SettledSame
<1>9. ASSUME Dead(t) PROVE Dead(t)'
  <2>1. \A d \in Profiles \X Tokens : strays'[d] = "home" => strays[d] = "home"
    BY <1>0, <1>3 DEF Forget, IInv, DirsOK
  <2>2. QED BY <1>2, <1>9, <2>1 DEF Dead
<1>10. QED BY <1>2, <1>4, <1>5, <1>6, <1>7, <1>8, <1>9, NothingLeft

\* settle of a run that spent the token and brought nothing, or of its entry: with the
\* verdict saved, or not.
LEMMA KeepJudged ==
  ASSUME TokenRefreshAssumption, Shaped, Shaped', Sound, Sound', NEW j \in Jobs, Judge(j),
         NEW t \in Tokens, SpentOK(t), KeepOK(t), jobs[j].pc \in {"wait", "settle"},
         jobs[j].exit # "running",
         Spender(j, t) => Advanced(Dir(j)) = NoToken,
         UNCHANGED <<stored, rescues, pending, backlog, sent, successor, delivered>>
  PROVE  KeepOK(t)'
<1> DEFINE u == jobs[j].token
<1>0. /\ IInv /\ IInv' /\ Trace /\ Trace' /\ Order /\ jobs[j] \in Run /\ Job(j) = jobs[j]
      /\ RunOK(jobs[j], launched)
  BY DEF Sound, IInv, RunsOK, Job
<1>1. HoldersSame(t) /\ HandsSame(t) /\ PendingSame(t) /\ FilesSame(t)
  BY HoldersUnchanged, HandsUnchanged, FilesUnchanged DEF PendingSame
<1>2. CASE Moves(j, "clear") /\ Save(SetVerdict(u)) /\ UNCHANGED <<temps, strays>>
  <2>1. SlotsSame(t) /\ u \in state'.verdicts /\ saved' = state'
    BY <1>0, <1>2, SlotsJudged DEF IInv, Save
  <2>2. SentSame(t) /\ PlacesSame(t) BY <1>2, DirsUnchanged, PlacesUnchanged
  <2>3. Undisturbed(t) BY <1>1, <2>1, <2>2 DEF Undisturbed
  <2>4. CASE u # t BY <1>2, <2>3, <2>4, OtherRunKeeps DEF Moves, Turns
  <2>5. CASE u = t
    <3>1. jobs'[j].pc = "clear" /\ Others(j) /\ (Spender(j, t) => Spender(j, t)')
      BY <1>2 DEF Moves, Turns, Spender
    <3>2. EndsOK(j, t)' BY <2>1, <2>5 DEF EndsOK
    <3>3. CarriesOK(j, t)' BY <3>1 DEF CarriesOK
    <3>4. QED BY <2>3, <3>1, <3>2, <3>3, UndisturbedKeeps
  <2>6. QED BY <2>4, <2>5
<1>3. CASE Quits(j) /\ SaveFails(SetVerdict(u)) /\ Forget(OwnDir(j))
  <2>1. SlotsSame(t) /\ u \in state'.verdicts BY <1>0, <1>3, SlotsJudged DEF IInv
  <2>2. CASE ~Spender(j, t)
    <3>1. \A q \in Profiles : <<q, t>> \notin OwnDir(j)
      BY <1>0, <2>2 DEF OwnDir, Dir, Spender
    <3>2. SentSame(t) /\ PlacesSame(t) BY <1>0, <1>3, <3>1, OtherDirs, PlacesForgotten
    <3>3. Undisturbed(t) BY <1>1, <2>1, <3>2 DEF Undisturbed
    <3>4. QED BY <1>3, <2>2, <3>3, OtherRunKeeps
  <2>3. CASE Spender(j, t)
    <3>0. PICK p \in Profiles : p = jobs[j].profile BY <1>0 DEF Run
    <3>1. SentSame(t) BY <1>0, <1>3, ForgetSent
    <3>2. \A k \in Jobs \ {j} : ~Spender(k, t) BY <1>0, <2>3, OneSpender
    <3>3. t \in state'.verdicts /\ Dir(j) = <<p, t>> BY <1>0, <2>1, <2>3, <3>0 DEF Spender, Dir
    <3>4. jobs[j].pc = "wait" BY <1>0, <2>3 DEF Trace, RunsTrace, ShapeOK, Spender
    <3>5. /\ Early(state.journal[p]) /\ Names(state.journal[p], t) /\ OneSlot(state, t)
      BY <2>3, <3>0, <3>4 DEF KeepOK, CarriesOK, SpentOK, SpenderOK, RecordOK
    <3>6. t \in delivered => Settled(t)
      <4>1. SUFFICES ASSUME t \in delivered, NEW q \in Profiles, LeadsTo(q, t) PROVE FALSE
        BY DEF KeepOK, LandOK
      <4>2. q = p BY <3>5, <4>1 DEF OneSlot, LeadsTo
      <4>3. InDir(p, t) BY <3>5, <4>1, <4>2, Zenon DEF LeadsTo, Early
      <4>4. successor[t] # NoToken
        BY <1>0, <4>1 DEF Shaped, DeliveredSent, Trace, LoginsTrace
      <4>5. successor[t] \in Tokens /\ t < successor[t]
        BY <1>0, <4>4 DEF IInv, LoginsOK, Order, LoginsAge
      <4>6. successor[t] \in Tokens \ {t} BY <4>5, Numbers
      <4>7. Advanced(<<p, t>>) = successor[t] BY <4>3, <4>6 DEF Advanced, InDir
      <4>8. QED BY <2>3, <3>3, <4>4, <4>7
    <3>7. ASSUME t \notin delivered, ~Settled(t) PROVE Dead(t)'
      <4>1. ASSUME NEW q \in Profiles, strays'[<<q, t>>] = "home" PROVE FALSE
        <5>1. strays[<<q, t>>] = "home" /\ <<q, t>> \notin OwnDir(j)
          BY <1>0, <1>3, <4>1 DEF Forget, IInv, DirsOK
        <5>2. EarlyAt(q, t) BY <3>7, <5>1 DEF KeepOK, HomeOK
        <5>3. q = p BY <3>5, <5>2 DEF OneSlot, EarlyAt
        <5>4. jobs[j].spends /\ ~jobs[j].keep
          BY <2>3, <3>4 DEF Spender, Shaped, RunsShaped
        <5>5. QED BY <1>0, <3>3, <5>1, <5>3, <5>4 DEF OwnDir
      <4>2. QED BY <3>3, <3>7, <4>1 DEF Dead
    <3>8. Settled(t) => Settled(t)' BY <1>1, <2>1, <3>1, SettledSame DEF SlotsSame
    <3>9. Settled(t)' \/ Dead(t)' BY <3>6, <3>7, <3>8
    <3>10. QED BY <1>1, <1>3, <2>1, <3>1, <3>2, <3>9, NothingLeft DEF SlotsSame
  <2>4. QED BY <2>2, <2>3
<1>4. QED BY <1>0, <1>2, <1>3, TurnsJudged

-----------------------------------------------------------------------------
(* The steps of a run, up to what its CLI left.                            *)

\* What a run notes of its rescue file.
Marks(j, rescued, keep) == (jobs'[j].rescued <=> rescued) /\ (jobs'[j].keep <=> keep)

LEMMA MarksSame ==
  ASSUME TokenRefreshAssumption, IInv, NEW j \in Jobs,
         \/ Launch(j) \/ NoteStarted(j) \/ CliEnds(j) \/ TimesOut(j) \/ FindRotated(j)
         \/ List(j) \/ CommitOne(j)
  PROVE  Marks(j, jobs[j].rescued, jobs[j].keep)
<1>0. jobs[j] \in Run /\ Job(j) = jobs[j] BY DEF IInv, RunsOK, Job
<1>1. ASSUME NEW run, Becomes(j, run) PROVE jobs'[j] = run BY <1>1 DEF Becomes, IInv, RunsOK
<1>2. ASSUME NEW pc, NEW exit, NEW rotated, NEW todo, NEW committed, NEW run,
             \/ run = [jobs[j] EXCEPT !.pc = pc]
             \/ run = [jobs[j] EXCEPT !.pc = pc, !.exit = exit]
             \/ run = [jobs[j] EXCEPT !.exit = exit]
             \/ run = [jobs[j] EXCEPT !.pc = pc, !.rotated = rotated]
             \/ run = [jobs[j] EXCEPT !.pc = pc, !.todo = todo]
             \/ run = [jobs[j] EXCEPT !.todo = todo, !.committed = committed]
             \/ run = [jobs[j] EXCEPT !.todo = todo],
             Becomes(j, run)
      PROVE  Marks(j, jobs[j].rescued, jobs[j].keep)
  <2>r. PICK r \in Run : r = jobs[j] BY <1>0
  <2>1. run.rescued = r.rescued /\ run.keep = r.keep
    <3>1. run = [r EXCEPT !.pc = pc] => run.rescued = r.rescued /\ run.keep = r.keep
      BY DEF Run
    <3>2. run = [r EXCEPT !.pc = pc, !.exit = exit] => run.rescued = r.rescued /\ run.keep = r.keep
      BY DEF Run
    <3>3. run = [r EXCEPT !.exit = exit] => run.rescued = r.rescued /\ run.keep = r.keep
      BY DEF Run
    <3>4. run = [r EXCEPT !.pc = pc, !.rotated = rotated]
            => run.rescued = r.rescued /\ run.keep = r.keep
      BY DEF Run
    <3>5. run = [r EXCEPT !.pc = pc, !.todo = todo] => run.rescued = r.rescued /\ run.keep = r.keep
      BY DEF Run
    <3>6. run = [r EXCEPT !.todo = todo, !.committed = committed]
            => run.rescued = r.rescued /\ run.keep = r.keep
      BY DEF Run
    <3>7. run = [r EXCEPT !.todo = todo] => run.rescued = r.rescued /\ run.keep = r.keep
      BY DEF Run
    <3>8. QED BY <1>2, <2>r, <3>1, <3>2, <3>3, <3>4, <3>5, <3>6, <3>7
  <2>2. QED BY <1>1, <1>2, <2>r, <2>1 DEF Marks
<1>3. CASE Launch(j) BY <1>0, <1>2, <1>3 DEF Launch
<1>4. CASE NoteStarted(j) BY <1>0, <1>2, <1>4 DEF NoteStarted, GoTo
<1>5. CASE CliEnds(j) \/ TimesOut(j) BY <1>0, <1>2, <1>5 DEF CliEnds, TimesOut, Exits
<1>6. CASE FindRotated(j) BY <1>0, <1>2, <1>6 DEF FindRotated
<1>7. CASE List(j) BY <1>0, <1>2, <1>7 DEF List
<1>8. CASE CommitOne(j) BY <1>0, <1>2, <1>8 DEF CommitOne
<1>9. QED BY <1>3, <1>4, <1>5, <1>6, <1>7, <1>8

\* A run that spends nothing yet, or only settles an entry.
LEMMA SparingRunKeeps ==
  ASSUME Shaped, Sound, Sound', NEW t \in Tokens, SpentOK(t), KeepOK(t), Undisturbed(t),
         NEW j \in Jobs, Others(j), ~jobs[j].spends, ~jobs'[j].spends, jobs'[j].pc # "clear",
         jobs'[j].pc = "settle" /\ Announced(jobs'[j].entry, t) => Explained(t)
  PROVE  KeepOK(t)'
<1>1. EndsOK(j, t)' /\ CarriesOK(j, t)' BY DEF EndsOK, CarriesOK, Spender
<1>2. QED BY <1>1, UndisturbedKeeps DEF Spender

LEMMA KeepPreparing ==
  ASSUME TokenRefreshAssumption, Shaped, Sound, Sound', NEW j \in Jobs, NEW t \in Tokens,
         SpentOK(t), KeepOK(t), Acquire(j) \/ SettleLeftover(j) \/ Abandon(j)
  PROVE  KeepOK(t)'
<1>0. /\ IInv /\ Trace /\ jobs[j] \in Run /\ Job(j) = jobs[j]
      /\ jobs[j].pc \in {"lock", "look"} /\ ~jobs[j].spends
  BY DEF Sound, IInv, RunsOK, Job, Acquire, SettleLeftover, Abandon, At, Trace, RunsTrace, ShapeOK
<1>1. UNCHANGED <<stored, state, saved, rescues, pending, temps, strays, sent, successor,
                  delivered, backlog>>
  BY DEF Acquire, SettleLeftover, Abandon, disk, world, history
<1>2. Undisturbed(t) BY <1>1, HandsUnchanged, UndisturbedSteady
<1>3. CASE Quits(j) BY <1>0, <1>2, <1>3, OtherRunKeeps DEF Spender
<1>4. CASE Moves(j, "look")
  <2>1. Others(j) /\ jobs'[j].pc = "look" /\ ~jobs'[j].spends BY <1>0, <1>4 DEF Moves, Turns
  <2>2. QED BY <1>0, <1>2, <2>1, SparingRunKeeps
<1>5. CASE Turns(j, "settle", jobs[j].spends, jobs[j].exit, state.journal[jobs[j].profile],
                 jobs[j].rotated)
  <2>1. /\ Others(j) /\ jobs'[j].pc = "settle" /\ ~jobs'[j].spends
        /\ jobs'[j].entry = state.journal[jobs[j].profile]
    BY <1>0, <1>5 DEF Turns
  <2>2. jobs[j].profile \in Profiles BY <1>0 DEF Run
  <2>3. Announced(state.journal[jobs[j].profile], t) => Explained(t)
    BY <1>0, <2>2, AnnouncedExplained DEF SpentOK
  <2>4. QED BY <1>0, <1>2, <2>1, <2>3, SparingRunKeeps
<1>6. QED BY <1>0, <1>3, <1>4, <1>5, TurnsPreparing

LEMMA KeepLaunch ==
  ASSUME TokenRefreshAssumption, Shaped, Sound, Sound', NEW j \in Jobs, NEW t \in Tokens,
         SpentOK(t), KeepOK(t), Launch(j)
  PROVE  KeepOK(t)'
<1>0. /\ IInv /\ Trace /\ jobs[j] \in Run /\ Job(j) = jobs[j]
      /\ jobs[j].pc = "launch" /\ jobs[j].spends
  BY DEF Sound, IInv, RunsOK, Job, Launch, At, Trace, RunsTrace, ShapeOK
<1>1. UNCHANGED <<stored, state, saved, rescues, pending, temps, strays, sent, successor,
                  delivered, backlog>>
  BY DEF Launch, disk, world
<1>2. Undisturbed(t) BY <1>1, HandsUnchanged, UndisturbedSteady
<1>3. PICK pc \in {"note", "wait"}, exit \in {"running", "unsent"} :
        Turns(j, pc, jobs[j].spends, exit, jobs[j].entry, jobs[j].rotated)
  BY <1>0, TurnsRunning
<1>4. CASE jobs[j].token # t BY <1>2, <1>3, <1>4, OtherRunKeeps DEF Turns
<1>5. CASE jobs[j].token = t
  <2>1. /\ Others(j) /\ Spender(j, t) /\ Spender(j, t)' /\ jobs'[j].pc = pc
        /\ jobs'[j].profile = jobs[j].profile
    BY <1>0, <1>3, <1>5 DEF Turns, Spender
  <2>2. EndsOK(j, t)' BY <2>1 DEF EndsOK
  <2>3. SpenderOK(j, t) /\ CarriesOK(j, t) BY DEF SpentOK, KeepOK
  <2>4. CarriesOK(j, t)' BY <1>0, <1>2, <2>1, <2>3, CarriesSame
  <2>5. QED BY <1>2, <2>1, <2>2, <2>4, UndisturbedKeeps
<1>6. QED BY <1>4, <1>5

LEMMA KeepNoteStarted ==
  ASSUME TokenRefreshAssumption, Shaped, Sound, Sound', NEW j \in Jobs, NEW t \in Tokens \ exposed',
         SpentOK(t), KeepOK(t), NoteStarted(j)
  PROVE  KeepOK(t)'
<1> DEFINE u == jobs[j].token
           e == [Spending(j) EXCEPT !.phase = "started"]
<1>0. /\ IInv /\ Trace /\ jobs[j] \in Run /\ Job(j) = jobs[j]
      /\ jobs[j].pc = "note" /\ jobs[j].spends
  BY DEF Sound, IInv, RunsOK, Job, NoteStarted, At, Trace, RunsTrace, ShapeOK
<1>p. PICK p \in Profiles : p = jobs[j].profile BY <1>0 DEF Run
<1>1. UNCHANGED <<stored, rescues, pending, temps, strays, sent, successor, delivered, backlog>>
  BY DEF NoteStarted, world
<1>2. Moves(j, "wait") BY <1>0, TurnsRunning
<1>3. Save(SetEntry(p, e)) \/ SaveFails(SetEntry(p, e)) BY <1>0, <1>p DEF NoteStarted
<1>4. e.token = u /\ e.phase = "started" /\ e.temp = TRUE /\ e.rescue = FALSE
  BY <1>0 DEF Spending
<1>5. t \notin Displaced(p, u) BY <1>0, <1>p DEF NoteStarted
<1> HIDE DEF e
<1>6. /\ HoldersSame(t) /\ HandsSame(t) /\ PendingSame(t) /\ FilesSame(t) /\ SentSame(t)
      /\ PlacesSame(t)
  BY <1>1, HoldersUnchanged, HandsUnchanged, FilesUnchanged, DirsUnchanged, PlacesUnchanged
     DEF PendingSame
<1>7. CASE u # t
  <2>1. SlotsSame(t) BY <1>0, <1>3, <1>4, <1>5, <1>7, SlotsOfOther DEF IInv
  <2>2. Undisturbed(t) BY <1>6, <2>1 DEF Undisturbed
  <2>3. QED BY <1>2, <1>7, <2>2, OtherRunKeeps DEF Moves, Turns
<1>8. CASE u = t
  <2>1. /\ Others(j) /\ Spender(j, t) /\ Spender(j, t)' /\ jobs'[j].pc = "wait"
        /\ jobs'[j].profile = jobs[j].profile
    BY <1>0, <1>2, <1>8 DEF Moves, Turns, Spender
  <2>2. /\ Early(state.journal[p]) /\ Names(state.journal[p], t)
        /\ SpenderOK(j, t) /\ CarriesOK(j, t)
    BY <1>0, <1>p, <2>1 DEF KeepOK, CarriesOK, SpentOK, SpenderOK
  <2>3. /\ state'.verdicts = state.verdicts /\ saved' \in {saved, state'}
        /\ state'.journal[p] = e
        /\ \A q \in Profiles \ {p} : state'.journal[q] = state.journal[q]
    BY <1>0, <1>3, EntryChanged DEF IInv
  <2>4. /\ Names(e, t)
        /\ e.temp <=> state.journal[p].temp
        /\ e.rescue <=> state.journal[p].rescue
    <3>1. Names(e, t) BY <1>4, <1>8 DEF Names, Open
    <3>2. QED BY <1>4, <2>2, <3>1, Zenon DEF Early
  <2>5. SlotsSame(t)
    <3>1. ASSUME NEW q \in Profiles, Names(state.journal[q], t)
          PROVE  /\ Names(state'.journal[q], t)
                 /\ state'.journal[q].temp <=> state.journal[q].temp
                 /\ state'.journal[q].rescue <=> state.journal[q].rescue
      <4>1. CASE q = p
        <5>1. state'.journal[q] = e BY <2>3, <4>1
        <5>2. QED BY <2>4, <4>1, <5>1, Zenon
      <4>2. CASE q # p
        <5>1. state'.journal[q] = state.journal[q] BY <2>3, <4>2
        <5>2. Names(state'.journal[q], t) BY <3>1, <5>1 DEF Names, Open
        <5>3. QED BY <5>1, <5>2
      <4>3. QED BY <4>1, <4>2
    <3>2. QED BY <2>3, <3>1 DEF SlotsSame
  <2>6. Undisturbed(t) BY <1>6, <2>5 DEF Undisturbed
  <2>7. EndsOK(j, t)' BY <2>1 DEF EndsOK
  <2>8. CarriesOK(j, t)' BY <1>0, <2>1, <2>2, <2>6, CarriesSame
  <2>9. QED BY <2>1, <2>6, <2>7, <2>8, UndisturbedKeeps
<1>9. QED BY <1>7, <1>8

\* The journal entry is written: nothing was sent for the token yet.
LEMMA KeepJournal ==
  ASSUME TokenRefreshAssumption, Shaped, Shaped', Sound, Sound', NEW j \in Jobs,
         NEW t \in Tokens \ exposed', SpentOK(t), KeepOK(t), Journal(j)
  PROVE  KeepOK(t)'
<1> DEFINE u == jobs[j].token
           e == Spending(j)
<1>0. /\ IInv /\ IInv' /\ Trace /\ jobs[j] \in Run /\ Job(j) = jobs[j]
      /\ jobs[j].pc = "look" /\ ~jobs[j].spends /\ u \in Tokens
  BY DEF Sound, IInv, RunsOK, RunOK, Job, Journal, At, Trace, RunsTrace, ShapeOK, Run
<1>p. PICK p \in Profiles : p = jobs[j].profile BY <1>0 DEF Run
<1>1. UNCHANGED <<stored, rescues, pending, sent, successor, delivered, backlog>> BY DEF Journal
<1>2. Save(SetEntry(p, e)) \/ SaveFails(SetEntry(p, e)) BY <1>0, <1>p DEF Journal
<1>3. e.token = u /\ e.temp = TRUE /\ e.rescue = FALSE BY <1>0 DEF Spending
<1>4. t \notin Displaced(p, u) BY <1>0, <1>p DEF Journal
<1>5. \/ Quits(j)
      \/ /\ Turns(j, "launch", TRUE, jobs[j].exit, jobs[j].entry, jobs[j].rotated)
         /\ Save(SetEntry(p, e))
  <2>1. Leave(j) => Quits(j) BY <1>0, Quit DEF IInv
  <2>2. QED BY <1>0, <1>p, <2>1, TurnsPreparing DEF Journal
<1>6. \/ UNCHANGED <<temps, strays>>
      \/ /\ temps' = [temps EXCEPT ![<<p, u>>] = u]
         /\ strays' = [strays EXCEPT ![<<p, u>>] = IF @ = "home" THEN "lost" ELSE @]
  BY <1>0, <1>p DEF Journal
<1>7. \A q \in Profiles : (strays'[<<q, t>>] = "none") <=> (strays[<<q, t>>] = "none")
  <2>1. CASE strays' = [strays EXCEPT ![<<p, u>>] = IF @ = "home" THEN "lost" ELSE @]
    <3> SUFFICES ASSUME NEW q \in Profiles
                 PROVE  (strays'[<<q, t>>] = "none") <=> (strays[<<q, t>>] = "none")
      OBVIOUS
    <3>1. PICK d \in Profiles \X Tokens : d = <<q, t>> OBVIOUS
    <3>2. strays'[d] = strays[d] \/ (strays[d] = "home" /\ strays'[d] = "lost")
      BY <1>0, <2>1 DEF IInv, DirsOK
    <3>3. QED BY <3>1, <3>2
  <2>2. QED BY <1>6, <2>1
<1>8. SentSame(t) /\ HoldersSame(t) BY <1>1, <1>7, HoldersUnchanged DEF SentSame
<1> HIDE DEF e
<1>9. CASE u # t
  <2>1. SlotsSame(t) BY <1>0, <1>2, <1>3, <1>4, <1>9, SlotsOfOther DEF IInv
  <2>2. PlacesSame(t)
    <3>1. ASSUME NEW q \in Profiles
          PROVE  /\ temps'[<<q, t>>] = temps[<<q, t>>]
                 /\ strays'[<<q, t>>] = strays[<<q, t>>]
      <4>1. <<q, t>> \in Profiles \X Tokens /\ <<q, t>> # <<p, u>> BY <1>9
      <4>2. QED BY <1>0, <1>6, <4>1 DEF IInv, DirsOK
    <3>2. QED BY <1>1, <3>1 DEF PlacesSame
  <2>3. Undisturbed(t)
    BY <1>1, <1>8, <2>1, <2>2, HandsUnchanged, FilesUnchanged DEF Undisturbed, PendingSame
  <2>4. QED BY <1>0, <1>5, <1>9, <2>3, OtherRunKeeps DEF Turns, Spender
<1>10. CASE u = t
  <2>1. /\ Quiet(t) /\ \A k \in Jobs : ~Spender(k, t)
        /\ \A k \in Jobs : ~(jobs[k].pc = "clear" /\ jobs[k].token = t)
    BY <1>10, JournalQuiet
  <2>2. /\ state'.verdicts = state.verdicts /\ saved' \in {saved, state'}
        /\ state'.journal[p] = e
    BY <1>0, <1>2, EntryChanged DEF IInv
  <2>3. Quiet(t)' BY <1>8, <2>1, QuietSame
  <2>4. CASE Quits(j) BY <1>8, <2>1, <2>2, <2>3, <2>4, NothingLeft
  <2>5. CASE /\ Turns(j, "launch", TRUE, jobs[j].exit, jobs[j].entry, jobs[j].rotated)
             /\ Save(SetEntry(p, e))
    <3>1. /\ jobs'[j].profile = p /\ jobs'[j].pc = "launch"
          /\ \A k \in Jobs \ {j} : jobs'[k] = jobs[k]
      BY <1>p, <2>5 DEF Turns, Others
    <3>2. LandOK(t)' /\ HomeOK(t)'
      <4>1. t \notin delivered' BY <2>3 DEF Quiet, Shaped, DeliveredSent
      <4>2. \A q \in Profiles : strays'[<<q, t>>] # "home" BY <2>3 DEF Quiet
      <4>3. QED BY <4>1, <4>2 DEF LandOK, HomeOK
    <3>3. HandsOK(t)' BY <2>3 DEF HandsOK, HandOK, Explained
    <3>4. Early(state'.journal[p]) /\ Early(saved'.journal[p])
      BY <1>3, <2>2, <2>5, Zenon DEF Save, Early
    <3>5. EndsOK(j, t)' /\ CarriesOK(j, t)' BY <3>1, <3>4 DEF EndsOK, CarriesOK
    <3>6. ASSUME NEW k \in Jobs PROVE EndsOK(k, t)' /\ CarriesOK(k, t)'
      <4>1. CASE k = j BY <3>5, <4>1
      <4>2. CASE k # j BY <2>1, <3>1, <4>2 DEF EndsOK, CarriesOK, Spender
      <4>3. QED BY <4>1, <4>2
    <3>7. QED BY <3>2, <3>3, <3>6 DEF KeepOK
  <2>6. QED BY <1>5, <2>4, <2>5
<1>11. QED BY <1>9, <1>10

-----------------------------------------------------------------------------
(* The answers of the provider, and runs given up.                         *)

\* No run changes.
LEMMA SteadyRunsKeep ==
  ASSUME Shaped, Sound, Sound', NEW t \in Tokens, SpentOK(t), KeepOK(t), Undisturbed(t),
         UNCHANGED jobs
  PROVE  KeepOK(t)'
<1>1. PICK j \in Jobs : TRUE BY DEF Jobs
<1>2. /\ IInv /\ Trace /\ SpenderOK(j, t) /\ EndsOK(j, t) /\ CarriesOK(j, t) /\ HandsOK(t)
      /\ SentSame(t) /\ HoldersSame(t) /\ SlotsSame(t)
  BY DEF Sound, KeepOK, SpentOK, Undisturbed
<1>3. jobs'[j] = jobs[j] /\ Others(j) BY DEF Others
<1>4. EndsOK(j, t)' BY <1>2, <1>3, EndsSame DEF SlotsSame
<1>5. CarriesOK(j, t)'
  <2>1. CASE Spender(j, t) BY <1>2, <1>3, <2>1, CarriesSame
  <2>2. CASE ~Spender(j, t) BY <1>3, <2>2 DEF CarriesOK, Spender
  <2>3. QED BY <2>1, <2>2
<1>6. Spender(j, t) => Spender(j, t)' BY <1>3 DEF Spender
<1>7. jobs'[j].pc = "settle" /\ Announced(jobs'[j].entry, t) => Explained(t)
  BY <1>2, <1>3 DEF HandsOK, HandOK
<1>8. QED BY <1>3, <1>4, <1>5, <1>6, <1>7, UndisturbedKeeps

\* The run that spends the token goes on; what holds of it is shown where it does.
LEMMA SpenderKeeps ==
  ASSUME TokenRefreshAssumption, Sound, NEW t \in Tokens, NEW j \in Jobs, Spender(j, t),
         Spender(j, t)', Others(j), LandOK(t)', HomeOK(t)', EndsOK(j, t)', CarriesOK(j, t)',
         \A k \in Jobs \ {j} : EndsOK(k, t)'
  PROVE  KeepOK(t)'
<1>1. HandsOK(t)' BY DEF HandsOK, HandOK, Explained
<1>2. ASSUME NEW k \in Jobs PROVE EndsOK(k, t)' /\ CarriesOK(k, t)'
  <2>1. CASE k = j BY <2>1
  <2>2. CASE k # j
    <3>1. ~Spender(k, t) /\ jobs'[k] = jobs[k] BY <2>2, OneSpender DEF Sound, Others
    <3>2. CarriesOK(k, t)' BY <3>1 DEF CarriesOK, Spender
    <3>3. QED BY <2>2, <3>2
  <2>3. QED BY <2>1, <2>2
<1>3. QED BY <1>1, <1>2 DEF KeepOK

\* What a CLI in the directory of another token leaves, and what it brings in its own.
LEMMA AnswerElsewhere ==
  ASSUME IInv, NEW t \in Tokens, NEW d \in Profiles \X Tokens, d[2] # t, NEW home,
         Idles \/ (\E answered : Spends(d, home, answered)) \/ Refused(d, home)
  PROVE  successor'[t] = successor[t] /\ (t \in delivered' => t \in delivered)
BY DEF Idles, Spends, Refused, IInv, LoginsOK

LEMMA NewlyDelivered ==
  ASSUME IInv, NEW d \in Profiles \X Tokens, d[2] \in delivered', d[2] \notin delivered, NEW home,
         Idles \/ (\E answered : Spends(d, home, answered)) \/ Refused(d, home)
  PROVE  home /\ temps'[d] = successor'[d[2]]
<1>1. ~Idles /\ ~Refused(d, home) BY DEF Idles, Refused
<1>2. PICK answered : Spends(d, home, answered) BY <1>1
<1>3. home /\ Writes(d, issued + 1) /\ successor' = [successor EXCEPT ![d[2]] = issued + 1]
  BY <1>2 DEF Spends
<1>4. QED BY <1>3 DEF Writes, IInv, DirsOK, LoginsOK

\* Nothing was sent for the token: a run that may clear its entry has the verdict.
LEMMA EndsUnsent ==
  ASSUME NEW t \in Tokens, NEW k \in Jobs, EndsOK(k, t), sent[t] = 0, saved' = saved,
         jobs'[k] = jobs[k]
  PROVE  EndsOK(k, t)'
BY DEF EndsOK

LEMMA KeepCliEnds ==
  ASSUME TokenRefreshAssumption, Shaped, Sound, Sound', NEW j \in Jobs, NEW t \in Tokens,
         SpentOK(t), KeepOK(t), CliEnds(j)
  PROVE  KeepOK(t)'
<1>0. /\ IInv /\ Trace /\ jobs[j] \in Run /\ Job(j) = jobs[j]
      /\ jobs[j].exit = "running" /\ jobs[j].token \in Tokens
  BY DEF Sound, IInv, RunsOK, Job, CliEnds, RunOK, LoginsOK
<1>p. PICK p \in Profiles : p = jobs[j].profile BY <1>0 DEF Run
<1>d. PICK d \in Profiles \X Tokens : d = <<p, jobs[j].token>> BY <1>0
<1>1. jobs[j].spends /\ jobs[j].pc \in {"note", "wait"} /\ Dir(j) = d
  BY <1>0, <1>p, <1>d DEF Trace, RunsTrace, ShapeOK, Dir
<1>2. UNCHANGED <<stored, state, saved, rescues, pending, strays, backlog>> BY DEF CliEnds
<1>3. Idles \/ (\E answered : Spends(d, TRUE, answered)) \/ Refused(d, TRUE)
  BY <1>1 DEF CliEnds
<1>4. PICK how : Turns(j, jobs[j].pc, jobs[j].spends, how, jobs[j].entry, jobs[j].rotated)
  <2>1. PICK how : Exits(j, how) BY DEF CliEnds
  <2>2. QED BY <1>0, <2>1, TurnsRunning
<1>5. CASE jobs[j].token # t
  <2>1. d[2] # t BY <1>5, <1>d
  <2>2. /\ sent'[t] = sent[t]
        /\ \A q \in Profiles : temps'[<<q, t>>] = temps[<<q, t>>]
    BY <1>0, <1>3, <2>1, OtherAnswer
  <2>3. successor'[t] = successor[t] /\ (t \in delivered' => t \in delivered)
    BY <1>0, <1>3, <2>1, AnswerElsewhere
  <2>4. SentSame(t) /\ PlacesSame(t) BY <1>2, <2>2, <2>3 DEF SentSame, PlacesSame
  <2>5. FilesSame(t) BY <1>2, <2>3, FilesUnchanged
  <2>6. Undisturbed(t)
    BY <1>2, <2>4, <2>5, SlotsUnchanged, HoldersUnchanged, HandsUnchanged
       DEF Undisturbed, PendingSame
  <2>7. QED BY <1>4, <1>5, <2>6, OtherRunKeeps DEF Turns
<1>6. CASE jobs[j].token = t
  <2>1. d = <<p, t>> /\ d[2] = t BY <1>6, <1>d
  <2>2. /\ Spender(j, t) /\ Spender(j, t)' /\ Others(j) /\ jobs'[j].pc = jobs[j].pc
        /\ jobs'[j].profile = p
    BY <1>1, <1>4, <1>6, <1>p DEF Turns, Spender
  <2>3. SpenderOK(j, t) /\ CarriesOK(j, t) /\ \A k \in Jobs : EndsOK(k, t)
    BY DEF SpentOK, KeepOK
  <2>4. Quiet(t) /\ Names(state.journal[p], t) /\ Names(saved.journal[p], t)
    BY <1>0, <1>p, <2>2, <2>3 DEF SpenderOK
  <2>5. Early(state.journal[p]) /\ Early(saved.journal[p])
    BY <1>1, <1>p, <2>2, <2>3 DEF CarriesOK
  <2>6. LandOK(t)'
    <3>1. SUFFICES ASSUME t \in delivered' PROVE LeadsTo(p, t)' BY DEF LandOK
    <3>2. t \notin delivered BY <2>4 DEF Quiet, Shaped, DeliveredSent
    <3>3. temps'[<<p, t>>] = successor'[t] BY <1>0, <1>3, <2>1, <3>1, <3>2, NewlyDelivered
    <3>4. InDir(p, t)' BY <3>3 DEF InDir
    <3>5. QED BY <1>2, <2>4, <2>5, <3>4 DEF LeadsTo, Names, Open, Early
  <2>7. HomeOK(t)' BY <1>2, <2>4 DEF HomeOK, Quiet
  <2>8. EndsOK(j, t)' BY <1>1, <2>2 DEF EndsOK
  <2>9. CarriesOK(j, t)' BY <1>1, <1>2, <2>2, <2>5 DEF CarriesOK, Early
  <2>10. ASSUME NEW k \in Jobs \ {j} PROVE EndsOK(k, t)'
    <3>1. jobs'[k] = jobs[k] BY <2>2 DEF Others
    <3>2. QED BY <1>2, <2>3, <2>4, <3>1, EndsUnsent DEF Quiet
  <2>11. QED BY <2>2, <2>6, <2>7, <2>8, <2>9, <2>10, SpenderKeeps
<1>7. QED BY <1>5, <1>6

LEMMA KeepTimesOut ==
  ASSUME TokenRefreshAssumption, Shaped, Sound, Sound', NEW j \in Jobs, NEW t \in Tokens,
         SpentOK(t), KeepOK(t), TimesOut(j)
  PROVE  KeepOK(t)'
<1>0. /\ IInv /\ Trace /\ jobs[j] \in Run /\ Job(j) = jobs[j]
      /\ jobs[j].exit = "running" /\ jobs[j].pc = "wait" /\ jobs[j].spends
      /\ jobs[j].token \in Tokens
  BY DEF Sound, IInv, LoginsOK, RunsOK, RunOK, Job, TimesOut, At, Trace, RunsTrace, ShapeOK
<1>p. PICK p \in Profiles : p = jobs[j].profile BY <1>0 DEF Run
<1>d. PICK d \in Profiles \X Tokens : d = <<p, jobs[j].token>> BY <1>0
<1>1. Dir(j) = d BY <1>0, <1>p, <1>d DEF Dir
<1>2. UNCHANGED <<stored, state, saved, rescues, pending, temps, backlog, sent, successor, delivered>>
  BY DEF TimesOut, disk, history
<1>3. Turns(j, "wait", jobs[j].spends, "failed", jobs[j].entry, jobs[j].rotated)
  BY <1>0, TurnsRunning DEF TimesOut
<1>4. \A e \in Profiles \X Tokens \ {d} : strays'[e] = strays[e]
  BY <1>0, <1>1 DEF TimesOut, IInv, DirsOK
<1>5. CASE jobs[j].token # t
  <2>1. \A q \in Profiles : strays'[<<q, t>>] = strays[<<q, t>>] BY <1>4, <1>5, <1>d
  <2>2. SentSame(t) /\ PlacesSame(t) BY <1>2, <2>1 DEF SentSame, PlacesSame
  <2>3. Undisturbed(t)
    BY <1>2, <2>2, SlotsUnchanged, HoldersUnchanged, HandsUnchanged, FilesUnchanged
       DEF Undisturbed, PendingSame
  <2>4. QED BY <1>3, <1>5, <2>3, OtherRunKeeps DEF Turns
<1>6. CASE jobs[j].token = t
  <2>1. d = <<p, t>> BY <1>6, <1>d
  <2>2. /\ Spender(j, t) /\ Spender(j, t)' /\ Others(j) /\ jobs'[j].pc = "wait"
        /\ jobs'[j].profile = p
    BY <1>0, <1>3, <1>6, <1>p DEF Turns, Spender
  <2>3. SpenderOK(j, t) /\ CarriesOK(j, t) /\ \A k \in Jobs : EndsOK(k, t)
    BY DEF SpentOK, KeepOK
  <2>4. Quiet(t) /\ Names(state.journal[p], t) /\ Names(saved.journal[p], t)
    BY <1>0, <1>p, <2>2, <2>3 DEF SpenderOK
  <2>5. Early(state.journal[p]) /\ Early(saved.journal[p])
    BY <1>0, <1>p, <2>2, <2>3 DEF CarriesOK
  <2>6. LandOK(t)' BY <1>2, <2>4 DEF LandOK, Quiet, Shaped, DeliveredSent
  <2>7. HomeOK(t)'
    <3>1. SUFFICES ASSUME NEW q \in Profiles, strays'[<<q, t>>] = "home" PROVE EarlyAt(q, t)'
      BY DEF HomeOK
    <3>2. strays[<<q, t>>] = "none" BY <2>4 DEF Quiet
    <3>3. q = p BY <1>4, <2>1, <3>1, <3>2
    <3>4. QED BY <1>2, <2>4, <2>5, <3>3 DEF EarlyAt, Names, Open, Early
  <2>8. EndsOK(j, t)' BY <2>2 DEF EndsOK
  <2>9. CarriesOK(j, t)' BY <1>2, <2>2, <2>5 DEF CarriesOK, Early
  <2>10. ASSUME NEW k \in Jobs \ {j} PROVE EndsOK(k, t)'
    <3>1. jobs'[k] = jobs[k] BY <2>2 DEF Others
    <3>2. QED BY <1>2, <2>3, <2>4, <3>1, EndsUnsent DEF Quiet
  <2>11. QED BY <2>2, <2>6, <2>7, <2>8, <2>9, <2>10, SpenderKeeps
<1>7. QED BY <1>5, <1>6

LEMMA KeepStrayEnds ==
  ASSUME TokenRefreshAssumption, Shaped, Shaped', Sound, Sound', NEW d \in Profiles \X Tokens,
         NEW t \in Tokens, SpentOK(t), KeepOK(t), StrayEnds(d)
  PROVE  KeepOK(t)'
<1>0. /\ IInv /\ Trace /\ Trace' /\ strays[d] # "none"
  BY DEF Sound, StrayEnds
<1>1. UNCHANGED <<stored, state, saved, rescues, pending, backlog, jobs>> BY DEF StrayEnds, memory
<1>2. PICK home \in BOOLEAN :
        /\ home <=> strays[d] = "home"
        /\ Idles \/ (\E answered : Spends(d, home, answered)) \/ Refused(d, home)
  BY DEF StrayEnds
<1>3. strays' = [strays EXCEPT ![d] = "none"] BY DEF StrayEnds
<1>4. CASE d[2] # t
  <2>1. /\ sent'[t] = sent[t]
        /\ \A q \in Profiles : temps'[<<q, t>>] = temps[<<q, t>>]
    BY <1>0, <1>2, <1>4, OtherAnswer
  <2>2. successor'[t] = successor[t] /\ (t \in delivered' => t \in delivered)
    BY <1>0, <1>2, <1>4, AnswerElsewhere
  <2>3. \A q \in Profiles : strays'[<<q, t>>] = strays[<<q, t>>]
    BY <1>0, <1>3, <1>4 DEF IInv, DirsOK
  <2>4. SentSame(t) /\ PlacesSame(t) BY <2>1, <2>2, <2>3 DEF SentSame, PlacesSame
  <2>5. FilesSame(t) BY <1>1, <2>2, FilesUnchanged
  <2>6. Undisturbed(t)
    BY <1>1, <2>4, <2>5, SlotsUnchanged, HoldersUnchanged, HandsUnchanged
       DEF Undisturbed, PendingSame
  <2>7. QED BY <1>1, <2>6, SteadyRunsKeep
<1>5. CASE d[2] = t
  <2>p. PICK p \in Profiles : d = <<p, t>> BY <1>5
  <2>0. OnceOK(t) /\ HomeOK(t) /\ HandsOK(t) /\ \A k \in Jobs : EndsOK(k, t) /\ CarriesOK(k, t)
    BY DEF SpentOK, KeepOK
  <2>1. ~Quiet(t) BY <1>0, <2>p DEF Quiet
  <2>2. sent[t] \in Nat /\ sent'[t] \in Nat BY <1>0 DEF Trace, LoginsTrace
  <2>3. sent[t] = 0 BY <1>0, <2>0, <2>p, <2>2 DEF OnceOK
  <2>4. t \notin delivered BY <2>3 DEF Shaped, DeliveredSent
  <2>5. \A q \in Profiles : strays'[<<q, t>>] = "none"
    <3>1. ASSUME NEW q \in Profiles PROVE strays'[<<q, t>>] = "none"
      <4>1. CASE q = p BY <1>0, <1>3, <2>p, <4>1 DEF IInv, DirsOK
      <4>2. CASE q # p
        <5>1. strays[<<q, t>>] = "none" BY <1>0, <2>0, <2>p, <4>2 DEF OnceOK
        <5>2. QED BY <1>0, <1>3, <5>1 DEF IInv, DirsOK
      <4>3. QED BY <4>1, <4>2
    <3>2. QED BY <3>1
  <2>6. Holders(t)' = Holders(t) BY <1>1 DEF Holders
  <2>7. t \in delivered' => strays[d] = "home" /\ temps'[<<p, t>>] = successor'[t] /\ ~Quiet(t)'
    <3>1. SUFFICES ASSUME t \in delivered'
                   PROVE  strays[d] = "home" /\ temps'[<<p, t>>] = successor'[t] /\ ~Quiet(t)'
      OBVIOUS
    <3>2. home /\ temps'[d] = successor'[t] BY <1>0, <1>2, <1>5, <2>4, <3>1, NewlyDelivered
    <3>3. ~Quiet(t)' BY <2>2, <3>1 DEF Shaped, DeliveredSent, Quiet
    <3>4. QED BY <1>2, <2>p, <3>2, <3>3
  <2>8. LandOK(t)'
    <3>1. SUFFICES ASSUME t \in delivered' PROVE Settled(t)' \/ LeadsTo(p, t)' BY DEF LandOK
    <3>2. Settled(t) \/ EarlyAt(p, t) BY <2>0, <2>7, <2>p, <3>1 DEF HomeOK
    <3>3. CASE Settled(t) BY <1>1, <2>6, <2>7, <3>1, <3>3 DEF Settled
    <3>4. CASE EarlyAt(p, t)
      <4>1. InDir(p, t)' BY <2>7, <3>1 DEF InDir
      <4>2. QED BY <1>1, <3>4, <4>1 DEF EarlyAt, LeadsTo, Names, Open, Early
    <3>5. QED BY <3>2, <3>3, <3>4
  <2>9. HomeOK(t)' BY <2>5 DEF HomeOK
  <2>10. Explained(t) => Explained(t)'
    <3>1. CASE Settled(t) BY <1>1, <2>6, <3>1 DEF Settled, Explained
    <3>2. CASE Dead(t)
      <4>1. t \notin delivered' BY <2>7, <2>p, <3>2 DEF Dead
      <4>2. Dead(t)' BY <1>1, <2>5, <3>2, <4>1 DEF Dead
      <4>3. QED BY <4>2 DEF Explained
    <3>3. CASE pending[t] # NoToken BY <1>1, <3>3 DEF Explained
    <3>4. CASE \E k \in Jobs : Spender(k, t) BY <1>1, <3>4 DEF Explained, Spender
    <3>5. QED BY <2>1, <3>1, <3>2, <3>3, <3>4 DEF Explained
  <2>11. HandsOK(t)' BY <1>1, <2>0, <2>10 DEF HandsOK, HandOK, Announced
  <2>12. ASSUME NEW k \in Jobs PROVE EndsOK(k, t)' /\ CarriesOK(k, t)'
    <3>1. EndsOK(k, t)' BY <1>1, <2>0, <2>3, EndsUnsent
    <3>2. SUFFICES ASSUME Spender(k, t)' PROVE CarriesOK(k, t)' BY <3>1 DEF CarriesOK
    <3>3. Spender(k, t) BY <1>1, <3>2 DEF Spender
    <3>4. jobs[k].pc \notin {"mark", "list", "commit"}
      <4>1. SUFFICES ASSUME jobs[k].pc \in {"mark", "list", "commit"} PROVE FALSE OBVIOUS
      <4>2. jobs[k].rotated # NoToken BY <1>0, <4>1 DEF Trace, RunsTrace, ShapeOK
      <4>3. sent[t] > 0 BY <1>0, <3>3, <4>2, RotatedSent DEF Spender
      <4>4. QED BY <2>3, <4>3
    <3>5. CarriesOK(k, t) BY <2>0
    <3>6. QED BY <1>1, <3>3, <3>4, <3>5 DEF CarriesOK, Early
  <2>13. QED BY <2>8, <2>9, <2>11, <2>12 DEF KeepOK
<1>6. QED BY <1>4, <1>5

-----------------------------------------------------------------------------
(* What the CLI left, and the end of a run.                                *)

LEMMA KeepClassifying ==
  ASSUME TokenRefreshAssumption, Shaped, Shaped', Sound, Sound', NEW j \in Jobs,
         NEW t \in Tokens \ exposed', SpentOK(t), KeepOK(t),
         FindRotated(j) \/ FindUnsent(j) \/ FindSpent(j) \/ Clear(j)
  PROVE  KeepOK(t)'
<1> DEFINE u == jobs[j].token
<1>0. /\ IInv /\ Trace /\ Order /\ jobs[j] \in Run /\ Job(j) = jobs[j] /\ ShapeOK(jobs[j])
      /\ RotatedOK(jobs[j], successor)
  BY DEF Sound, IInv, RunsOK, Job, Trace, RunsTrace
<1>1. UNCHANGED <<stored, backlog, sent, successor, delivered>>
  BY DEF FindRotated, FindUnsent, FindSpent, Clear, disk, world, history
<1>2. SpenderOK(j, t) /\ EndsOK(j, t) /\ CarriesOK(j, t) BY DEF SpentOK, KeepOK
<1>d. OwnDir(j) \subseteq {Dir(j)} BY DEF OwnDir
<1>3. CASE FindRotated(j)
  <2>1. UNCHANGED <<stored, state, saved, rescues, pending, temps, strays, sent, successor,
                    delivered>>
    BY <1>1, <1>3 DEF FindRotated, disk, world
  <2>2. jobs[j].pc = "wait" /\ jobs[j].spends BY <1>0, <1>3 DEF FindRotated, Ended, At, ShapeOK
  <2>3. Undisturbed(t) BY <1>1, <2>1, HandsUnchanged, UndisturbedSteady
  <2>4. PICK s : Turns(j, "rescue", jobs[j].spends, jobs[j].exit, jobs[j].entry, s)
    BY <1>0, <1>3, TurnsSettling DEF FindRotated
  <2>5. CASE u # t BY <2>3, <2>4, <2>5, OtherRunKeeps DEF Turns
  <2>6. CASE u = t
    <3>1. /\ Others(j) /\ Spender(j, t) /\ Spender(j, t)' /\ jobs'[j].pc = "rescue"
          /\ jobs'[j].profile = jobs[j].profile
      BY <2>2, <2>4, <2>6 DEF Turns, Spender
    <3>2. EndsOK(j, t)' BY <3>1 DEF EndsOK
    <3>3. CarriesOK(j, t)' BY <1>0, <1>2, <2>2, <2>3, <3>1, CarriesSame
    <3>4. QED BY <2>3, <3>1, <3>2, <3>3, UndisturbedKeeps
  <2>7. QED BY <2>5, <2>6
<1>4. CASE FindUnsent(j)
  <2>1. /\ ClearJournal(j, OwnDir(j)) /\ UNCHANGED <<rescues, pending>> /\ jobs[j].pc = "wait"
        /\ Advanced(Dir(j)) = NoToken /\ jobs[j].exit \in {"unsent", "clean"}
    BY <1>0, <1>4 DEF FindUnsent, Ended, At, Unsent
  <2>2. FilesSame(t) /\ PendingSame(t) BY <1>1, <2>1, FilesUnchanged DEF PendingSame
  <2>3. CASE u # t BY <1>0, <1>1, <1>d, <2>1, <2>2, <2>3, KeepClearOther
  <2>4. CASE u = t
    <3>1. Spender(j, t) BY <1>0, <2>1, <2>4 DEF ShapeOK, Spender
    <3>2. PICK d : d = <<jobs[j].profile, t>> OBVIOUS
    <3>3. jobs[j].exit # "clean"
      <4>1. SUFFICES ASSUME jobs[j].exit = "clean" PROVE FALSE OBVIOUS
      <4>2. temps[d] \in Tokens \ {t} BY <1>2, <2>1, <3>1, <3>2, <4>1 DEF SpenderOK
      <4>3. d[2] = t /\ Dir(j) = d BY <1>0, <2>4, <3>2 DEF Dir
      <4>4. Advanced(d) # NoToken BY <4>2, <4>3, Numbers DEF Advanced
      <4>5. QED BY <2>1, <4>3, <4>4
    <3>4. Quiet(t) BY <1>2, <2>1, <3>1, <3>3 DEF SpenderOK
    <3>5. QED BY <1>0, <1>1, <2>1, <2>4, <3>4, KeepClearOwn
  <2>5. QED BY <2>3, <2>4
<1>5. CASE FindSpent(j)
  <2>1. /\ Judge(j) /\ jobs[j].pc = "wait" /\ jobs[j].exit # "running"
        /\ UNCHANGED <<rescues, pending>> /\ Advanced(Dir(j)) = NoToken
    BY <1>0, <1>5 DEF FindSpent, Ended, At
  <2>2. QED BY <1>1, <2>1, KeepJudged
<1>6. CASE Clear(j)
  <2>1. ClearJournal(j, OwnDir(j)) /\ jobs[j].pc = "clear" BY <1>0, <1>6 DEF Clear, At
  <2>2. CASE u = t
    <3>1. sent[t] > 0 => ~Quiet(t) BY <1>0 DEF Trace, LoginsTrace, Quiet
    <3>2. Settled(t) BY <1>2, <2>1, <2>2, <3>1 DEF EndsOK, Settled
    <3>3. QED BY <1>0, <1>1, <2>1, <2>2, <3>2, KeepClearOwn
  <2>3. CASE u # t
    <3>1. pending'[t] = pending[t]
      BY <1>0, <1>6, <2>3 DEF Clear, DropPending, IInv, LoginsOK
    <3>2. ASSUME NEW q \in Profiles, Held(rescues[q], OwnFile(successor[t]))
          PROVE  Held(rescues'[q], OwnFile(successor[t]))
      <4>1. successor[t] # NoToken BY <3>2, FiledIssued
      <4>2. jobs[j].rotated # successor[t]
        BY <1>0, <2>3, <4>1 DEF RotatedOK, Shaped, OneParent
      <4>3. PICK f : f = [token |-> jobs[j].rotated, own |-> TRUE] OBVIOUS
      <4>4. f # OwnFile(successor[t]) BY <4>2, <4>3 DEF OwnFile
      <4>5. rescues \in [Profiles -> Seq(Rescue)] BY DEF Shaped, FilesTyped
      <4>6. rescues'[q] \in {rescues[q], Without(rescues[q], f)}
        BY <1>0, <1>6, <4>3, <4>5 DEF Clear
      <4>7. rescues[q] \in Seq(Rescue) BY <4>5
      <4>8. Held(Without(rescues[q], f), OwnFile(successor[t]))
        BY <3>2, <4>4, <4>7, DeletedFile
      <4>9. QED BY <3>2, <4>6, <4>8
    <3>3. FilesSame(t) BY <1>1, <3>1, <3>2, FilesStay
    <3>4. PendingSame(t) BY <3>1 DEF PendingSame
    <3>5. QED BY <1>0, <1>1, <1>d, <2>1, <2>3, <3>3, <3>4, KeepClearOther
  <2>4. QED BY <2>2, <2>3
<1>7. QED BY <1>3, <1>4, <1>5, <1>6

-----------------------------------------------------------------------------
(* commitRotated.                                                          *)

LEMMA MarksMade ==
  ASSUME RunsOK, NEW j \in Jobs, NEW pc
  PROVE  /\ Becomes(j, [jobs[j] EXCEPT !.pc = pc]) => Marks(j, jobs[j].rescued, jobs[j].keep)
         /\ Becomes(j, [jobs[j] EXCEPT !.pc = pc, !.rescued = TRUE]) => Marks(j, TRUE, jobs[j].keep)
         /\ Becomes(j, [jobs[j] EXCEPT !.pc = pc, !.keep = TRUE]) => Marks(j, jobs[j].rescued, TRUE)
<1>0. jobs[j] \in Run BY DEF RunsOK
<1>1. ASSUME NEW run, NEW rescued, NEW keep, Becomes(j, run), run.rescued = rescued, run.keep = keep
      PROVE  Marks(j, rescued, keep)
  <2>1. jobs'[j] = run BY <1>1 DEF Becomes, RunsOK
  <2>2. QED BY <1>1, <2>1 DEF Marks
<1>2. Becomes(j, [jobs[j] EXCEPT !.pc = pc]) => Marks(j, jobs[j].rescued, jobs[j].keep)
  <2> DEFINE run == [jobs[j] EXCEPT !.pc = pc]
  <2>1. run.rescued = jobs[j].rescued /\ run.keep = jobs[j].keep BY <1>0 DEF Run
  <2> HIDE DEF run
  <2>2. Becomes(j, run) => Marks(j, jobs[j].rescued, jobs[j].keep) BY <1>1, <2>1
  <2>3. QED BY <2>2 DEF run
<1>3. Becomes(j, [jobs[j] EXCEPT !.pc = pc, !.rescued = TRUE]) => Marks(j, TRUE, jobs[j].keep)
  <2> DEFINE run == [jobs[j] EXCEPT !.pc = pc, !.rescued = TRUE]
  <2>1. run.rescued = TRUE /\ run.keep = jobs[j].keep BY <1>0 DEF Run
  <2> HIDE DEF run
  <2>2. Becomes(j, run) => Marks(j, TRUE, jobs[j].keep) BY <1>1, <2>1
  <2>3. QED BY <2>2 DEF run
<1>4. Becomes(j, [jobs[j] EXCEPT !.pc = pc, !.keep = TRUE]) => Marks(j, jobs[j].rescued, TRUE)
  <2> DEFINE run == [jobs[j] EXCEPT !.pc = pc, !.keep = TRUE]
  <2>1. run.rescued = jobs[j].rescued /\ run.keep = TRUE BY <1>0 DEF Run
  <2> HIDE DEF run
  <2>2. Becomes(j, run) => Marks(j, jobs[j].rescued, TRUE) BY <1>1, <2>1
  <2>3. QED BY <2>2 DEF run
<1>5. QED BY <1>2, <1>3, <1>4

\* The rescue file, which may fail.
LEMMA KeepWriteRescue ==
  ASSUME TokenRefreshAssumption, RoomForRescues, Shaped, Sound, Sound', NEW j \in Jobs,
         NEW t \in Tokens, SpentOK(t), KeepOK(t), WriteRescue(j)
  PROVE  KeepOK(t)'
<1> DEFINE u == jobs[j].token
           s == jobs[j].rotated
<1>0. /\ IInv /\ Trace /\ jobs[j] \in Run /\ Job(j) = jobs[j] /\ RunsOK
      /\ jobs[j].pc = "rescue" /\ jobs[j].spends /\ s # NoToken /\ u \in Tokens
      /\ s = successor[u] /\ s \in Tokens
  BY DEF Sound, IInv, RunsOK, Job, Trace, RunsTrace, ShapeOK, RotatedOK, WriteRescue, At, Run
<1>p. PICK p \in Profiles : p = jobs[j].profile BY <1>0 DEF Run
<1>1. UNCHANGED <<stored, state, saved, temps, strays, sent, successor, delivered, backlog>>
  BY DEF WriteRescue, world, history
<1>2. ~jobs[j].rescued /\ ~jobs[j].keep BY <1>0 DEF Shaped, RunsShaped
<1>3. pending' = [pending EXCEPT ![u] = s] BY <1>0 DEF WriteRescue, HoldPending
<1>4. pending'[t] \in {pending[t], successor[t]} /\ (u = t => pending'[t] = successor[t])
  BY <1>0, <1>3 DEF IInv, LoginsOK
<1>5. \/ AddRescue(p, s, TRUE) /\ Marks(j, TRUE, jobs[j].keep)
      \/ UNCHANGED rescues /\ Marks(j, jobs[j].rescued, TRUE)
  BY <1>0, <1>p, MarksMade DEF WriteRescue
<1>6. AddRescue(p, s, TRUE) /\ MaxStops # 0 =>
        /\ Held(rescues'[p], OwnFile(s))
        /\ \A q \in Profiles : \A g : Held(rescues[q], g) => Held(rescues'[q], g)
  <2> HIDE DEF s
  <2>1. QED BY <1>0, FilesAdded DEF OwnFile
<1>7. FilesSame(t) BY <1>1, <1>4, <1>5, <1>6, FilesStay
<1>8. PendingSame(t) BY <1>0, <1>3 DEF PendingSame, IInv, LoginsOK
<1>9. Undisturbed(t)
  BY <1>1, <1>7, <1>8, SlotsUnchanged, PlacesUnchanged, DirsUnchanged, HoldersUnchanged,
     HandsUnchanged DEF Undisturbed
<1>10. Moves(j, "mark") BY <1>0, TurnsCommitting
<1>11. CASE u # t BY <1>9, <1>10, <1>11, OtherRunKeeps DEF Moves, Turns
<1>12. CASE u = t
  <2>1. /\ Others(j) /\ Spender(j, t) /\ Spender(j, t)' /\ jobs'[j].pc = "mark"
        /\ jobs'[j].profile = p
    BY <1>0, <1>10, <1>12, <1>p DEF Moves, Turns, Spender
  <2>2. EndsOK(j, t)' BY <2>1 DEF EndsOK
  <2>3. Early(state.journal[p]) /\ Early(saved.journal[p])
    BY <1>0, <1>p, <2>1 DEF KeepOK, CarriesOK
  <2>4. IF jobs'[j].rescued THEN Filed(p, t)' ELSE jobs'[j].keep
    <3>1. CASE AddRescue(p, s, TRUE) /\ Marks(j, TRUE, jobs[j].keep)
      <4>1. Filed(p, t)'
        <5>1. CASE MaxStops = 0 BY <1>1, <1>4, <1>12, <5>1 DEF Filed
        <5>2. CASE MaxStops # 0
          <6>1. Held(rescues'[p], OwnFile(successor[t])) BY <1>0, <1>6, <1>12, <3>1, <5>2
          <6>2. QED BY <1>1, <5>2, <6>1 DEF Filed, Held, OwnFile
        <5>3. QED BY <5>1, <5>2
      <4>2. QED BY <3>1, <4>1, Zenon DEF Marks
    <3>2. CASE Marks(j, jobs[j].rescued, TRUE) BY <1>2, <3>2, Zenon DEF Marks
    <3>3. QED BY <1>5, <3>1, <3>2
  <2>5. Early(state'.journal[p]) /\ Early(saved'.journal[p]) BY <1>1, <2>3 DEF Early
  <2>6. CarriesOK(j, t)' BY <2>1, <2>4, <2>5, Zenon DEF CarriesOK
  <2>7. QED BY <1>9, <2>1, <2>2, <2>6, UndisturbedKeeps
<1>13. QED BY <1>11, <1>12

\* The entry says "rotated": with the rescue file it needs no directory any more.
LEMMA KeepMark ==
  ASSUME TokenRefreshAssumption, Shaped, Sound, Sound', NEW j \in Jobs,
         NEW t \in Tokens \ exposed', SpentOK(t), KeepOK(t), Mark(j)
  PROVE  KeepOK(t)'
<1> DEFINE u == jobs[j].token
<1>0. /\ IInv /\ Trace /\ jobs[j] \in Run /\ Job(j) = jobs[j] /\ RunsOK
      /\ jobs[j].pc = "mark" /\ jobs[j].spends /\ jobs[j].rotated # NoToken /\ u \in Tokens
  BY DEF Sound, IInv, RunsOK, Job, Trace, RunsTrace, ShapeOK, RotatedOK, Mark, At
<1>p. PICK p \in Profiles : p = jobs[j].profile BY <1>0 DEF Run
<1>1. UNCHANGED <<stored, rescues, temps, strays, pending, sent, successor, delivered, backlog>>
  BY DEF Mark, world
<1>e. PICK e : e = [phase |-> "rotated", token |-> u, rescue |-> jobs[j].rescued,
                    temp |-> ~jobs[j].rescued]
  OBVIOUS
<1>2. \/ Save(SetEntry(p, e)) /\ Marks(j, jobs[j].rescued, jobs[j].keep)
      \/ SaveFails(SetEntry(p, e)) /\ Marks(j, jobs[j].rescued, TRUE)
  <2>1. \/ Save(SetEntry(p, e)) /\ Becomes(j, [jobs[j] EXCEPT !.pc = "list"])
        \/ SaveFails(SetEntry(p, e)) /\ Becomes(j, [jobs[j] EXCEPT !.pc = "list", !.keep = TRUE])
    BY <1>0, <1>p, <1>e DEF Mark, GoTo
  <2>2. QED BY <1>0, <2>1, MarksMade
<1>3. t \notin Displaced(p, u) BY <1>0, <1>p DEF Mark
<1>4. e.token = u /\ e.phase = "rotated" BY <1>e
<1>5. (e.rescue <=> jobs[j].rescued) /\ (e.temp <=> ~jobs[j].rescued) BY <1>e
<1>6. /\ SentSame(t) /\ HoldersSame(t) /\ FilesSame(t) /\ PlacesSame(t) /\ HandsSame(t)
      /\ PendingSame(t)
  BY <1>1, DirsUnchanged, HoldersUnchanged, FilesUnchanged, PlacesUnchanged, HandsUnchanged
     DEF PendingSame
<1>7. Moves(j, "list") BY <1>0, TurnsCommitting
<1>8. CASE u # t
  <2>1. SlotsSame(t) BY <1>0, <1>2, <1>3, <1>4, <1>8, SlotsOfOther DEF IInv
  <2>2. Undisturbed(t) BY <1>6, <2>1 DEF Undisturbed
  <2>3. QED BY <1>7, <1>8, <2>2, OtherRunKeeps DEF Moves, Turns
<1>9. CASE u = t
  <2>1. /\ Others(j) /\ Spender(j, t) /\ Spender(j, t)' /\ jobs'[j].pc = "list"
        /\ jobs'[j].profile = p
    BY <1>0, <1>7, <1>9, <1>p DEF Moves, Turns, Spender
  <2>2. /\ Names(state.journal[p], t) /\ Names(saved.journal[p], t) /\ OneSlot(state, t)
    BY <1>p, <2>1 DEF SpentOK, RecordOK, SpenderOK
  <2>3. /\ Early(state.journal[p]) /\ Early(saved.journal[p])
        /\ IF jobs[j].rescued THEN Filed(p, t) \/ Settled(t) ELSE jobs[j].keep
    BY <1>0, <1>p, <2>1 DEF KeepOK, CarriesOK
  <2>4. /\ state'.verdicts = state.verdicts /\ saved' \in {saved, state'}
        /\ state'.journal[p] = e
    BY <1>0, <1>2, EntryChanged DEF IInv
  <2>5. Names(e, t) BY <1>4, <1>9 DEF Names, Open
  <2>6. \A q \in Profiles : strays[<<q, t>>] = "none" BY <1>0, <1>9, RotatedSent
  <2>7. Settled(t) => Settled(t)' BY <1>6, <2>4, SettledSame
  <2>8. Filed(p, t) => Filed(p, t)' \/ Settled(t)' BY <1>6 DEF FilesSame
  <2>9. LandOK(t)'
    <3>1. SUFFICES ASSUME t \in delivered', ~Settled(t)' PROVE LeadsTo(p, t)' BY DEF LandOK
    <3>2. ~Settled(t) /\ t \in delivered BY <1>1, <2>7, <3>1
    <3>3. PICK q \in Profiles : LeadsTo(q, t) BY <3>2 DEF KeepOK, LandOK
    <3>4. q = p BY <2>2, <3>3 DEF OneSlot, LeadsTo
    <3>5. InDir(p, t) BY <2>3, <3>3, <3>4, Zenon DEF LeadsTo, Early
    <3>6. InDir(p, t)' BY <1>1, <3>5 DEF InDir
    <3>7. jobs[j].rescued => Filed(p, t)' BY <2>3, <2>8, <3>1, <3>2
    <3>8. (e.temp /\ InDir(p, t)') \/ (e.rescue /\ Filed(p, t)') BY <1>5, <3>6, <3>7
    <3>9. CASE saved' = saved
      <4>1. Names(saved'.journal[p], t) /\ saved'.journal[p].temp
        BY <2>2, <2>3, <3>9, Zenon DEF Early
      <4>2. QED BY <2>4, <2>5, <3>6, <3>8, <4>1, Zenon DEF LeadsTo
    <3>10. CASE saved' = state' BY <2>4, <2>5, <3>8, <3>10, Zenon DEF LeadsTo
    <3>11. QED BY <2>4, <3>9, <3>10
  <2>10. HomeOK(t)' BY <1>1, <2>6 DEF HomeOK
  <2>11. EndsOK(j, t)' BY <2>1 DEF EndsOK
  <2>12. CarriesOK(j, t)'
    <3>1. ~jobs'[j].keep =>
            Settled(t)' \/ (state'.journal[p].rescue /\ saved'.journal[p].rescue /\ Filed(p, t)')
      <4>1. CASE Save(SetEntry(p, e)) /\ Marks(j, jobs[j].rescued, jobs[j].keep)
        <5>1. jobs'[j].keep <=> jobs[j].keep BY <4>1 DEF Marks
        <5>2. saved'.journal[p] = e BY <2>4, <4>1 DEF Save
        <5>3. QED BY <1>5, <2>3, <2>4, <2>7, <2>8, <5>1, <5>2, Zenon
      <4>2. CASE Marks(j, jobs[j].rescued, TRUE) BY <4>2, Zenon DEF Marks
      <4>3. QED BY <1>2, <4>1, <4>2
    <3>2. QED BY <2>1, <3>1, Zenon DEF CarriesOK
  <2>13. ASSUME NEW k \in Jobs \ {j} PROVE EndsOK(k, t)'
    <3>1. jobs'[k] = jobs[k] BY <2>1 DEF Others
    <3>2. QED BY <1>0, <1>6, <2>4, <3>1, EndsSame DEF KeepOK
  <2>14. QED BY <2>1, <2>9, <2>10, <2>11, <2>12, <2>13, SpenderKeeps
<1>10. QED BY <1>8, <1>9

\* The profiles are taken one by one: nothing that leads to the login changes.
LEMMA CommittingKeeps ==
  ASSUME TokenRefreshAssumption, Shaped, Sound, Sound', NEW j \in Jobs, NEW t \in Tokens,
         SpentOK(t), KeepOK(t), Undisturbed(t), jobs[j].pc \in {"list", "commit"},
         Moves(j, "commit"), Marks(j, jobs[j].rescued, jobs[j].keep)
  PROVE  KeepOK(t)'
<1>0. /\ Others(j) /\ jobs'[j].token = jobs[j].token /\ jobs'[j].profile = jobs[j].profile
      /\ jobs'[j].pc = "commit" /\ jobs'[j].spends = jobs[j].spends
  BY DEF Moves, Turns
<1>1. CASE jobs[j].token # t BY <1>0, <1>1, OtherRunKeeps
<1>2. CASE ~jobs[j].spends BY <1>0, <1>2, SparingRunKeeps
<1>3. CASE Spender(j, t)
  <2>1. Spender(j, t)' BY <1>0, <1>3 DEF Spender
  <2>2. IInv /\ SpenderOK(j, t) /\ CarriesOK(j, t) BY DEF Sound, SpentOK, KeepOK
  <2>3. jobs'[j].keep <=> jobs[j].keep BY DEF Marks
  <2>4. CarriesOK(j, t)' BY <1>0, <1>3, <2>2, <2>3, CarriesSame
  <2>5. EndsOK(j, t)' BY <1>0 DEF EndsOK
  <2>6. QED BY <1>0, <2>1, <2>4, <2>5, UndisturbedKeeps
<1>4. QED BY <1>1, <1>2, <1>3 DEF Spender

LEMMA KeepCommit ==
  ASSUME TokenRefreshAssumption, RoomForRescues, Shaped, Sound, Sound', NEW j \in Jobs,
         NEW t \in Tokens \ exposed', SpentOK(t), KeepOK(t), List(j) \/ CommitOne(j)
  PROVE  KeepOK(t)'
<1> DEFINE u == jobs[j].token
           s == jobs[j].rotated
<1>0. /\ IInv /\ Trace /\ jobs[j] \in Run /\ Job(j) = jobs[j] /\ s # NoToken /\ s \in Tokens
      /\ jobs[j].pc \in {"list", "commit"}
  BY DEF Sound, IInv, RunsOK, Job, Trace, RunsTrace, ShapeOK, List, CommitOne, At, Run
<1>1. /\ Moves(j, "commit") /\ Marks(j, jobs[j].rescued, jobs[j].keep)
  BY <1>0, TurnsCommitting, MarksSame
<1>2. CASE List(j)
  <2>1. /\ UNCHANGED <<stored, state, saved, rescues, pending, temps, strays, sent, successor,
                       delivered>>
        /\ UNCHANGED backlog
    BY <1>2 DEF List, disk, world, history
  <2>2. Undisturbed(t) BY <2>1, HandsUnchanged, UndisturbedSteady
  <2>3. QED BY <1>0, <1>1, <2>2, CommittingKeeps
<1>3. CASE CommitOne(j)
  <2>1. UNCHANGED <<state, saved, pending, temps, strays, sent, successor, delivered, backlog>>
    BY <1>3 DEF CommitOne, world
  <2>2. \/ UNCHANGED rescues
        \/ \E p \in Profiles : AddRescue(p, s, FALSE)
    BY <1>0, <1>3 DEF CommitOne, Run
  <2>3. MaxStops # 0 =>
          \A q \in Profiles : \A g : Held(rescues[q], g) => Held(rescues'[q], g)
    <3> HIDE DEF s
    <3>1. QED BY <1>0, <2>2, FilesAdded
  <2>4. FilesSame(t) BY <2>1, <2>3, FilesStay
  <2>5. \/ UNCHANGED stored
        \/ /\ \E q \in Profiles : stored' = [stored EXCEPT ![q] = s]
           /\ t = s => ~Touched(t)
    <3>1. \A o \in jobs[j].todo : Receivers(o, u) \subseteq Profiles
      BY <1>0 DEF Receivers, Holders, Run
    <3>2. QED BY <1>0, <1>3, <3>1 DEF CommitOne
  <2>6. HoldersSame(t)
    <3>1. t = s /\ ~Touched(t) => Quiet(t) BY <1>0, QuietOrTouched
    <3>2. \A q \in Profiles : stored'[q] = t => stored[q] = t \/ Quiet(t)
      BY <1>0, <2>5, <3>1 DEF IInv, LoginsOK
    <3>3. QED BY <3>2, HoldersFewer
  <2>7. Undisturbed(t)
    BY <2>1, <2>4, <2>6, SlotsUnchanged, PlacesUnchanged, DirsUnchanged, HandsUnchanged
       DEF Undisturbed, PendingSame
  <2>8. QED BY <1>0, <1>1, <2>7, CommittingKeeps
<1>4. QED BY <1>2, <1>3

\* A profile is left that could not be written: the login stays in memory.
LEMMA KeepFinishPartly ==
  ASSUME TokenRefreshAssumption, Shaped, Sound, Sound', NEW j \in Jobs, NEW t \in Tokens,
         SpentOK(t), KeepOK(t), FinishPartly(j)
  PROVE  KeepOK(t)'
<1> DEFINE u == jobs[j].token
           s == jobs[j].rotated
<1>0. /\ IInv /\ Trace /\ Order /\ jobs[j] \in Run /\ Job(j) = jobs[j]
      /\ jobs[j].pc = "commit" /\ s # NoToken /\ u \in Tokens /\ s = successor[u]
  BY DEF Sound, IInv, RunsOK, Job, Trace, RunsTrace, ShapeOK, RotatedOK, FinishPartly, At
<1>p. PICK p \in Profiles : p = jobs[j].profile BY <1>0 DEF Run
<1>1. /\ UNCHANGED <<stored, state, saved, rescues, sent, successor, delivered, backlog>>
      /\ Forget(OwnDir(j)) /\ pending' = [pending EXCEPT ![u] = s]
  BY <1>0 DEF FinishPartly, HoldPending, history
<1>2. Quits(j) BY <1>0, TurnsCommitting
<1>3. /\ pending'[t] \in {pending[t], successor[t]} /\ (u = t => pending'[t] # NoToken)
      /\ PendingSame(t)
  BY <1>0, <1>1 DEF IInv, LoginsOK, PendingSame
<1>4. /\ SentSame(t) /\ HoldersSame(t) /\ SlotsSame(t) /\ FilesSame(t) /\ HandsSame(t)
  BY <1>0, <1>1, <1>3, ForgetSent, HoldersUnchanged, SlotsUnchanged, FilesUnchanged,
     HandsUnchanged
<1>5. ASSUME \A q \in Profiles : <<q, t>> \notin OwnDir(j) PROVE Undisturbed(t)
  <2>1. PlacesSame(t) BY <1>0, <1>1, <1>5, PlacesForgotten
  <2>2. QED BY <1>3, <1>4, <2>1 DEF Undisturbed
<1>6. CASE ~Spender(j, t)
  <2>1. \A q \in Profiles : <<q, t>> \notin OwnDir(j)
    BY <1>0, <1>6 DEF OwnDir, Dir, Spender
  <2>2. QED BY <1>2, <1>5, <1>6, <2>1, OtherRunKeeps
<1>7. CASE Spender(j, t)
  <2>1. /\ u = t /\ \A q \in Profiles : strays[<<q, t>>] = "none"
    BY <1>0, <1>7, RotatedSent DEF Spender
  <2>2. /\ Names(state.journal[p], t) /\ Names(saved.journal[p], t)
        /\ LandOK(t) /\ HomeOK(t) /\ CarriesOK(j, t) /\ \A k \in Jobs : EndsOK(k, t)
    BY <1>p, <1>7 DEF SpentOK, SpenderOK, KeepOK
  <2>3. LandOK(t)'
    <3>1. CASE jobs[j].keep
      <4>1. OwnDir(j) = {} BY <1>0, <3>1 DEF OwnDir
      <4>2. QED BY <1>5, <2>2, <4>1, UndisturbedLand
    <3>2. CASE ~jobs[j].keep
      <4>1. Settled(t) \/ (state.journal[p].rescue /\ saved.journal[p].rescue /\ Filed(p, t))
        BY <1>0, <1>p, <1>7, <2>2, <3>2 DEF CarriesOK
      <4>2. CASE Settled(t)
        <5>1. Settled(t)' BY <1>1, <1>4, <4>2, SettledSame
        <5>2. QED BY <5>1 DEF LandOK
      <4>3. CASE ~Settled(t)
        <5>1. Filed(p, t)' \/ Settled(t)' BY <1>4, <4>1, <4>3 DEF FilesSame
        <5>2. CASE Settled(t)' BY <5>2 DEF LandOK
        <5>3. CASE Filed(p, t)'
          <6>1. /\ Names(state'.journal[p], t) /\ Names(saved'.journal[p], t)
                /\ state'.journal[p].rescue /\ saved'.journal[p].rescue
            BY <1>1, <2>2, <4>1, <4>3 DEF Names, Open
          <6>2. LeadsTo(p, t)' BY <5>3, <6>1, Zenon DEF LeadsTo
          <6>3. QED BY <6>2 DEF LandOK
        <5>4. QED BY <5>1, <5>2, <5>3
      <4>4. QED BY <4>2, <4>3
    <3>3. QED BY <3>1, <3>2
  <2>4. HomeOK(t)' BY <1>4, <2>1 DEF HomeOK, SentSame
  <2>5. HandsOK(t)' BY <1>3, <2>1 DEF HandsOK, HandOK, Explained
  <2>6. ASSUME NEW k \in Jobs PROVE EndsOK(k, t)' /\ CarriesOK(k, t)'
    <3>1. CASE k = j
      <4>1. jobs'[k].token # t BY <1>2, <3>1, Numbers DEF Quits, Idle
      <4>2. QED BY <4>1 DEF EndsOK, CarriesOK, Spender
    <3>2. CASE k # j
      <4>1. jobs'[k] = jobs[k] /\ ~Spender(k, t)
        BY <1>0, <1>2, <1>7, <3>2, OneSpender DEF Quits, Others
      <4>2. CarriesOK(k, t)' BY <4>1 DEF CarriesOK, Spender
      <4>3. EndsOK(k, t)' BY <1>0, <1>1, <1>4, <2>2, <4>1, EndsSame
      <4>4. QED BY <4>2, <4>3
    <3>3. QED BY <3>1, <3>2
  <2>7. QED BY <2>3, <2>4, <2>5, <2>6 DEF KeepOK
<1>8. QED BY <1>6, <1>7

\* Nobody holds the spent token any more.
LEMMA KeepFinish ==
  ASSUME TokenRefreshAssumption, Shaped, Sound, Sound', NEW j \in Jobs, NEW t \in Tokens,
         SpentOK(t), KeepOK(t), Finish(j)
  PROVE  KeepOK(t)'
<1>0. /\ IInv /\ Trace /\ jobs[j] \in Run /\ Job(j) = jobs[j]
      /\ jobs[j].pc = "commit" /\ jobs[j].rotated # NoToken /\ Holders(jobs[j].token) = {}
  BY DEF Sound, IInv, RunsOK, Job, Trace, RunsTrace, ShapeOK, Finish, At
<1>1. /\ UNCHANGED <<stored, state, saved, rescues, pending, temps, strays, sent, successor,
                     delivered>>
      /\ UNCHANGED backlog
  BY DEF Finish, disk, world, history
<1>2. Undisturbed(t) BY <1>1, HandsUnchanged, UndisturbedSteady
<1>3. Moves(j, "clear") BY <1>0, TurnsCommitting
<1>4. CASE jobs[j].token # t BY <1>2, <1>3, <1>4, OtherRunKeeps DEF Moves, Turns
<1>5. CASE jobs[j].token = t
  <2>1. /\ Others(j) /\ jobs'[j].pc = "clear" /\ (Spender(j, t) => Spender(j, t)')
    BY <1>3, <1>5 DEF Moves, Turns, Spender
  <2>2. Holders(t)' = {} /\ sent'[t] > 0
    <3>1. sent[t] > 0 BY <1>0, <1>5, RotatedSent DEF Sound
    <3>2. QED BY <1>0, <1>1, <1>5, <3>1 DEF Holders
  <2>3. EndsOK(j, t)' BY <2>2 DEF EndsOK
  <2>4. CarriesOK(j, t)' BY <2>1 DEF CarriesOK
  <2>5. QED BY <1>2, <2>1, <2>3, <2>4, UndisturbedKeeps
<1>6. QED BY <1>4, <1>5

-----------------------------------------------------------------------------
(* Settling an entry, the surroundings, and a stop.                        *)

LEMMA KeepSettling ==
  ASSUME TokenRefreshAssumption, Shaped, Shaped', Sound, Sound', NEW j \in Jobs,
         NEW t \in Tokens \ exposed', SpentOK(t), KeepOK(t),
         SettleGone(j) \/ SettleRotated(j) \/ SettleUnsent(j) \/ SettleUnknown(j)
  PROVE  KeepOK(t)'
<1> DEFINE u == jobs[j].token
<1>0. /\ IInv /\ Trace /\ Order /\ jobs[j] \in Run /\ Job(j) = jobs[j]
      /\ ShapeOK(jobs[j]) /\ RunOK(jobs[j], launched) /\ jobs[j].pc = "settle"
      /\ UNCHANGED <<stored, rescues, backlog, sent, successor, delivered>>
  BY DEF Sound, IInv, RunsOK, Job, Trace, RunsTrace, At, SettleGone, SettleRotated,
         SettleUnsent, SettleUnknown, Settling, history, world
<1>1. ~jobs[j].spends /\ jobs[j].exit # "running" BY <1>0 DEF ShapeOK
<1>2. ASSUME ClearJournal(j, {}), u # t, pending'[t] = pending[t] PROVE KeepOK(t)'
  <2>1. FilesSame(t) /\ PendingSame(t) BY <1>0, <1>2, FilesUnchanged DEF PendingSame
  <2>2. {} \subseteq {Dir(j)} OBVIOUS
  <2>3. QED BY <1>0, <1>2, <2>1, <2>2, KeepClearOther
<1>3. ASSUME ClearJournal(j, {}), u = t, Quiet(t) \/ Settled(t) \/ Dead(t) PROVE KeepOK(t)'
  BY <1>0, <1>3, KeepClearOwn
<1>4. CASE SettleGone(j)
  <2>1. ClearJournal(j, {}) /\ Holders(u) = {} /\ DropPending(u)
    BY <1>0, <1>4 DEF SettleGone
  <2>2. u # t => pending'[t] = pending[t] BY <1>0, <2>1 DEF DropPending, IInv, LoginsOK
  <2>3. u = t => Quiet(t) \/ Settled(t) BY <2>1 DEF Settled
  <2>4. QED BY <1>2, <1>3, <2>1, <2>2, <2>3
<1>5. CASE SettleRotated(j)
  <2>1. UNCHANGED <<state, saved, pending, temps, strays>> BY <1>5 DEF SettleRotated, world
  <2>2. PICK s : Turns(j, "list", jobs[j].spends, jobs[j].exit, jobs[j].entry, s)
    BY <1>0, <1>5, TurnsSettling DEF SettleRotated
  <2>3. Undisturbed(t) BY <1>0, <2>1, HandsUnchanged, UndisturbedSteady
  <2>4. Others(j) /\ jobs'[j].pc = "list" /\ ~jobs'[j].spends BY <1>1, <2>2 DEF Turns
  <2>5. QED BY <1>1, <2>3, <2>4, SparingRunKeeps
<1>6. CASE SettleUnsent(j)
  <2>1. ClearJournal(j, {}) /\ UNCHANGED pending BY <1>6 DEF SettleUnsent
  <2>2. CASE u = t
    <3>1. PICK e : e = jobs[j].entry OBVIOUS
    <3>2. PICK p : p = jobs[j].profile OBVIOUS
    <3>3. e.token = t /\ e.phase = "spending" BY <1>0, <1>6, <2>2, <3>1 DEF RunOK, SettleUnsent
    <3>4. Explained(t) BY <1>0, <3>1, <3>3 DEF KeepOK, HandsOK, HandOK, Announced
    <3>5. pending[t] = NoToken
      <4>1. Recovered(e, p) = NoToken BY <1>0, <1>6, <3>1, <3>2 DEF SettleUnsent, NotFound
      <4>2. NoToken \notin Tokens BY Numbers
      <4>3. QED BY <3>3, <4>1, <4>2 DEF Recovered
    <3>6. \A k \in Jobs : ~Spender(k, t)
      <4>1. ~InFlight(t, j) BY <1>0, <2>1, <2>2 DEF ClearJournal
      <4>2. QED BY <1>1, <4>1 DEF InFlight, Spender, Job
    <3>7. QED BY <1>3, <2>1, <2>2, <3>4, <3>5, <3>6 DEF Explained
  <2>3. QED BY <1>2, <2>1, <2>2
<1>7. CASE SettleUnknown(j)
  <2>1. Judge(j) /\ UNCHANGED pending BY <1>7 DEF SettleUnknown
  <2>2. QED BY <1>0, <1>1, <2>1, KeepJudged DEF Spender
<1>8. QED BY <1>4, <1>5, <1>6, <1>7

\* A job that was idle takes up a run.
LEMMA BeginKeeps ==
  ASSUME TokenRefreshAssumption, Shaped, Sound, Sound', NEW j \in Jobs, jobs[j].pc = "idle", NEW run,
         Becomes(j, run), run.spends = FALSE, run.pc \in {"lock", "look", "settle"},
         NEW t \in Tokens, SpentOK(t), KeepOK(t), Undisturbed(t),
         run.pc = "settle" /\ Announced(run.entry, t) => Explained(t)
  PROVE  KeepOK(t)'
<1>1. Others(j) /\ jobs'[j] = run BY DEF Becomes, Others, Sound, IInv, RunsOK
<1>2. ~jobs[j].spends BY DEF Sound, Trace, RunsTrace, ShapeOK
<1>3. QED BY <1>1, <1>2, SparingRunKeeps

LEMMA KeepSurroundings ==
  ASSUME TokenRefreshAssumption, Shaped, Sound, Sound', NEW t \in Tokens \ exposed', SpentOK(t),
         KeepOK(t),
         \/ Bootstrap \/ Toggle \/ UNCHANGED vars
         \/ \E p \in Profiles : Due(p) \/ Recover(p) \/ Login(p) \/ Remove(p)
         \/ \E h \in Handlers, p \in Profiles : Incoming(h, p)
  PROVE  KeepOK(t)'
<1>0. /\ IInv /\ Trace /\ Order /\ Ticker \in Jobs /\ Handlers \subseteq Jobs
  BY DEF Sound, Jobs
<1>1. CASE Toggle \/ UNCHANGED vars
  <2>1. /\ UNCHANGED <<stored, state, saved, rescues, pending, temps, strays, sent, successor,
                       delivered>>
        /\ UNCHANGED <<backlog, jobs>>
    BY <1>1 DEF Toggle, vars, disk, memory, world, history
  <2>2. QED BY <2>1, HandsUnchanged, UndisturbedSteady, SteadyRunsKeep
<1>2. CASE Bootstrap
  <2>1. /\ UNCHANGED <<stored, state, saved, rescues, pending, temps, strays, sent, successor,
                       delivered>>
        /\ UNCHANGED jobs /\ backlog' = state.journal
    BY <1>2 DEF Bootstrap, disk, world, history
  <2>2. HandsSame(t)
    <3>1. ASSUME NEW p \in Profiles, Announced(backlog'[p], t) PROVE Explained(t)
      <4>1. Announced(state.journal[p], t) BY <2>1, <3>1
      <4>2. QED BY <1>0, <4>1, AnnouncedExplained DEF SpentOK
    <3>2. QED BY <3>1 DEF HandsSame
  <2>3. QED BY <2>1, <2>2, UndisturbedSteady, SteadyRunsKeep
<1>3. ASSUME NEW p \in Profiles, Due(p) PROVE KeepOK(t)'
  <2>1. PICK run : run = [Idle EXCEPT !.pc = "lock", !.profile = p, !.token = stored[p]] OBVIOUS
  <2>2. Becomes(Ticker, run) /\ jobs[Ticker].pc = "idle"
    BY <1>3, <2>1 DEF Due, At
  <2>3. /\ UNCHANGED <<stored, state, saved, rescues, pending, temps, strays, sent, successor,
                       delivered>>
        /\ UNCHANGED backlog
    BY <1>3 DEF Due, disk, world, history
  <2>4. run.pc = "lock" /\ run.spends = FALSE BY <2>1 DEF Idle
  <2>5. Undisturbed(t) BY <2>3, HandsUnchanged, UndisturbedSteady
  <2>6. QED BY <1>0, <2>2, <2>4, <2>5, BeginKeeps
<1>4. ASSUME NEW h \in Handlers, NEW p \in Profiles, Incoming(h, p) PROVE KeepOK(t)'
  <2>1. PICK run : run = [Idle EXCEPT !.pc = "look", !.profile = p, !.token = stored[p]] OBVIOUS
  <2>2. Becomes(h, run) /\ jobs[h].pc = "idle"
    BY <1>4, <2>1 DEF Incoming, At
  <2>3. /\ UNCHANGED <<stored, state, saved, rescues, pending, temps, strays, sent, successor,
                       delivered>>
        /\ UNCHANGED backlog
    BY <1>4 DEF Incoming, disk, world, history
  <2>4. run.pc = "look" /\ run.spends = FALSE BY <2>1 DEF Idle
  <2>5. Undisturbed(t) BY <2>3, HandsUnchanged, UndisturbedSteady
  <2>6. QED BY <1>0, <2>2, <2>4, <2>5, BeginKeeps
<1>5. ASSUME NEW p \in Profiles, Recover(p) PROVE KeepOK(t)'
  <2>0. PICK e : e = backlog[p] OBVIOUS
  <2>1. PICK run : run = [Idle EXCEPT !.pc = "settle", !.profile = p, !.token = e.token, !.entry = e]
    OBVIOUS
  <2>2. Becomes(Ticker, run) /\ jobs[Ticker].pc = "idle" BY <1>5, <2>0, <2>1, Zenon DEF Recover, At
  <2>3. /\ UNCHANGED <<stored, state, saved, rescues, pending, temps, strays, sent, successor,
                       delivered>>
        /\ backlog' = [backlog EXCEPT ![p] = NoEntry]
    BY <1>5 DEF Recover, disk, world, history
  <2>4. run.pc = "settle" /\ run.spends = FALSE /\ run.entry = e BY <2>1 DEF Idle
  <2>5. Announced(e, t) => Explained(t) BY <2>0 DEF KeepOK, HandsOK
  <2>6. HandsSame(t)
    <3>1. ~Announced(NoEntry, t) BY DEF NoEntry, Announced
    <3>2. ASSUME NEW q \in Profiles PROVE backlog'[q] = backlog[q] \/ backlog'[q] = NoEntry
      BY <1>0, <2>3 DEF IInv, BacklogOK
    <3>3. QED BY <3>1, <3>2 DEF HandsSame
  <2>7. Undisturbed(t) BY <2>3, <2>6, UndisturbedSteady
  <2>8. QED BY <1>0, <2>2, <2>4, <2>5, <2>7, BeginKeeps
<1>6. ASSUME NEW p \in Profiles, Login(p) \/ Remove(p) PROVE KeepOK(t)'
  <2>1. UNCHANGED <<state, saved, pending, temps, strays, sent, successor, delivered, jobs, backlog>>
    BY <1>6 DEF Login, Remove, memory, world, history
  <2>2. \A q \in Profiles : stored'[q] \in {stored[q], NoToken, issued + 1}
    BY <1>0, <1>6 DEF Login, Remove, IInv, LoginsOK
  <2>3. t = issued + 1 => Quiet(t)
    <3>1. SUFFICES ASSUME t = issued + 1 PROVE Quiet(t) OBVIOUS
    <3>2. issued \in Int /\ ~(t <= issued) BY <1>0, <3>1 DEF IInv, LoginsOK
    <3>3. t \notin launched BY <1>0, <3>2 DEF Order, LoginsAge
    <3>4. \A q \in Profiles : strays[<<q, t>>] = "none" BY <1>0, <3>3 DEF IInv, DirsOK
    <3>5. successor[t] = NoToken
      <4>1. successor[t] \in Tokens \cup {NoToken} BY <1>0 DEF IInv, LoginsOK
      <4>2. successor[t] # NoToken => t < successor[t] /\ successor[t] <= issued
        BY <1>0 DEF Order, LoginsAge
      <4>3. t \in Int /\ (successor[t] # NoToken => successor[t] \in Int) BY <4>1, Numbers
      <4>4. QED BY <3>2, <4>2, <4>3
    <3>6. sent[t] = 0 BY <1>0, <3>5 DEF Trace, LoginsTrace
    <3>7. QED BY <3>4, <3>6 DEF Quiet
  <2>4. HoldersSame(t)
    <3>1. t # NoToken BY Numbers
    <3>2. \A q \in Profiles : stored'[q] = t => stored[q] = t \/ Quiet(t) BY <2>2, <2>3, <3>1
    <3>3. QED BY <3>2, HoldersFewer
  <2>5. SentSame(t) BY <2>1 DEF SentSame
  <2>6. FilesSame(t)
    <3>1. CASE Login(p)
      <4>1. UNCHANGED rescues BY <3>1 DEF Login
      <4>2. QED BY <2>1, <4>1, FilesUnchanged
    <3>2. CASE Remove(p)
      <4>1. SUFFICES ASSUME NEW q \in Profiles, Filed(q, t) PROVE Filed(q, t)' \/ Settled(t)'
        BY DEF FilesSame
      <4>2. CASE MaxStops = 0 BY <2>1, <4>1, <4>2 DEF Filed
      <4>3. CASE MaxStops # 0
        <5>1. rescues \in [Profiles -> Seq(Rescue)] BY DEF Shaped, FilesTyped
        <5>2. Held(rescues[q], OwnFile(successor[t])) BY <4>1, <4>3, FiledMeans
        <5>3. CASE q # p
          <6>1. rescues'[q] = rescues[q] BY <3>2, <5>1, <5>3 DEF Remove
          <6>2. QED BY <2>1, <4>3, <5>2, <6>1 DEF Filed, Held, OwnFile
        <5>4. CASE q = p
          <6>1. successor[t] # NoToken BY <5>2, FiledIssued
          <6>2. \E i \in DOMAIN rescues[p] : rescues[p][i].token = successor[t]
            BY <5>2, <5>4 DEF Held, OwnFile
          <6>3. Holders(t) \ {p} = {} BY <3>2, <6>2 DEF Remove
          <6>4. \A o \in Profiles : stored'[o] # t
            <7>1. t # NoToken BY Numbers
            <7>2. QED BY <1>0, <3>2, <6>3, <7>1 DEF Remove, Holders, IInv, LoginsOK
          <6>5. Holders(t)' = {} BY <6>4 DEF Holders
          <6>6. ~Quiet(t)' BY <1>0, <2>1, <6>1 DEF Trace, LoginsTrace, Quiet
          <6>7. QED BY <6>5, <6>6 DEF Settled
        <5>5. QED BY <5>3, <5>4
      <4>4. QED BY <4>2, <4>3
    <3>3. QED BY <1>6, <3>1, <3>2
  <2>7. Undisturbed(t)
    BY <2>1, <2>4, <2>5, <2>6, SlotsUnchanged, PlacesUnchanged, HandsUnchanged
       DEF Undisturbed, PendingSame
  <2>8. QED BY <2>1, <2>7, SteadyRunsKeep
<1>7. QED BY <1>1, <1>2, <1>3, <1>4, <1>5, <1>6

\* What a stop leaves on disk leads to the login.
LEMMA KeepStop ==
  ASSUME TokenRefreshAssumption, Shaped, Sound, Sound', NEW t \in Tokens, SpentOK(t), KeepOK(t),
         Stop
  PROVE  KeepOK(t)'
<1>0. /\ IInv /\ Trace /\ LandOK(t) /\ HomeOK(t)
      /\ \A k \in Jobs : SpenderOK(k, t) /\ CarriesOK(k, t)
  BY DEF Sound, SpentOK, KeepOK
<1>1. /\ state' = saved /\ saved' = saved /\ stored' = stored /\ sent' = sent
      /\ temps' = temps /\ rescues' = rescues /\ successor' = successor /\ delivered' = delivered
      /\ jobs' = [k \in Jobs |-> Idle] /\ backlog' = [p \in Profiles |-> NoEntry]
      /\ MaxStops # 0
  BY DEF Stop, disk, Shaped, FilesTyped
<1>2. \A k \in Jobs : jobs'[k].token # t /\ jobs'[k].pc = "idle" /\ ~jobs'[k].spends
  BY <1>1, Numbers DEF Idle
<1>3. \A p \in Profiles : strays'[<<p, t>>] = "none" => strays[<<p, t>>] = "none"
  BY <1>0 DEF Stop, IInv, DirsOK
<1>4. Settled(t) => Settled(t)'
  <2>1. Holders(t)' = Holders(t) BY <1>1 DEF Holders
  <2>2. ~Quiet(t) => ~Quiet(t)' BY <1>1, <1>3 DEF Quiet
  <2>3. QED BY <1>1, <2>1, <2>2 DEF Settled
<1>5. LandOK(t)'
  <2>1. SUFFICES ASSUME t \in delivered', ~Settled(t)' PROVE \E p \in Profiles : LeadsTo(p, t)'
    BY DEF LandOK
  <2>2. PICK p \in Profiles : LeadsTo(p, t) BY <1>0, <1>1, <1>4, <2>1 DEF LandOK
  <2>3. InDir(p, t)' <=> InDir(p, t) BY <1>1 DEF InDir
  <2>4. Filed(p, t)' <=> Filed(p, t) BY <1>1 DEF Filed
  <2>5. /\ Names(state'.journal[p], t) /\ Names(saved'.journal[p], t)
        /\ state'.journal[p] = saved.journal[p] /\ saved'.journal[p] = saved.journal[p]
    BY <1>1, <2>2 DEF LeadsTo, Names, Open
  <2>6. LeadsTo(p, t)' BY <2>2, <2>3, <2>4, <2>5, Zenon DEF LeadsTo
  <2>7. QED BY <2>6
<1>6. HomeOK(t)'
  <2>1. SUFFICES ASSUME NEW p \in Profiles, strays'[<<p, t>>] = "home"
                 PROVE  Settled(t)' \/ EarlyAt(p, t)'
    BY DEF HomeOK
  <2>2. Settled(t) \/ (Names(saved.journal[p], t) /\ Early(saved.journal[p]))
    <3>1. CASE strays[<<p, t>>] = "home" BY <1>0, <3>1 DEF HomeOK, EarlyAt
    <3>2. CASE strays[<<p, t>>] # "home"
      <4>1. PICK k \in Jobs : Job(k).exit = "running" /\ Dir(k) = <<p, t>>
        BY <1>0, <2>1, <3>2 DEF Stop, IInv, DirsOK
      <4>2. jobs[k].exit = "running" /\ jobs[k].profile = p /\ jobs[k].token = t
        BY <4>1 DEF Job, Dir
      <4>3. Spender(k, t) /\ jobs[k].pc \in {"note", "wait"}
        BY <1>0, <4>2 DEF Spender, Trace, RunsTrace, ShapeOK
      <4>4. QED BY <1>0, <4>2, <4>3 DEF SpenderOK, CarriesOK
    <3>3. QED BY <3>1, <3>2
  <2>3. QED BY <1>1, <1>4, <2>2 DEF EarlyAt, Names, Open, Early
<1>7. HandsOK(t)'
  <2>1. \A p \in Profiles : ~Announced(backlog'[p], t) BY <1>1 DEF Announced, NoEntry
  <2>2. QED BY <1>2, <2>1 DEF HandsOK, HandOK
<1>8. \A k \in Jobs : EndsOK(k, t)' /\ CarriesOK(k, t)' BY <1>2 DEF EndsOK, CarriesOK, Spender
<1>9. QED BY <1>5, <1>6, <1>7, <1>8 DEF KeepOK

-----------------------------------------------------------------------------
(* Every step keeps the shape of entries, files and runs.                  *)

JournalShaped ==
  /\ \A p \in Profiles : EarlyOK(state.journal[p]) /\ EarlyOK(saved.journal[p])
  /\ saved.verdicts \subseteq state.verdicts
BacklogShaped == \A p \in Profiles : EarlyOK(backlog[p])
Later == {"mark", "list", "commit", "clear"}
RunShaped(run) == EarlyOK(run.entry) /\ (run.keep \/ run.rescued => run.pc \in Later)
AllRunsShaped == \A k \in Jobs : RunShaped(jobs[k])
FilesShaped == rescues \in [Profiles -> Seq(Rescue)]
LoginsShaped == stops \in Nat /\ delivered \subseteq Tokens /\ OneParent /\ DeliveredSent

LEMMA ShapedSplit ==
  ASSUME Shaped
  PROVE  JournalShaped /\ BacklogShaped /\ AllRunsShaped /\ FilesShaped /\ LoginsShaped
BY DEF Shaped, EntriesShaped, FilesTyped, RunsShaped, JournalShaped, BacklogShaped, AllRunsShaped,
       RunShaped, FilesShaped, LoginsShaped, Later

LEMMA ShapedJoin ==
  ASSUME JournalShaped', BacklogShaped', AllRunsShaped', FilesShaped', LoginsShaped'
  PROVE  Shaped'
BY DEF Shaped, EntriesShaped, FilesTyped, RunsShaped, JournalShaped, BacklogShaped, AllRunsShaped,
       RunShaped, FilesShaped, LoginsShaped, Later

LEMMA JournalSteady == ASSUME JournalShaped, UNCHANGED <<state, saved>> PROVE JournalShaped'
BY DEF JournalShaped
LEMMA BacklogSteady == ASSUME BacklogShaped, UNCHANGED backlog PROVE BacklogShaped'
BY DEF BacklogShaped
LEMMA RunsSteady == ASSUME AllRunsShaped, UNCHANGED jobs PROVE AllRunsShaped'
BY DEF AllRunsShaped
LEMMA FilesSteady == ASSUME FilesShaped, UNCHANGED rescues PROVE FilesShaped'
BY DEF FilesShaped
LEMMA LoginsSteady ==
  ASSUME LoginsShaped, UNCHANGED <<stops, delivered, successor, sent>> PROVE LoginsShaped'
BY DEF LoginsShaped, OneParent, DeliveredSent

LEMMA NoEntryEarly == EarlyOK(NoEntry)
BY DEF EarlyOK, NoEntry

LEMMA EntryShaped ==
  ASSUME JournalOK, JournalShaped, NEW p \in Profiles, NEW e, EarlyOK(e),
         Save(SetEntry(p, e)) \/ SaveFails(SetEntry(p, e))
  PROVE  JournalShaped'
<1>1. /\ state'.verdicts = state.verdicts /\ saved' \in {saved, state'}
      /\ state'.journal[p] = e
      /\ \A q \in Profiles \ {p} : state'.journal[q] = state.journal[q]
  BY EntryChanged
<1>2. ASSUME NEW q \in Profiles PROVE EarlyOK(state'.journal[q])
  <2>1. state'.journal[q] \in {e, state.journal[q]} BY <1>1
  <2>2. EarlyOK(state.journal[q]) BY DEF JournalShaped
  <2>3. CASE state'.journal[q] = e BY <2>3
  <2>4. CASE state'.journal[q] = state.journal[q] BY <2>2, <2>4
  <2>5. QED BY <2>1, <2>3, <2>4
<1>3. CASE saved' = saved BY <1>1, <1>2, <1>3 DEF JournalShaped
<1>4. CASE saved' = state' BY <1>2, <1>4 DEF JournalShaped
<1>5. QED BY <1>1, <1>3, <1>4

LEMMA VerdictShaped ==
  ASSUME JournalOK, JournalShaped, NEW u, Save(SetVerdict(u)) \/ SaveFails(SetVerdict(u))
  PROVE  JournalShaped'
<1>1. state \in RefreshState BY DEF JournalOK, StateOK
<1>2. state' = SetVerdict(u) /\ saved' \in {saved, state'} BY DEF Save, SaveFails
<1>3. state'.journal = state.journal /\ state'.verdicts = state.verdicts \cup {u}
  BY <1>1, <1>2 DEF SetVerdict, RefreshState
<1>4. CASE saved' = saved BY <1>3, <1>4 DEF JournalShaped
<1>5. CASE saved' = state' BY <1>3, <1>5 DEF JournalShaped
<1>6. QED BY <1>2, <1>4, <1>5

LEMMA OneRunShaped ==
  ASSUME AllRunsShaped, NEW j \in Jobs, Others(j), RunShaped(jobs'[j]) PROVE AllRunsShaped'
<1>1. ASSUME NEW k \in Jobs PROVE RunShaped(jobs'[k])
  <2>1. CASE k = j BY <2>1
  <2>2. CASE k # j
    <3>1. jobs'[k] = jobs[k] BY <2>2 DEF Others
    <3>2. RunShaped(jobs[k]) BY DEF AllRunsShaped
    <3>3. QED BY <3>1, <3>2
  <2>3. QED BY <2>1, <2>2
<1>2. QED BY <1>1 DEF AllRunsShaped

LEMMA IdleShaped == RunShaped(Idle)
BY NoEntryEarly DEF RunShaped, Idle

LEMMA QuitShaped == ASSUME AllRunsShaped, NEW j \in Jobs, Quits(j) PROVE AllRunsShaped'
BY IdleShaped, OneRunShaped DEF Quits

\* A run goes on: to where it may have noted something, or with nothing noted.
LEMMA TurnShaped ==
  ASSUME AllRunsShaped, NEW j \in Jobs, NEW pc, NEW spends, NEW exit, NEW entry, NEW rotated,
         Turns(j, pc, spends, exit, entry, rotated), EarlyOK(entry),
         \/ pc \in Later
         \/ Marks(j, jobs[j].rescued, jobs[j].keep) /\ (jobs[j].pc \in Later => pc \in Later)
  PROVE  AllRunsShaped'
<1>1. Others(j) /\ jobs'[j].pc = pc /\ jobs'[j].entry = entry BY DEF Turns
<1>2. RunShaped(jobs[j]) BY DEF AllRunsShaped
<1>3. jobs'[j].keep \/ jobs'[j].rescued => pc \in Later
  BY <1>2, Zenon DEF RunShaped, Marks
<1>4. RunShaped(jobs'[j]) BY <1>1, <1>3 DEF RunShaped
<1>5. QED BY <1>1, <1>4, OneRunShaped

LEMMA MoveShaped ==
  ASSUME AllRunsShaped, NEW j \in Jobs, NEW pc, Moves(j, pc), pc \in Later PROVE AllRunsShaped'
<1>1. EarlyOK(jobs[j].entry) BY DEF AllRunsShaped, RunShaped
<1>2. QED BY <1>1, TurnShaped DEF Moves

LEMMA ClearShaped ==
  ASSUME IInv, JournalShaped, AllRunsShaped, NEW j \in Jobs, NEW dirs, ClearJournal(j, dirs)
  PROVE  JournalShaped' /\ AllRunsShaped'
<1>p. PICK p \in Profiles : p = jobs[j].profile BY DEF IInv, RunsOK, Run
<1>1. Save(SetEntry(p, NoEntry)) \/ SaveFails(SetEntry(p, NoEntry)) BY <1>p DEF ClearJournal, Job
<1>2. JournalShaped' BY <1>1, NoEntryEarly, EntryShaped DEF IInv
<1>3. Quits(j) BY Quit DEF ClearJournal, IInv
<1>4. QED BY <1>2, <1>3, QuitShaped

LEMMA JudgeShaped ==
  ASSUME TokenRefreshAssumption, IInv, JournalShaped, AllRunsShaped, NEW j \in Jobs, Judge(j)
  PROVE  JournalShaped' /\ AllRunsShaped'
<1>1. JournalShaped' BY TurnsJudged, VerdictShaped DEF IInv
<1>2. AllRunsShaped' BY TurnsJudged, QuitShaped, MoveShaped DEF Later
<1>3. QED BY <1>1, <1>2

-----------------------------------------------------------------------------
(* So do the steps of the jobs, and the surroundings.                      *)

LEMMA MarksPreparing ==
  ASSUME TokenRefreshAssumption, IInv, NEW j \in Jobs
  PROVE  /\ Acquire(j) => Quits(j) \/ Marks(j, jobs[j].rescued, jobs[j].keep)
         /\ SettleLeftover(j) => Marks(j, jobs[j].rescued, jobs[j].keep)
         /\ Journal(j) => Quits(j) \/ Marks(j, jobs[j].rescued, jobs[j].keep)
<1>0. jobs[j] \in Run /\ Job(j) = jobs[j] /\ RunsOK BY DEF IInv, RunsOK, Job
<1>1. ASSUME NEW run, Becomes(j, run), run.rescued = jobs[j].rescued, run.keep = jobs[j].keep
      PROVE  Marks(j, jobs[j].rescued, jobs[j].keep)
  <2>1. jobs'[j] = run BY <1>0, <1>1 DEF Becomes, RunsOK
  <2>2. QED BY <1>1, <2>1 DEF Marks
<1>2. ASSUME Acquire(j) PROVE Quits(j) \/ Marks(j, jobs[j].rescued, jobs[j].keep)
  <2>1. Leave(j) \/ Becomes(j, [jobs[j] EXCEPT !.pc = "look"]) BY <1>0, <1>2 DEF Acquire, GoTo
  <2>2. QED BY <1>0, <2>1, Quit, MarksMade
<1>3. ASSUME SettleLeftover(j) PROVE Marks(j, jobs[j].rescued, jobs[j].keep)
  <2>1. PICK e : Becomes(j, [jobs[j] EXCEPT !.pc = "settle", !.entry = e])
    BY <1>0, <1>3 DEF SettleLeftover
  <2>2. PICK run : run = [jobs[j] EXCEPT !.pc = "settle", !.entry = e] OBVIOUS
  <2>3. run.rescued = jobs[j].rescued /\ run.keep = jobs[j].keep BY <1>0, <2>2 DEF Run
  <2>4. QED BY <1>1, <2>1, <2>2, <2>3
<1>4. ASSUME Journal(j) PROVE Quits(j) \/ Marks(j, jobs[j].rescued, jobs[j].keep)
  <2>1. PICK run : run = [jobs[j] EXCEPT !.pc = "launch", !.spends = TRUE] OBVIOUS
  <2>2. Leave(j) \/ Becomes(j, run) BY <1>0, <1>4, <2>1 DEF Journal
  <2>3. run.rescued = jobs[j].rescued /\ run.keep = jobs[j].keep BY <1>0, <2>1 DEF Run
  <2>4. QED BY <1>0, <1>1, <2>2, <2>3, Quit
<1>5. QED BY <1>2, <1>3, <1>4

\* Of the parts, most steps change only the runs.
LEMMA OnlyRunsShaped ==
  ASSUME Shaped, AllRunsShaped',
         UNCHANGED <<state, saved, rescues, backlog, stops, delivered, successor, sent>>
  PROVE  Shaped'
BY ShapedSplit, ShapedJoin, JournalSteady, BacklogSteady, FilesSteady, LoginsSteady

LEMMA ShapedPreparing ==
  ASSUME TokenRefreshAssumption, IInv, Shaped, NEW j \in Jobs,
         Acquire(j) \/ SettleLeftover(j) \/ Abandon(j) \/ Journal(j)
  PROVE  Shaped'
<1>0. /\ jobs[j].pc \in {"lock", "look"} /\ jobs[j].profile \in Profiles /\ Job(j) = jobs[j]
      /\ JournalShaped /\ AllRunsShaped
  BY ShapedSplit DEF Acquire, SettleLeftover, Abandon, Journal, At, Job, IInv, RunsOK, Run
<1>1. EarlyOK(jobs[j].entry) /\ jobs[j].pc \notin Later
  BY <1>0 DEF AllRunsShaped, RunShaped, Later
<1>2. EarlyOK(state.journal[jobs[j].profile]) BY <1>0 DEF JournalShaped
<1>3. AllRunsShaped'
  <2>1. CASE Quits(j) BY <1>0, <2>1, QuitShaped
  <2>2. CASE ~Quits(j)
    <3>1. Marks(j, jobs[j].rescued, jobs[j].keep) BY <2>2, MarksPreparing, TurnsPreparing
    <3>2. CASE Moves(j, "look") BY <1>0, <1>1, <3>1, <3>2, TurnShaped DEF Moves
    <3>3. CASE Turns(j, "settle", jobs[j].spends, jobs[j].exit, state.journal[jobs[j].profile],
                     jobs[j].rotated)
      BY <1>0, <1>1, <1>2, <3>1, <3>3, TurnShaped
    <3>4. CASE Turns(j, "launch", TRUE, jobs[j].exit, jobs[j].entry, jobs[j].rotated)
      BY <1>0, <1>1, <3>1, <3>4, TurnShaped
    <3>5. QED BY <2>2, <3>2, <3>3, <3>4, TurnsPreparing
  <2>3. QED BY <2>1, <2>2
<1>4. CASE Acquire(j) \/ SettleLeftover(j) \/ Abandon(j)
  BY <1>3, <1>4, OnlyRunsShaped DEF Acquire, SettleLeftover, Abandon, disk, world, history
<1>5. CASE Journal(j)
  <2>p. PICK p \in Profiles : p = jobs[j].profile BY <1>0
  <2>1. Save(SetEntry(p, Spending(j))) \/ SaveFails(SetEntry(p, Spending(j)))
    BY <1>0, <1>5, <2>p DEF Journal
  <2>2. EarlyOK(Spending(j)) BY DEF EarlyOK, Early, Spending
  <2>3. JournalShaped' BY <1>0, <2>1, <2>2, EntryShaped DEF IInv
  <2>4. UNCHANGED <<rescues, backlog, stops, delivered, successor, sent>> BY <1>5 DEF Journal
  <2>5. QED BY <1>3, <2>3, <2>4, ShapedSplit, ShapedJoin, BacklogSteady, FilesSteady, LoginsSteady
<1>6. QED BY <1>4, <1>5

LEMMA ShapedRunning ==
  ASSUME TokenRefreshAssumption, IInv, Trace, Shaped, NEW j \in Jobs,
         Launch(j) \/ NoteStarted(j) \/ TimesOut(j) \/ FindRotated(j)
  PROVE  Shaped'
<1>0. /\ jobs[j].pc \in {"launch", "note", "wait"} /\ jobs[j].profile \in Profiles
      /\ Job(j) = jobs[j] /\ JournalShaped /\ AllRunsShaped
  BY ShapedSplit DEF Launch, NoteStarted, TimesOut, FindRotated, Ended, At, Job, IInv, RunsOK, Run
<1>1. EarlyOK(jobs[j].entry) /\ jobs[j].pc \notin Later
  BY <1>0 DEF AllRunsShaped, RunShaped, Later
<1>2. Marks(j, jobs[j].rescued, jobs[j].keep) BY MarksSame
<1>3. AllRunsShaped'
  <2>1. \E pc, exit, rotated : Turns(j, pc, jobs[j].spends, exit, jobs[j].entry, rotated)
    <3>1. CASE Launch(j) BY <3>1, TurnsRunning
    <3>2. CASE NoteStarted(j) BY <3>2, TurnsRunning DEF Moves
    <3>3. CASE TimesOut(j) BY <3>3, TurnsRunning DEF TimesOut
    <3>4. CASE FindRotated(j) BY <1>0, <3>4, TurnsSettling DEF FindRotated
    <3>5. QED BY <3>1, <3>2, <3>3, <3>4
  <2>2. PICK pc, exit, rotated : Turns(j, pc, jobs[j].spends, exit, jobs[j].entry, rotated)
    BY <2>1
  <2>3. QED BY <1>0, <1>1, <1>2, <2>2, TurnShaped
<1>4. CASE Launch(j) \/ TimesOut(j) \/ FindRotated(j)
  BY <1>3, <1>4, OnlyRunsShaped DEF Launch, TimesOut, FindRotated, disk, world, history
<1>5. CASE NoteStarted(j)
  <2> DEFINE e == [Spending(j) EXCEPT !.phase = "started"]
  <2>p. PICK p \in Profiles : p = jobs[j].profile BY <1>0
  <2>1. Save(SetEntry(p, e)) \/ SaveFails(SetEntry(p, e)) BY <1>0, <1>5, <2>p DEF NoteStarted
  <2>2. EarlyOK(e) BY DEF EarlyOK, Early, Spending
  <2> HIDE DEF e
  <2>3. JournalShaped' BY <1>0, <2>1, <2>2, EntryShaped DEF IInv
  <2>4. UNCHANGED <<rescues, backlog, stops, delivered, successor, sent>>
    BY <1>5 DEF NoteStarted, world
  <2>5. QED BY <1>3, <2>3, <2>4, ShapedSplit, ShapedJoin, BacklogSteady, FilesSteady, LoginsSteady
<1>6. QED BY <1>4, <1>5

\* An answer of the provider: the successor is new, and what is delivered was sent.
LEMMA AnswerShaped ==
  ASSUME TokenRefreshAssumption, Sound, LoginsShaped, NEW d \in Profiles \X Tokens, NEW home,
         Idles \/ (\E answered : Spends(d, home, answered)) \/ Refused(d, home),
         UNCHANGED stops
  PROVE  LoginsShaped'
<1>0. /\ sent \in [Tokens -> Nat] /\ successor \in [Tokens -> Tokens \cup {NoToken}]
      /\ issued \in Int /\ d[2] \in Tokens
  BY DEF Sound, Trace, LoginsTrace, IInv, LoginsOK
<1>1. \A t \in Tokens : successor[t] # NoToken => successor[t] <= issued
  BY DEF Sound, Order, LoginsAge
<1>2. CASE Idles BY <1>2, LoginsSteady DEF Idles, LoginsShaped, OneParent, DeliveredSent
<1>3. CASE Refused(d, home)
  <2>1. /\ UNCHANGED <<delivered, successor>> /\ sent' = [sent EXCEPT ![d[2]] = @ + 1]
    BY <1>3 DEF Refused
  <2>2. \A t \in Tokens : sent[t] > 0 => sent'[t] > 0 BY <1>0, <2>1
  <2>3. QED BY <2>1, <2>2 DEF LoginsShaped, OneParent, DeliveredSent
<1>4. CASE \E answered : Spends(d, home, answered)
  <2>1. /\ successor' = [successor EXCEPT ![d[2]] = issued + 1]
        /\ sent' = [sent EXCEPT ![d[2]] = @ + 1] /\ delivered' \subseteq delivered \cup {d[2]}
    BY <1>4 DEF Spends
  <2>2. /\ \A t \in Tokens : sent[t] > 0 => sent'[t] > 0
        /\ sent'[d[2]] > 0
    BY <1>0, <2>1
  <2>3. /\ successor'[d[2]] = issued + 1
        /\ \A t \in Tokens \ {d[2]} : successor'[t] = successor[t]
    BY <1>0, <2>1
  <2>4. OneParent'
    <3> SUFFICES ASSUME NEW t \in Tokens, NEW u \in Tokens, successor'[t] # NoToken,
                        successor'[t] = successor'[u]
                 PROVE  t = u
      BY DEF OneParent
    <3>1. successor[t] \in Int /\ successor[u] \in Int BY <1>0, Numbers
    <3>2. QED BY <1>0, <1>1, <2>3, <3>1 DEF LoginsShaped, OneParent
  <2>5. QED BY <1>0, <2>1, <2>2, <2>4 DEF LoginsShaped, DeliveredSent
<1>5. QED BY <1>2, <1>3, <1>4

LEMMA ShapedCliEnds ==
  ASSUME TokenRefreshAssumption, Sound, Shaped, NEW j \in Jobs, CliEnds(j)
  PROVE  Shaped'
<1>0. /\ IInv /\ Trace /\ jobs[j] \in Run /\ Job(j) = jobs[j]
      /\ jobs[j].exit = "running" /\ jobs[j].token \in Tokens /\ jobs[j].profile \in Profiles
  BY DEF Sound, IInv, RunsOK, Job, CliEnds, RunOK, LoginsOK, Run
<1>d. PICK d \in Profiles \X Tokens : d = Dir(j) BY <1>0 DEF Dir
<1>1. JournalShaped /\ BacklogShaped /\ AllRunsShaped /\ FilesShaped /\ LoginsShaped
  BY ShapedSplit
<1>2. UNCHANGED <<state, saved, rescues, backlog, stops>> BY DEF CliEnds
<1>3. Idles \/ (\E answered : Spends(d, TRUE, answered)) \/ Refused(d, TRUE)
  BY <1>d DEF CliEnds
<1>4. PICK how : Turns(j, jobs[j].pc, jobs[j].spends, how, jobs[j].entry, jobs[j].rotated)
  <2>1. PICK how : Exits(j, how) BY DEF CliEnds
  <2>2. QED BY <1>0, <2>1, TurnsRunning
<1>5. Marks(j, jobs[j].rescued, jobs[j].keep) BY <1>0, MarksSame
<1>6. EarlyOK(jobs[j].entry) BY <1>1 DEF AllRunsShaped, RunShaped
<1>7. AllRunsShaped' BY <1>1, <1>4, <1>5, <1>6, TurnShaped
<1>8. LoginsShaped' BY <1>1, <1>2, <1>3, AnswerShaped
<1>9. QED BY <1>1, <1>2, <1>7, <1>8, ShapedJoin, JournalSteady, BacklogSteady, FilesSteady

LEMMA ShapedStrayEnds ==
  ASSUME TokenRefreshAssumption, Sound, Shaped, NEW d \in Profiles \X Tokens, StrayEnds(d)
  PROVE  Shaped'
<1>1. JournalShaped /\ BacklogShaped /\ AllRunsShaped /\ FilesShaped /\ LoginsShaped
  BY ShapedSplit
<1>2. UNCHANGED <<state, saved, rescues, backlog, stops, jobs>> BY DEF StrayEnds, memory
<1>3. PICK home : Idles \/ (\E answered : Spends(d, home, answered)) \/ Refused(d, home)
  BY DEF StrayEnds
<1>4. LoginsShaped' BY <1>1, <1>2, <1>3, AnswerShaped
<1>5. QED BY <1>1, <1>2, <1>4, ShapedJoin, JournalSteady, BacklogSteady, FilesSteady, RunsSteady

LEMMA ShapedClassifying ==
  ASSUME TokenRefreshAssumption, IInv, Shaped, NEW j \in Jobs,
         \/ FindUnsent(j) \/ FindSpent(j) \/ Clear(j)
         \/ SettleGone(j) \/ SettleUnsent(j) \/ SettleUnknown(j)
  PROVE  Shaped'
<1>1. JournalShaped /\ BacklogShaped /\ AllRunsShaped /\ FilesShaped /\ LoginsShaped
  BY ShapedSplit
<1>2. UNCHANGED <<backlog, stops, delivered, successor, sent>>
  BY DEF FindUnsent, FindSpent, Clear, SettleGone, SettleUnsent, SettleUnknown, Settling, history
<1>3. (\E dirs : ClearJournal(j, dirs)) \/ Judge(j)
  BY DEF FindUnsent, FindSpent, Clear, SettleGone, SettleUnsent, SettleUnknown
<1>4. JournalShaped' /\ AllRunsShaped' BY <1>1, <1>3, ClearShaped, JudgeShaped
<1>5. FilesShaped'
  <2>1. CASE UNCHANGED rescues BY <1>1, <2>1, FilesSteady
  <2>2. CASE Clear(j)
    <3>p. PICK p \in Profiles : p = jobs[j].profile BY DEF IInv, RunsOK, Run
    <3>f. PICK f : f = [token |-> Job(j).rotated, own |-> TRUE] OBVIOUS
    <3>1. PICK left \in {rescues[p], Without(rescues[p], f)} :
            rescues' = [rescues EXCEPT ![p] = left]
      BY <2>2, <3>p, <3>f DEF Clear, Job
    <3>2. rescues \in [Profiles -> Seq(Rescue)] BY <1>1 DEF FilesShaped
    <3>3. Without(rescues[p], f) \in Seq(Rescue) BY <3>2, DeletedFile
    <3>4. left \in Seq(Rescue) BY <3>1, <3>2, <3>3
    <3>5. QED BY <3>1, <3>2, <3>4 DEF FilesShaped
  <2>3. QED BY <2>1, <2>2 DEF FindUnsent, FindSpent, SettleGone, SettleUnsent, SettleUnknown, Settling
<1>6. QED BY <1>1, <1>2, <1>4, <1>5, ShapedJoin, BacklogSteady, LoginsSteady

LEMMA RescueShaped ==
  ASSUME TokenRefreshAssumption, FilesShaped, NEW p \in Profiles, NEW s \in Tokens,
         NEW own \in BOOLEAN, AddRescue(p, s, own)
  PROVE  FilesShaped'
<1>1. PICK f : f = [token |-> s, own |-> own] OBVIOUS
<1>2. f \in Rescue BY <1>1 DEF Rescue
<1>3. rescues' = [rescues EXCEPT ![p] = Kept(Append(rescues[p], f))] BY <1>1 DEF AddRescue
<1>4. rescues \in [Profiles -> Seq(Rescue)] BY DEF FilesShaped
<1>5. Kept(Append(rescues[p], f)) \in Seq(Rescue) BY <1>2, <1>4, AddedFile
<1>6. QED BY <1>3, <1>4, <1>5 DEF FilesShaped

LEMMA ShapedCommitting ==
  ASSUME TokenRefreshAssumption, IInv, Trace, Shaped, NEW j \in Jobs,
         \/ WriteRescue(j) \/ Mark(j) \/ List(j) \/ CommitOne(j) \/ FinishPartly(j)
         \/ Finish(j) \/ SettleRotated(j)
  PROVE  Shaped'
<1>0. jobs[j] \in Run /\ Job(j) = jobs[j] BY DEF IInv, RunsOK, Job
<1>p. PICK p \in Profiles : p = jobs[j].profile BY <1>0 DEF Run
<1>1. JournalShaped /\ BacklogShaped /\ AllRunsShaped /\ FilesShaped /\ LoginsShaped
  BY ShapedSplit
<1>2. UNCHANGED <<backlog, stops, delivered, successor, sent>>
  BY DEF WriteRescue, Mark, List, CommitOne, FinishPartly, Finish, SettleRotated, Settling, world,
         history
<1>3. AllRunsShaped'
  <2>1. CASE SettleRotated(j)
    <3>1. PICK s : Turns(j, "list", jobs[j].spends, jobs[j].exit, jobs[j].entry, s)
      BY <1>0, <2>1, TurnsSettling DEF SettleRotated
    <3>2. EarlyOK(jobs[j].entry) BY <1>1 DEF AllRunsShaped, RunShaped
    <3>3. QED BY <1>1, <3>1, <3>2, TurnShaped DEF Later
  <2>2. CASE Quits(j) BY <1>1, <2>2, QuitShaped
  <2>3. CASE Moves(j, "mark") \/ Moves(j, "list") \/ Moves(j, "commit") \/ Moves(j, "clear")
    BY <1>1, <2>3, MoveShaped DEF Later
  <2>4. QED BY <2>1, <2>2, <2>3, TurnsCommitting
<1>4. CASE Mark(j)
  <2>e. PICK e : e = [phase |-> "rotated", token |-> jobs[j].token, rescue |-> jobs[j].rescued,
                      temp |-> ~jobs[j].rescued]
    OBVIOUS
  <2>1. Save(SetEntry(p, e)) \/ SaveFails(SetEntry(p, e)) BY <1>0, <1>p, <1>4, <2>e DEF Mark
  <2>2. e.phase = "rotated" BY <2>e
  <2>3. EarlyOK(e) BY <2>2 DEF EarlyOK
  <2>4. JournalShaped' BY <1>1, <2>1, <2>3, EntryShaped DEF IInv
  <2>5. UNCHANGED rescues BY <1>4 DEF Mark
  <2>6. QED BY <1>1, <1>2, <1>3, <2>4, <2>5, ShapedJoin, BacklogSteady, FilesSteady, LoginsSteady
<1>5. CASE WriteRescue(j) \/ CommitOne(j)
  <2>1. UNCHANGED <<state, saved>> BY <1>5 DEF WriteRescue, CommitOne
  <2>2. jobs[j].rotated \in Tokens
    <3>1. jobs[j].pc \in {"rescue", "commit"} BY <1>0, <1>5 DEF WriteRescue, CommitOne, At
    <3>2. QED BY <1>0, <3>1 DEF Trace, RunsTrace, ShapeOK, Run
  <2>3. jobs[j].todo \subseteq Profiles BY <1>0 DEF Run
  <2>4. \/ UNCHANGED rescues
        \/ \E q \in Profiles, own \in BOOLEAN : AddRescue(q, jobs[j].rotated, own)
    BY <1>0, <1>p, <1>5, <2>3 DEF WriteRescue, CommitOne
  <2>5. FilesShaped' BY <1>1, <2>2, <2>4, FilesSteady, RescueShaped
  <2>6. QED BY <1>1, <1>2, <1>3, <2>1, <2>5, ShapedJoin, BacklogSteady, JournalSteady, LoginsSteady
<1>6. CASE List(j) \/ FinishPartly(j) \/ Finish(j) \/ SettleRotated(j)
  BY <1>2, <1>3, <1>6, OnlyRunsShaped DEF List, FinishPartly, Finish, SettleRotated, Settling, disk
<1>7. QED BY <1>4, <1>5, <1>6

LEMMA BeginShaped ==
  ASSUME IInv, AllRunsShaped, NEW j \in Jobs, NEW run, Becomes(j, run), run.keep = FALSE,
         run.rescued = FALSE, EarlyOK(run.entry)
  PROVE  AllRunsShaped'
<1>1. Others(j) /\ jobs'[j] = run BY DEF Becomes, Others, IInv, RunsOK
<1>2. RunShaped(run) BY DEF RunShaped
<1>3. QED BY <1>1, <1>2, OneRunShaped

LEMMA ShapedSurroundings ==
  ASSUME TokenRefreshAssumption, IInv, Shaped,
         \/ Bootstrap \/ Toggle \/ UNCHANGED vars
         \/ \E p \in Profiles : Due(p) \/ Recover(p) \/ Login(p) \/ Remove(p)
         \/ \E h \in Handlers, p \in Profiles : Incoming(h, p)
  PROVE  Shaped'
<1>0. Ticker \in Jobs /\ Handlers \subseteq Jobs BY DEF Jobs
<1>1. JournalShaped /\ BacklogShaped /\ AllRunsShaped /\ FilesShaped /\ LoginsShaped
  BY ShapedSplit
<1>2. CASE Toggle \/ UNCHANGED vars
  <2>1. UNCHANGED <<state, saved, rescues, backlog, stops, delivered, successor, sent, jobs>>
    BY <1>2 DEF Toggle, vars, disk, memory, world, history
  <2>2. QED BY <1>1, <2>1, RunsSteady, OnlyRunsShaped
<1>3. CASE Bootstrap
  <2>1. /\ UNCHANGED <<state, saved, rescues, stops, delivered, successor, sent, jobs>>
        /\ backlog' = state.journal
    BY <1>3 DEF Bootstrap, disk, world, history
  <2>2. BacklogShaped' BY <1>1, <2>1 DEF BacklogShaped, JournalShaped
  <2>3. QED BY <1>1, <2>1, <2>2, ShapedJoin, JournalSteady, RunsSteady, FilesSteady, LoginsSteady
<1>4. ASSUME NEW p \in Profiles, Due(p) PROVE Shaped'
  <2>1. PICK run : run = [Idle EXCEPT !.pc = "lock", !.profile = p, !.token = stored[p]] OBVIOUS
  <2>2. Becomes(Ticker, run) BY <1>4, <2>1 DEF Due
  <2>3. run.keep = FALSE /\ run.rescued = FALSE /\ run.entry = NoEntry BY <2>1 DEF Idle
  <2>4. AllRunsShaped' BY <1>0, <1>1, <2>2, <2>3, BeginShaped, NoEntryEarly
  <2>5. QED BY <1>4, <2>4, OnlyRunsShaped DEF Due, disk, world, history
<1>5. ASSUME NEW h \in Handlers, NEW p \in Profiles, Incoming(h, p) PROVE Shaped'
  <2>1. PICK run : run = [Idle EXCEPT !.pc = "look", !.profile = p, !.token = stored[p]] OBVIOUS
  <2>2. Becomes(h, run) BY <1>5, <2>1 DEF Incoming
  <2>3. run.keep = FALSE /\ run.rescued = FALSE /\ run.entry = NoEntry BY <2>1 DEF Idle
  <2>4. AllRunsShaped' BY <1>0, <1>1, <2>2, <2>3, BeginShaped, NoEntryEarly
  <2>5. QED BY <1>5, <2>4, OnlyRunsShaped DEF Incoming, disk, world, history
<1>6. ASSUME NEW p \in Profiles, Recover(p) PROVE Shaped'
  <2>0. PICK e : e = backlog[p] OBVIOUS
  <2>1. PICK run : run = [Idle EXCEPT !.pc = "settle", !.profile = p, !.token = e.token, !.entry = e]
    OBVIOUS
  <2>2. Becomes(Ticker, run) BY <1>6, <2>0, <2>1, Zenon DEF Recover
  <2>3. run.keep = FALSE /\ run.rescued = FALSE /\ run.entry = e BY <2>1 DEF Idle
  <2>4. EarlyOK(e) BY <1>1, <2>0 DEF BacklogShaped
  <2>5. AllRunsShaped' BY <1>0, <1>1, <2>2, <2>3, <2>4, BeginShaped
  <2>6. /\ UNCHANGED <<state, saved, rescues, stops, delivered, successor, sent>>
        /\ backlog' = [backlog EXCEPT ![p] = NoEntry]
    BY <1>6 DEF Recover, disk, world, history
  <2>7. BacklogShaped'
    <3>1. ASSUME NEW q \in Profiles PROVE backlog'[q] \in {backlog[q], NoEntry}
      BY <2>6 DEF IInv, BacklogOK
    <3>2. QED BY <1>1, <3>1, NoEntryEarly DEF BacklogShaped
  <2>8. QED BY <1>1, <2>5, <2>6, <2>7, ShapedJoin, JournalSteady, FilesSteady, LoginsSteady
<1>7. ASSUME NEW p \in Profiles, Login(p) \/ Remove(p) PROVE Shaped'
  <2>1. UNCHANGED <<state, saved, stops, delivered, successor, sent, jobs, backlog>>
    BY <1>7 DEF Login, Remove, memory, world, history
  <2>2. UNCHANGED rescues \/ rescues' = [rescues EXCEPT ![p] = << >>] BY <1>7 DEF Login, Remove
  <2>3. FilesShaped'
    <3>1. << >> \in Seq(Rescue) OBVIOUS
    <3>2. rescues \in [Profiles -> Seq(Rescue)] BY <1>1 DEF FilesShaped
    <3>3. CASE rescues' = [rescues EXCEPT ![p] = << >>] BY <3>1, <3>2, <3>3 DEF FilesShaped
    <3>4. QED BY <1>1, <2>2, <3>3, FilesSteady
  <2>4. QED BY <1>1, <2>1, <2>3, ShapedJoin, JournalSteady, BacklogSteady, RunsSteady, LoginsSteady
<1>8. QED BY <1>2, <1>3, <1>4, <1>5, <1>6, <1>7

LEMMA ShapedStop ==
  ASSUME IInv, Shaped, Stop PROVE Shaped'
<1>1. JournalShaped /\ BacklogShaped /\ AllRunsShaped /\ FilesShaped /\ LoginsShaped
  BY ShapedSplit
<1>2. /\ state' = saved /\ stops' = stops + 1 /\ jobs' = [j \in Jobs |-> Idle]
      /\ backlog' = [p \in Profiles |-> NoEntry]
      /\ UNCHANGED <<saved, rescues, delivered, successor, sent>>
  BY DEF Stop, disk
<1>3. JournalShaped' BY <1>1, <1>2 DEF JournalShaped
<1>4. BacklogShaped' BY <1>2, NoEntryEarly DEF BacklogShaped
<1>5. AllRunsShaped' BY <1>2, IdleShaped DEF AllRunsShaped
<1>6. LoginsShaped' BY <1>1, <1>2 DEF LoginsShaped, OneParent, DeliveredSent
<1>7. QED BY <1>1, <1>2, <1>3, <1>4, <1>5, <1>6, ShapedJoin, FilesSteady

LEMMA ShapedInit == TokenRefreshAssumption /\ Init => Shaped
<1> SUFFICES ASSUME TokenRefreshAssumption, Init PROVE Shaped OBVIOUS
<1>1. EntriesShaped BY NoEntryEarly DEF Init, EntriesShaped, Idle
<1>2. FilesTyped BY DEF Init, FilesTyped
<1>3. OneParent /\ DeliveredSent BY DEF Init, OneParent, DeliveredSent
<1>4. RunsShaped BY DEF Init, RunsShaped, Idle
<1>5. QED BY <1>1, <1>2, <1>3, <1>4 DEF Shaped

LEMMA ShapedNext == TokenRefreshAssumption /\ Sound /\ Shaped /\ [Next]_vars => Shaped'
<1> SUFFICES ASSUME TokenRefreshAssumption, Sound, Shaped, [Next]_vars PROVE Shaped' OBVIOUS
<1>0. IInv /\ Trace BY DEF Sound
<1>1. ASSUME NEW j \in Jobs, Step(j) PROVE Shaped'
  <2>1. CASE Acquire(j) \/ SettleLeftover(j) \/ Abandon(j) \/ Journal(j)
    BY <1>0, <2>1, ShapedPreparing
  <2>2. CASE Launch(j) \/ NoteStarted(j) \/ TimesOut(j) \/ FindRotated(j)
    BY <1>0, <2>2, ShapedRunning
  <2>3. CASE CliEnds(j) BY <2>3, ShapedCliEnds
  <2>4. CASE \/ FindUnsent(j) \/ FindSpent(j) \/ Clear(j)
             \/ SettleGone(j) \/ SettleUnsent(j) \/ SettleUnknown(j)
    BY <1>0, <2>4, ShapedClassifying
  <2>5. CASE \/ WriteRescue(j) \/ Mark(j) \/ List(j) \/ CommitOne(j) \/ FinishPartly(j)
             \/ Finish(j) \/ SettleRotated(j)
    BY <1>0, <2>5, ShapedCommitting
  <2>6. QED BY <1>1, <2>1, <2>2, <2>3, <2>4, <2>5 DEF Step
<1>2. CASE \E d \in Profiles \X Tokens : StrayEnds(d) BY <1>2, ShapedStrayEnds
<1>3. CASE Stop BY <1>0, <1>3, ShapedStop
<1>4. CASE \/ Bootstrap \/ Toggle \/ UNCHANGED vars
           \/ \E p \in Profiles : Due(p) \/ Recover(p) \/ Login(p) \/ Remove(p)
           \/ \E h \in Handlers, p \in Profiles : Incoming(h, p)
  BY <1>0, <1>4, ShapedSurroundings
<1>5. QED BY <1>1, <1>2, <1>3, <1>4 DEF Next

-----------------------------------------------------------------------------
(* All steps together.                                                     *)

LEMMA KeepInit == TokenRefreshAssumption /\ Init => Keep
<1> SUFFICES ASSUME TokenRefreshAssumption, Init PROVE Keep OBVIOUS
<1>1. Shaped BY ShapedInit
<1>2. ASSUME NEW t \in Tokens PROVE KeepOK(t)
  <2>1. LandOK(t) BY DEF Init, LandOK
  <2>2. HomeOK(t) BY DEF Init, HomeOK
  <2>3. HandsOK(t) BY DEF Init, HandsOK, HandOK, Announced, NoEntry, Idle
  <2>4. \A k \in Jobs : EndsOK(k, t) /\ CarriesOK(k, t)
    BY DEF Init, EndsOK, CarriesOK, Spender, Idle
  <2>5. QED BY <2>1, <2>2, <2>3, <2>4 DEF KeepOK
<1>3. QED BY <1>1, <1>2 DEF Keep

LEMMA KeepNext ==
  TokenRefreshAssumption /\ RoomForRescues /\ Sound /\ Sound' /\ Spend /\ Keep /\ [Next]_vars
    => Keep'
<1> SUFFICES ASSUME TokenRefreshAssumption, RoomForRescues, Sound, Sound', Spend, Keep, [Next]_vars
             PROVE  Keep'
  OBVIOUS
<1>0. Shaped /\ Shaped' BY ShapedNext DEF Keep
<1> SUFFICES ASSUME NEW t \in Tokens \ exposed' PROVE KeepOK(t)'
  BY <1>0 DEF Keep
<1>s. SpentOK(t) /\ KeepOK(t) BY ExposedGrows DEF Spend, Keep
<1>1. ASSUME NEW j \in Jobs, Step(j) PROVE KeepOK(t)'
  <2>1. CASE Acquire(j) \/ SettleLeftover(j) \/ Abandon(j) BY <1>0, <1>s, <2>1, KeepPreparing
  <2>2. CASE Journal(j) BY <1>0, <1>s, <2>2, KeepJournal
  <2>3. CASE Launch(j) BY <1>0, <1>s, <2>3, KeepLaunch
  <2>4. CASE NoteStarted(j) BY <1>0, <1>s, <2>4, KeepNoteStarted
  <2>5. CASE CliEnds(j) BY <1>0, <1>s, <2>5, KeepCliEnds
  <2>6. CASE TimesOut(j) BY <1>0, <1>s, <2>6, KeepTimesOut
  <2>7. CASE FindRotated(j) \/ FindUnsent(j) \/ FindSpent(j) \/ Clear(j)
    BY <1>0, <1>s, <2>7, KeepClassifying
  <2>8. CASE WriteRescue(j) BY <1>0, <1>s, <2>8, KeepWriteRescue
  <2>9. CASE Mark(j) BY <1>0, <1>s, <2>9, KeepMark
  <2>10. CASE List(j) \/ CommitOne(j) BY <1>0, <1>s, <2>10, KeepCommit
  <2>11. CASE FinishPartly(j) BY <1>0, <1>s, <2>11, KeepFinishPartly
  <2>12. CASE Finish(j) BY <1>0, <1>s, <2>12, KeepFinish
  <2>13. CASE SettleGone(j) \/ SettleRotated(j) \/ SettleUnsent(j) \/ SettleUnknown(j)
    BY <1>0, <1>s, <2>13, KeepSettling
  <2>14. QED
    BY <1>1, <2>1, <2>2, <2>3, <2>4, <2>5, <2>6, <2>7, <2>8, <2>9, <2>10, <2>11, <2>12, <2>13
       DEF Step
<1>2. CASE \E d \in Profiles \X Tokens : StrayEnds(d) BY <1>0, <1>s, <1>2, KeepStrayEnds
<1>3. CASE Stop BY <1>0, <1>s, <1>3, KeepStop
<1>4. CASE \/ Bootstrap \/ Toggle \/ UNCHANGED vars
           \/ \E p \in Profiles : Due(p) \/ Recover(p) \/ Login(p) \/ Remove(p)
           \/ \E h \in Handlers, p \in Profiles : Incoming(h, p)
  BY <1>0, <1>s, <1>4, KeepSurroundings
<1>5. QED BY <1>1, <1>2, <1>3, <1>4 DEF Next

LEMMA KeptInHand == Keep => RotationKept
<1> SUFFICES ASSUME Keep, NEW t \in delivered, Holders(t) # {}, t \notin exposed
             PROVE  InHand(t) \/ t \in state.verdicts
  BY DEF RotationKept
<1>1. t \in Tokens /\ saved.verdicts \subseteq state.verdicts BY DEF Keep, Shaped, FilesTyped
<1>2. LandOK(t) BY <1>1 DEF Keep, KeepOK
<1>3. CASE Settled(t) BY <1>1, <1>3 DEF Settled
<1>4. CASE \E p \in Profiles : LeadsTo(p, t)
  <2>1. PICK p \in Profiles : LeadsTo(p, t) BY <1>4
  <2>2. CASE state.journal[p].temp /\ InDir(p, t)
    BY <2>1, <2>2 DEF LeadsTo, Names, InDir, InHand, Named
  <2>3. CASE Filed(p, t)
    <3>1. CASE MaxStops = 0 BY <2>3, <3>1 DEF Filed, InHand
    <3>2. CASE MaxStops # 0
      <4>1. PICK i \in DOMAIN rescues[p] : rescues[p][i] = [token |-> successor[t], own |-> TRUE]
        BY <2>3, <3>2 DEF Filed
      <4>2. rescues[p][i].token = successor[t] BY <4>1
      <4>3. QED BY <4>2 DEF InHand
    <3>3. QED BY <3>1, <3>2
  <2>4. QED BY <2>1, <2>2, <2>3 DEF LeadsTo
<1>5. QED BY <1>2, <1>3, <1>4 DEF LandOK

\* A rotated login that reached the server is not lost while a profile waits for it: it
\* is in a rescue file, in memory, or in the directory the journal names, unless the
\* account has its verdict or met a gap (spend, commitRotated, finishCommit and
\* recoverRotated in target_refresher.go).  That rescue files are dropped by number
\* (targetRescueKeep) is the one thing assumed away, and only where the server may stop.
THEOREM RotationsAreKept == Spec /\ []RoomForRescues => []RotationKept
<1>1. Init => Sound /\ Spend /\ Keep
  BY InvInit, OrderInit, TraceInit, SpendInit, KeepInit, TokenRefreshAssumption DEF Sound
<1>2. RoomForRescues /\ Sound /\ Spend /\ Keep /\ [Next]_vars => (Sound /\ Spend /\ Keep)'
  <2>1. Sound /\ [Next]_vars => Sound'
    BY InvNext, OrderNext, TraceNext, TokenRefreshAssumption DEF Sound
  <2>2. QED BY <2>1, SpendNext, KeepNext, TokenRefreshAssumption
<1>3. Sound /\ Spend /\ Keep => RotationKept BY KeptInHand
<1>4. QED BY <1>1, <1>2, <1>3, PTL DEF Spec

-----------------------------------------------------------------------------
(* The wrapper of MCRecovery: nobody is left behind on the bus.            *)

\* Whoever is known by name, or seen, or registered, is the one agent of the wrapper.
OneAgent ==
  /\ id \in W!Ids
  /\ {registered, name, seen} \subseteq {W!Nobody, id}

\* An agent the server knows during a shutdown will be deleted: by the request on its
\* way, or by the second look of a bootstrap.
Deletable ==
  \/ deletion = "sent" /\ (W!Boot \/ asked = id)
  \/ deletion = "none" /\ name = W!Nobody
  \/ deletion = "failed" /\ W!Boot

\* The server was there while the shutdown went on, unless that is excused; nothing
\* registers once the child is gone.
Leaving ==
  /\ at \notin {"shutdown", "down"} => deletion = ""
  /\ at = "shutdown" =>
       /\ deletion \in {"sent", "none", "done", "failed", "late"}
       /\ deletion = "sent" => asked # W!Nobody
       /\ deletion = "none" => asked = W!Nobody
       /\ deletion = "done" => asked = id
       /\ deletion = "late" => excused
       /\ name # W!Nobody => asked = name
       /\ excused \/ (up /\ (registered = W!Nobody \/ Deletable))
  /\ at = "down" /\ deletion # "" => ~W!Running /\ (registered = W!Nobody \/ excused)

GhostInv == OneAgent /\ Leaving

LEMMA GhostInit == W!Init => GhostInv
BY DEF W!Init, GhostInv, OneAgent, Leaving, W!Ids, W!Nobody, W!Asked

LEMMA OneAgentStep == OneAgent /\ W!Next => OneAgent'
<1> SUFFICES ASSUME OneAgent, W!Next PROVE OneAgent' OBVIOUS
<1> USE DEF OneAgent, W!server, W!book, W!shut
<1>1. CASE W!Register \/ W!ServerChanges \/ W!WatchRegistration \/ W!Signal
  BY <1>1 DEF W!Register, W!ServerChanges, W!WatchRegistration, W!Signal
<1>2. CASE \E how \in W!Ends : W!ChildEnds(how) BY <1>2 DEF W!ChildEnds
<1>3. CASE \/ W!BootstrapSession \/ W!BootstrapStalled \/ W!BootstrapStalls
  BY <1>3 DEF W!BootstrapSession, W!BootstrapStalled, W!BootstrapStalls, W!Bootstrapped,
    W!BootstrapAgain, W!BootstrapFails, W!Found
<1>4. CASE \/ W!Preflight \/ W!ResumeStalled \/ W!ResumeFailed \/ W!ResumeEnded
           \/ W!ResumeExitError \/ W!WaitResumeChildStalls
  BY <1>4 DEF W!Preflight, W!ResumeStalled, W!ResumeFailed, W!ResumeEnded, W!ResumeExitError,
    W!WaitResumeChildStalls
<1>5. CASE \/ W!StopChild \/ W!DeleteRegistration \/ W!DeleteUnreachable \/ W!GracefulShutdown
           \/ W!DeleteTimesOut \/ W!Interrupt
  BY <1>5 DEF W!StopChild, W!DeleteRegistration, W!DeleteUnreachable, W!GracefulShutdown,
    W!DeleteTimesOut, W!Interrupt
<1>6. QED BY <1>1, <1>2, <1>3, <1>4, <1>5 DEF W!Next, W!Wrapper

\* Steps of the bootstrap and the resume loop, before a shutdown.
LEMMA LeavingBefore ==
  ASSUME Leaving, at \notin {"shutdown", "down"}, UNCHANGED deletion, at' # "shutdown"
  PROVE  Leaving'
BY DEF Leaving, W!Running

LEMMA LeavingStep == OneAgent /\ Leaving /\ W!Next => Leaving'
<1> SUFFICES ASSUME OneAgent, Leaving, W!Next PROVE Leaving' OBVIOUS
<1>1. CASE W!Register
  BY <1>1 DEF W!Register, OneAgent, Leaving, Deletable, W!Boot, W!Running, W!Ids
<1>2. CASE W!ServerChanges
  BY <1>2 DEF W!ServerChanges, Leaving, Deletable, W!Running, W!book
<1>3. CASE W!WatchRegistration \/ W!Signal \/ \E how \in W!Ends : W!ChildEnds(how)
  BY <1>3 DEF W!WatchRegistration, W!Signal, W!ChildEnds, Leaving, Deletable, W!Running, W!Boot,
    W!server, W!shut, W!Bootstrapping, W!Ends
<1>4. CASE \/ W!BootstrapSession \/ W!BootstrapStalled \/ W!BootstrapStalls
  BY <1>4, LeavingBefore DEF W!BootstrapSession, W!BootstrapStalled, W!BootstrapStalls,
    W!Bootstrapped, W!BootstrapAgain, W!BootstrapFails, W!Bootstrapping, W!shut
<1>5. CASE \/ W!Preflight \/ W!ResumeStalled \/ W!ResumeFailed \/ W!ResumeEnded
           \/ W!ResumeExitError \/ W!WaitResumeChildStalls
  BY <1>5, LeavingBefore DEF W!Preflight, W!ResumeStalled, W!ResumeFailed, W!ResumeEnded,
    W!ResumeExitError, W!WaitResumeChildStalls, W!Fail, W!shut
<1>6. CASE W!StopChild
  BY <1>6 DEF W!StopChild, W!Stopping, Leaving, Deletable, W!Running, W!Boot, W!server, W!shut
<1>7. CASE W!Interrupt
  BY <1>7 DEF W!Interrupt, OneAgent, Leaving, Deletable, W!Boot, W!server, W!Found, W!Running, W!Ids
<1>8. CASE W!DeleteRegistration
  BY <1>8 DEF W!DeleteRegistration, OneAgent, Leaving, Deletable, W!Boot, W!Running, W!Ids
<1>9. CASE W!DeleteUnreachable
  BY <1>9 DEF W!DeleteUnreachable, Leaving, Deletable, W!Boot, W!server
<1>10. CASE W!DeleteTimesOut
  BY <1>10 DEF W!DeleteTimesOut, Leaving, Deletable, W!Boot, W!server
<1>11. CASE W!GracefulShutdown
  BY <1>11 DEF W!GracefulShutdown, OneAgent, Leaving, Deletable, W!Boot, W!Running, W!shut, W!Ids
<1>12. QED
  BY <1>1, <1>2, <1>3, <1>4, <1>5, <1>6, <1>7, <1>8, <1>9, <1>10, <1>11 DEF W!Next, W!Wrapper

\* An interrupted wrapper leaves no agent behind on the bus, whatever the child, the
\* server and further signals do meanwhile, unless the server was away or slow, or the
\* child registered again what had just been deleted (gracefulShutdown, agent.go:1824).
THEOREM NobodyIsLeftBehind == RecoverySpec => []NoGhostLeft
<1>1. RecoveryInit => GhostInv BY GhostInit DEF RecoveryInit
<1>2. GhostInv /\ [RecoveryNext]_recoveryVars => GhostInv'
  <2> SUFFICES ASSUME GhostInv, [RecoveryNext]_recoveryVars PROVE GhostInv' OBVIOUS
  <2>1. CASE W!Next BY <2>1, OneAgentStep, LeavingStep DEF GhostInv
  <2>2. CASE UNCHANGED wrapperVars
    BY <2>2 DEF wrapperVars, GhostInv, OneAgent, Leaving, Deletable, W!Boot, W!Running
  <2>3. QED BY <2>1, <2>2 DEF RecoveryNext, Refreshes, Wraps, recoveryVars
<1>3. GhostInv => NoGhostLeft BY DEF GhostInv, Leaving, NoGhostLeft, W!NoGhostLeft
<1>4. QED BY <1>1, <1>2, <1>3, PTL DEF RecoverySpec
=============================================================================
