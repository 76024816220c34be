---------------------------- MODULE MCAgentSide -----------------------------
(***************************************************************************)
(* What must go on for an agent to stay at work: its waits at the server,  *)
(* the login its sessions use under the token-copy model, and in its       *)
(* wrapper the pushing of its state and the watchdog of pi.  mode says     *)
(* whose steps a behaviour takes; the variables of the others keep their   *)
(* first values.                                                           *)
(***************************************************************************)
EXTENDS MCDelivery

CONSTANTS
  States, Nothing,                                            \* StatePush
  IdleTimeout, ForwardTimeout, TurnEndGrace, BusWaits, MaxTools, \* PiWatchdog
  Profiles, Accounts, Nobody, MaxBackups, MaxRescues, MaxCalls, MaxGen, MaxAccidents \* Targets

VARIABLES
  mode,
  known, lastState, pending, elapsed, timer, output, latest, stuck,
  inTurn, tools, waits, lastOutput, lastProgress, turnEnded, busWaitLeft, alarm, wake, stalled,
  working,
  live, dirs, stored, backups, rescues, active, migrated, job, pass, renewed, newest, accidents,
  calls, owner, excused

pushVars == <<known, lastState, pending, elapsed, timer, output, latest, stuck>>
watchVars == <<inTurn, tools, waits, lastOutput, lastProgress, turnEnded, busWaitLeft, alarm,
               wake, stalled, working>>
loginVars == <<live, dirs, stored, backups, rescues, active, migrated, job, pass, renewed, newest,
               accidents, calls, owner, excused>>
sideVars == <<mode, vars, pushVars, watchVars, loginVars>>

S == INSTANCE StatePush
P == INSTANCE PiWatchdog WITH timer <- alarm
T == INSTANCE Targets

\* The first values of the parts that have a choice of them are the choice of their mode.
SideInit ==
  /\ mode \in {"waits", "push", "watchdog", "logins"}
  /\ Init /\ S!Init /\ P!Init /\ T!Init
  /\ mode # "push" => known = TRUE
  \* The first profile and its account may be any; which it is does not matter.
  /\ active = CHOOSE p \in Profiles : TRUE
  /\ owner[active] = CHOOSE a \in Accounts : TRUE
  /\ mode # "logins" => migrated = TRUE

Waits(A) == mode = "waits" /\ A /\ UNCHANGED <<mode, pushVars, watchVars, loginVars>>
Files(A) == mode = "logins" /\ A /\ UNCHANGED <<mode, vars, pushVars, watchVars>>

SideNext ==
  \/ Waits(Next)
  \/ Files(T!Next)
  \/ mode = "push" /\ S!Next /\ UNCHANGED <<mode, vars, watchVars, loginVars>>
  \/ mode = "watchdog" /\ P!Next /\ UNCHANGED <<mode, vars, pushVars, loginVars>>

\* The fairness of Delivery and of Targets, each where its steps are taken.
SideFairness ==
  /\ \A g \in Listeners :
       /\ WF_sideVars(Waits(ScanNothing(g))) /\ WF_sideVars(Waits(Subscribe(g)))
       /\ WF_sideVars(Waits(GiveUp(g))) /\ WF_sideVars(Waits(AdvanceCursor(g)))
       /\ SF_sideVars(Waits(ScanAnswer(g)))
       /\ \A a \in Readers : WF_sideVars(Waits(AgentWait(g, a, 0)))
  /\ WF_sideVars(Files(T!JobSteps)) /\ WF_sideVars(Files(T!PassSteps))
  /\ WF_sideVars(Files(T!RenewFansOut))

SideSpec == SideInit /\ [][SideNext]_sideVars /\ SideFairness

-----------------------------------------------------------------------------
\* CaughtUp of Delivery, where its steps are taken: a reader that keeps waiting has again
\* and again read all that its rooms store.
ReadersCatchUp == \A a \in Readers, r \in RoomIDs : []<>(mode = "waits" => HasRead(a, r))

\* What StatePush says of the debounce (agent_state.go:126): the latest state was
\* pushed, or will be.
LatestOnItsWay == S!LatestOnItsWay

\* What PiWatchdog says of its one timer (agent_progress.go:130): no stall passes its
\* deadline unnoticed.
StallsNoticed == P!StallsNoticed

\* What Targets says of the login files of the token-copy model (reconcile.go:330): the
\* newest login of an account is kept and stays its own, a login in the live file is
\* filed, and a copy for the wrong account does not stay.
LoginsKept == T!LoginKept /\ T!OwnAccountOnly
LoginFiled == T!LoginFiled
CopyFollows == T!CopyFollows
=============================================================================
