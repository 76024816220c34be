-------------------------- MODULE AgentSideProofs ---------------------------
(***************************************************************************)
(* What the agent's side promises, for any states, budgets, timeouts,      *)
(* profiles and accounts: the debounce of the state pusher loses no state, *)
(* whatever is seen and whenever the child registers or its output ends;   *)
(* the goroutine of the watchdog never sleeps past a deadline; and under   *)
(* the token-copy model the newest login of an account is kept, while no   *)
(* copy is dropped for a newer one.  Each is an invariant of its component,*)
(* whose behaviours the composition of MCAgentSide has.                    *)
(***************************************************************************)
EXTENDS MCAgentSide, SequenceTheorems, TLAPS

\* "No state" is not something a detector sees.
StatesAreReal == Nothing \notin States

\* Until the output was handled to its end, a pending state has a timer.
Armed == output # "drained" /\ pending # Nothing => timer

PushInv == Armed /\ S!LatestOnItsWay

-----------------------------------------------------------------------------
\* A state passed over, pushed or put aside is where the property says.
LEMMA ObserveKeeps ==
  ASSUME PushInv, StatesAreReal, NEW s \in States, S!Observe(s)
  PROVE  PushInv'
<1>1. s # Nothing BY DEF StatesAreReal
<1>2. latest' = s /\ output' = output /\ output # "drained" BY DEF S!Observe
<1>3. pending # Nothing => timer BY <1>2 DEF PushInv, Armed
<1>4. pending' # Nothing => timer'
  <2>1. CASE s \in {lastState, pending}
    <3>1. pending' = pending /\ (pending # Nothing => timer') BY <2>1 DEF S!Observe
    <3> QED BY <3>1
  <2>2. CASE s \notin {lastState, pending} /\ known /\ elapsed
    <3>1. pending' = pending /\ timer' = timer BY <2>2 DEF S!Observe
    <3> QED BY <3>1, <1>3
  <2>3. CASE s \notin {lastState, pending} /\ ~(known /\ elapsed)
    <3>1. timer' BY <2>3 DEF S!Observe
    <3> QED BY <3>1
  <2> QED BY <2>1, <2>2, <2>3
<1>5. S!LatestOnItsWay'
  <2> SUFFICES ASSUME ~stuck' PROVE S!LatestOnItsWay'
    BY DEF S!LatestOnItsWay
  <2>1. pending' \in {Nothing, s} BY DEF S!Observe
  <2>2. CASE s \in {lastState, pending}
    <3>1. lastState' = lastState /\ pending' = pending BY <2>2 DEF S!Observe
    <3>2. CASE s = lastState BY <3>1, <3>2, <2>1, <1>2 DEF S!LatestOnItsWay
    <3>3. CASE s = pending BY <3>1, <3>3, <1>1, <1>2, <1>4 DEF S!LatestOnItsWay
    <3> QED BY <2>2, <3>2, <3>3
  <2>3. CASE s \notin {lastState, pending} /\ known /\ elapsed
    <3>1. lastState' = s BY <2>3 DEF S!Observe
    <3> QED BY <3>1, <2>1, <1>2 DEF S!LatestOnItsWay
  <2>4. CASE s \notin {lastState, pending} /\ ~(known /\ elapsed)
    <3>1. pending' = s BY <2>4 DEF S!Observe
    <3> QED BY <3>1, <1>1, <1>2, <1>4 DEF S!LatestOnItsWay
  <2> QED BY <2>2, <2>3, <2>4
<1> QED BY <1>2, <1>4, <1>5 DEF PushInv, Armed

\* A flush pushes the pending state, or finds it pushed, or leaves it with its timer.
LEMMA TimerFiresKeeps ==
  ASSUME PushInv, S!TimerFires
  PROVE  PushInv'
<1>1. /\ timer /\ output # "drained"
      /\ output' = output /\ latest' = latest /\ (stuck' <=> stuck)
  BY DEF S!TimerFires
<1>2. CASE pending \in {Nothing, lastState}
  <2>1. pending' = Nothing /\ lastState' = lastState BY <1>2 DEF S!TimerFires
  <2> QED BY <1>1, <1>2, <2>1 DEF PushInv, Armed, S!LatestOnItsWay
<1>3. CASE pending \notin {Nothing, lastState} /\ ~known
  <2>1. pending' = pending /\ lastState' = lastState /\ timer' BY <1>1, <1>3 DEF S!TimerFires
  <2> QED BY <1>1, <2>1 DEF PushInv, Armed, S!LatestOnItsWay
<1>4. CASE pending \notin {Nothing, lastState} /\ known
  <2>1. pending' = Nothing /\ lastState' = pending BY <1>4 DEF S!TimerFires
  <2> QED BY <1>1, <1>4, <2>1 DEF PushInv, Armed, S!LatestOnItsWay
<1> QED BY <1>2, <1>3, <1>4

\* The last flush leaves nothing behind but for an agent that never was.
LEMMA DrainKeeps ==
  ASSUME PushInv, S!Drain
  PROVE  PushInv'
<1>1. /\ output = "closed" /\ output' = "drained"
      /\ latest' = latest /\ (stuck' <=> stuck) /\ (known' <=> known)
  BY DEF S!Drain
<1>2. Armed' BY <1>1 DEF Armed
<1>3. CASE known
  <2>1. /\ pending' = Nothing
        /\ IF pending # Nothing THEN lastState' = pending ELSE lastState' = lastState
    BY <1>3 DEF S!Drain
  <2> QED BY <1>1, <1>2, <2>1 DEF PushInv, S!LatestOnItsWay
<1>4. CASE ~known
  <2>1. pending' = pending /\ lastState' = lastState BY <1>4 DEF S!Drain
  <2> QED BY <1>1, <1>2, <1>4, <2>1 DEF PushInv, S!LatestOnItsWay
<1> QED BY <1>3, <1>4

\* Registration, the end of the interval and of the output move no state.
LEMMA OthersKeep ==
  ASSUME PushInv, S!Register \/ S!WindowPasses \/ S!Close \/ UNCHANGED S!vars
  PROVE  PushInv'
<1>1. /\ lastState' = lastState /\ pending' = pending /\ latest' = latest
      /\ (timer' <=> timer) /\ (stuck' <=> stuck)
  BY DEF S!Register, S!WindowPasses, S!Close, S!vars
<1>2. CASE output # "drained"
  <2>1. output' # "drained" BY <1>2 DEF S!Register, S!WindowPasses, S!Close, S!vars
  <2> QED BY <1>1, <1>2, <2>1 DEF PushInv, Armed, S!LatestOnItsWay
<1>3. CASE output = "drained"
  <2>1. output' = "drained" /\ (known' <=> known)
    BY <1>3 DEF S!Register, S!WindowPasses, S!Close, S!vars
  <2> QED BY <1>1, <1>3, <2>1 DEF PushInv, Armed, S!LatestOnItsWay
<1> QED BY <1>2, <1>3

\* The component by itself.
LEMMA PusherKeepsLatest ==
  ASSUME StatesAreReal
  PROVE  S!Spec => []S!LatestOnItsWay
<1>1. S!Init => PushInv BY DEF S!Init, PushInv, Armed, S!LatestOnItsWay
<1>2. PushInv /\ [S!Next]_(S!vars) => PushInv'
  <2> SUFFICES ASSUME PushInv, [S!Next]_(S!vars) PROVE PushInv'
    OBVIOUS
  <2>1. CASE \E s \in States : S!Observe(s) BY <2>1, ObserveKeeps
  <2>2. CASE S!TimerFires BY <2>2, TimerFiresKeeps
  <2>3. CASE S!Drain BY <2>3, DrainKeeps
  <2>4. CASE S!Register \/ S!WindowPasses \/ S!Close \/ UNCHANGED S!vars BY <2>4, OthersKeep
  <2> QED BY <2>1, <2>2, <2>3, <2>4 DEF S!Next
<1>3. PushInv => S!LatestOnItsWay BY DEF PushInv
<1> QED BY <1>1, <1>2, <1>3, PTL DEF S!Spec

-----------------------------------------------------------------------------



\* A behaviour of the composition is one of the pusher.
LEMMA SideIsPusher == SideSpec => S!Spec
<1>1. SideInit => S!Init BY DEF SideInit
<1>2. [SideNext]_sideVars => [S!Next]_(S!vars)
  BY DEF SideNext, Waits, Files, sideVars, pushVars, S!vars
<1> QED BY <1>1, <1>2, PTL DEF SideSpec, S!Spec

\* For any set of states: the state seen last was pushed or will be, however the
\* debounce, the registration and the end of the output fall together
\* (agent_state.go:226).
THEOREM LatestIsPushed ==
  ASSUME StatesAreReal
  PROVE  SideSpec => []LatestOnItsWay
<1>1. S!LatestOnItsWay => LatestOnItsWay BY DEF LatestOnItsWay
<1> QED BY <1>1, PusherKeepsLatest, SideIsPusher, PTL

-----------------------------------------------------------------------------

\* The budgets are positive and shorter than for ever.
Budgets ==
  /\ IdleTimeout \in 1..(P!Far - 1) /\ ForwardTimeout \in 1..(P!Far - 1)
  /\ TurnEndGrace \in 1..(P!Far - 1)
  /\ BusWaits \subseteq 1..(P!Far - 1)

WatchTypes ==
  /\ tools \in Int /\ waits \in Int
  /\ lastOutput \in Int /\ lastProgress \in Int /\ turnEnded \in Int
  /\ busWaitLeft \in Int /\ alarm \in Int

\* Tools run in turns only.  In a turn both budgets have begun; no deadline is later
\* than never.
Begun ==
  /\ lastOutput >= P!Never /\ lastProgress >= P!Never /\ turnEnded >= P!Never
  /\ inTurn => lastOutput >= 0 /\ lastProgress >= 0
  /\ busWaitLeft <= P!Far
  /\ 0 <= waits /\ waits <= tools /\ (~inTurn => tools = 0)

\* While the goroutine sleeps its timer is due, at the latest, with the nearest deadline.
InTime == stalled = "" /\ ~wake => 0 <= alarm /\ alarm <= P!Deadline

WatchInv == WatchTypes /\ Begun /\ InTime

-----------------------------------------------------------------------------
\* What a tick does to an age.
LEMMA Ages ==
  ASSUME NEW age \in Int, age >= P!Never, NEW cap \in Int, cap >= 0
  PROVE  /\ P!Older(age, cap) \in Int /\ P!Older(age, cap) >= P!Never /\ P!Older(age, cap) <= age + 1
         /\ age = P!Never => P!Older(age, cap) = P!Never
         /\ age >= 0 => P!Older(age, cap) >= 0
BY DEF P!Older, P!Least, P!Never

\* A budget falls by one at most.
LEMMA Falls ==
  ASSUME NEW b \in 1..98, NEW age \in Int, NEW older \in Int, age >= 0, older <= age + 1
  PROVE  b - older \in Int /\ b - age # 99 /\ b - older >= b - age - 1
OBVIOUS

\* The lesser of two budgets falls by one at most.
LEMMA LeastFalls ==
  ASSUME NEW f \in 1..98, NEW i \in 1..98, NEW p \in Int, NEW o \in Int, NEW q \in Int, NEW r \in Int,
         p >= 0, o >= 0, q <= p + 1, r <= o + 1
  PROVE  /\ P!Least(f - q, i - r) \in Int /\ P!Least(f - p, i - o) < 99
         /\ P!Least(f - q, i - r) >= P!Least(f - p, i - o) - 1
BY DEF P!Least

\* The numbers of the invariant.
LEMMA Numbers ==
  ASSUME Budgets, WatchTypes, Begun
  PROVE  /\ IdleTimeout \in 1..98 /\ ForwardTimeout \in 1..98 /\ TurnEndGrace \in 1..98
         /\ lastOutput \in Int /\ lastProgress \in Int /\ turnEnded \in Int /\ turnEnded >= 0 - 1
BY DEF Budgets, WatchTypes, Begun, P!Far, P!Never

\* A deadline is Far, or less than Far.
LEMMA DeadlineType ==
  ASSUME Budgets, WatchTypes, Begun
  PROVE  P!Deadline \in Int /\ P!Deadline <= P!Far
BY DEF Budgets, WatchTypes, Begun, P!Deadline, P!Least, P!Far, P!Never

\* The steps that the child's output causes leave a wake-up behind.
LEMMA OutputKeeps ==
  ASSUME Budgets, WatchInv,
         \/ P!Output \/ P!TurnStart \/ P!TurnEnd
         \/ \E t \in BusWaits \cup {P!Far} : P!ToolExecutionStart(t)
         \/ \E b \in BOOLEAN : P!ToolExecutionEnd(b)
  PROVE  WatchInv'
<1>1. wake' = TRUE
  BY DEF P!Output, P!TurnStart, P!TurnEnd, P!ToolExecutionStart, P!ToolExecutionEnd, P!Printed
<1>2. InTime' BY <1>1 DEF InTime
<1>3. CASE P!Output
  <2>1. alarm' = alarm BY <1>3 DEF P!Output, P!Printed
  <2>2. lastOutput' = 0 /\ lastProgress' = lastProgress /\ turnEnded' = turnEnded
          /\ busWaitLeft' = busWaitLeft /\ waits' = waits /\ tools' = tools /\ (inTurn' <=> inTurn)
    BY <1>3 DEF P!Output, P!Printed
  <2>3. Begun' BY <2>2 DEF WatchInv, WatchTypes, Begun, P!Never, P!Far
  <2>4. WatchTypes' BY <2>1, <2>2 DEF WatchInv, WatchTypes
  <2> QED BY <1>2, <2>3, <2>4 DEF WatchInv
<1>4. CASE P!TurnStart
  <2>1. alarm' = alarm BY <1>4 DEF P!TurnStart, P!Printed
  <2>2. lastOutput' = 0 /\ lastProgress' = (IF lastProgress = P!Never THEN 0 ELSE lastProgress)
          /\ turnEnded' = P!Never /\ busWaitLeft' = P!Far /\ waits' = 0 /\ tools' = 0 /\ inTurn'
    BY <1>4 DEF P!TurnStart, P!Printed, P!NoTools
  <2>3. Begun' BY <2>2 DEF WatchInv, WatchTypes, Begun, P!Never, P!Far
  <2>4. WatchTypes' BY <2>1, <2>2 DEF WatchInv, WatchTypes, P!Never, P!Far
  <2> QED BY <1>2, <2>3, <2>4 DEF WatchInv
<1>5. CASE P!TurnEnd
  <2>1. alarm' = alarm BY <1>5 DEF P!TurnEnd, P!Printed
  <2>2. lastOutput' = 0 /\ lastProgress' = 0 /\ turnEnded' = 0 /\ busWaitLeft' = P!Far
          /\ waits' = 0 /\ tools' = 0 /\ ~inTurn'
    BY <1>5 DEF P!TurnEnd, P!Printed, P!NoTools
  <2>3. Begun' BY <2>2 DEF Begun, P!Never, P!Far
  <2>4. WatchTypes' BY <2>1, <2>2 DEF WatchInv, WatchTypes, P!Never, P!Far
  <2> QED BY <1>2, <2>3, <2>4 DEF WatchInv
<1>6. ASSUME NEW t \in BusWaits \cup {P!Far}, P!ToolExecutionStart(t) PROVE WatchInv'
  <2>1. t \in Int /\ t <= P!Far BY DEF Budgets, P!Far
  <2>2. lastOutput' = 0 /\ lastProgress' = 0 /\ turnEnded' = P!Never /\ tools' = tools + 1 /\ inTurn'
          /\ alarm' = alarm
    BY <1>6 DEF P!ToolExecutionStart, P!Printed
  <2>3. waits' \in Int /\ busWaitLeft' \in Int /\ waits' \in 0..(tools + 1) /\ busWaitLeft' <= P!Far
    BY <1>6, <2>1 DEF P!ToolExecutionStart, WatchInv, WatchTypes, Begun, P!Most, P!Far
  <2>4. WatchTypes' BY <2>2, <2>3 DEF WatchInv, WatchTypes, P!Never
  <2>5. Begun' BY <2>2, <2>3 DEF WatchInv, WatchTypes, Begun, P!Never, P!Far
  <2> QED BY <1>2, <2>4, <2>5 DEF WatchInv
<1>7. ASSUME NEW b \in BOOLEAN, P!ToolExecutionEnd(b) PROVE WatchInv'
  <2>1. lastOutput' = 0 /\ lastProgress' = lastProgress /\ turnEnded' = turnEnded
          /\ tools' = tools - 1 /\ (inTurn' <=> inTurn) /\ alarm' = alarm
    BY <1>7 DEF P!ToolExecutionEnd, P!Printed
  <2>2. waits' \in Int /\ 0 <= waits' /\ waits' <= tools' /\ tools > 0
    BY <1>7, <2>1 DEF P!ToolExecutionEnd, WatchInv, WatchTypes, Begun
  <2>3. busWaitLeft' \in Int /\ busWaitLeft' <= P!Far
    BY <1>7 DEF P!ToolExecutionEnd, WatchInv, WatchTypes, Begun, P!Far
  <2>4. WatchTypes' BY <2>1, <2>2, <2>3 DEF WatchInv, WatchTypes
  <2>5. Begun' BY <2>1, <2>2, <2>3 DEF WatchInv, WatchTypes, Begun, P!Never, P!Far
  <2> QED BY <1>2, <2>4, <2>5 DEF WatchInv
<1> QED BY <1>3, <1>4, <1>5, <1>6, <1>7

\* The goroutine goes to sleep until the nearest deadline.
LEMMA RunKeeps ==
  ASSUME Budgets, WatchInv, P!Run
  PROVE  WatchInv'
<1>1. P!Deadline' = P!Deadline BY DEF P!Run, P!snapshot, P!Deadline
<1>2. P!Deadline \in Int BY DeadlineType DEF WatchInv
<1>3. WatchTypes' /\ Begun' BY <1>2 DEF WatchInv, WatchTypes, Begun, P!Run, P!snapshot
<1>4. InTime'
  <2>1. CASE P!Deadline <= 0
    <3>1. P!Reason # "" BY DEF P!Reason
    <3> QED BY <2>1, <3>1 DEF P!Run, InTime
  <2>2. CASE P!Deadline > 0
    <3>1. ~(P!Deadline <= 0) BY <1>2, <2>2
    <3>2. alarm' = P!Deadline BY <3>1, Zenon DEF P!Run
    <3>3. 0 <= alarm' /\ alarm' <= P!Deadline' BY <1>1, <1>2, <2>2, <3>2
    <3> QED BY <3>3 DEF InTime
  <2> QED BY <1>2, <2>1, <2>2
<1> QED BY <1>3, <1>4 DEF WatchInv

\* A tick brings timer and deadline nearer by one at most, and the timer was not due.
LEMMA TickKeeps ==
  ASSUME Budgets, WatchInv, P!Tick
  PROVE  WatchInv'
<1> DEFINE Aged(age, older) ==
      /\ older \in Int /\ older >= P!Never /\ older <= age + 1
      /\ age = P!Never => older = P!Never
      /\ age >= 0 => older >= 0
<1>0. /\ IdleTimeout \in 1..98 /\ ForwardTimeout \in 1..98 /\ TurnEndGrace \in 1..98
      /\ lastOutput \in Int /\ lastProgress \in Int /\ turnEnded \in Int /\ turnEnded >= 0 - 1
  BY Numbers DEF WatchInv
<1>1. /\ Aged(lastOutput, lastOutput') /\ Aged(lastProgress, lastProgress')
      /\ Aged(turnEnded, turnEnded')
  <2>1. lastOutput \in Int /\ lastOutput >= P!Never /\ lastProgress \in Int /\ lastProgress >= P!Never
          /\ turnEnded \in Int /\ turnEnded >= P!Never
    BY DEF WatchInv, WatchTypes, Begun
  <2>2. IdleTimeout + 1 \in Int /\ IdleTimeout + 1 >= 0 /\ ForwardTimeout + 1 \in Int
          /\ ForwardTimeout + 1 >= 0 /\ TurnEndGrace + 1 \in Int /\ TurnEndGrace + 1 >= 0
    BY DEF Budgets, P!Far
  <2>3. lastOutput' = P!Older(lastOutput, IdleTimeout + 1)
          /\ lastProgress' = P!Older(lastProgress, ForwardTimeout + 1)
          /\ turnEnded' = P!Older(turnEnded, TurnEndGrace + 1)
    BY DEF P!Tick
  <2>4. Aged(lastOutput, lastOutput') BY <2>1, <2>2, <2>3, Ages
  <2>5. Aged(lastProgress, lastProgress') BY <2>1, <2>2, <2>3, Ages
  <2>6. Aged(turnEnded, turnEnded') BY <2>1, <2>2, <2>3, Ages
  <2> QED BY <2>4, <2>5, <2>6
<1> DEFINE d == P!Deadline
<1>2. alarm \in Int /\ 0 < alarm /\ alarm <= d /\ d \in Int /\ d <= P!Far
  BY DeadlineType DEF P!Tick, WatchInv, InTime, WatchTypes
<1>3. /\ tools' = tools /\ waits' = waits /\ (inTurn' <=> inTurn)
      /\ busWaitLeft' = P!Nearer(busWaitLeft) /\ alarm' = P!Nearer(alarm)
  BY DEF P!Tick
<1>4. d # P!Far => alarm' = alarm - 1
  BY <1>2, <1>3 DEF P!Nearer, P!Most, P!Far
<1>5. alarm' >= 0 /\ alarm' \in Int /\ alarm' <= P!Far
  BY <1>2, <1>3 DEF P!Nearer, P!Most, P!Far
<1>6. WatchTypes' /\ Begun'
  <2>1. busWaitLeft' \in Int /\ busWaitLeft' <= P!Far
    BY <1>3 DEF WatchInv, WatchTypes, Begun, P!Nearer, P!Most, P!Far
  <2>2. WatchTypes' BY <1>1, <1>3, <1>5, <2>1 DEF WatchInv, WatchTypes
  <2>3. Begun' BY <1>1, <1>3, <2>1 DEF WatchInv, Begun
  <2> QED BY <2>2, <2>3
<1>7. d' \in Int /\ (d # P!Far => d' >= d - 1) /\ (d = P!Far => d' = P!Far)
  <2>1. CASE tools > 0 /\ tools = waits
    <3>1. d = busWaitLeft /\ d' = P!Nearer(busWaitLeft) BY <1>3, <2>1 DEF P!Deadline, WatchInv, WatchTypes
    <3> QED BY <3>1, <1>2 DEF P!Nearer, P!Most, P!Far
  <2>2. CASE tools > 0 /\ tools # waits
    <3>1. d = P!Far /\ d' = P!Far BY <1>3, <2>2 DEF P!Deadline, WatchInv, WatchTypes
    <3> QED BY <3>1 DEF P!Far
  <2>3. CASE ~(tools > 0) /\ ~inTurn
    <3>1. d = (IF turnEnded = P!Never THEN P!Far ELSE TurnEndGrace - turnEnded)
      BY <2>3 DEF P!Deadline
    <3>2. d' = (IF turnEnded' = P!Never THEN P!Far ELSE TurnEndGrace - turnEnded')
      BY <1>3, <2>3 DEF P!Deadline
    <3>3. CASE turnEnded = P!Never
      <4>1. turnEnded' = P!Never BY <1>1, <3>3
      <4> QED BY <3>1, <3>2, <3>3, <4>1 DEF P!Far
    <3>4. CASE turnEnded # P!Never
      <4>1. turnEnded >= 0 BY <1>0, <3>4 DEF P!Never
      <4>2. turnEnded' >= 0 /\ turnEnded' <= turnEnded + 1 /\ turnEnded' \in Int BY <1>1, <4>1
      <4>3. turnEnded' # P!Never BY <4>2 DEF P!Never
      <4>4. d = TurnEndGrace - turnEnded /\ d' = TurnEndGrace - turnEnded' BY <3>1, <3>2, <3>4, <4>3
      <4>5. /\ TurnEndGrace - turnEnded' \in Int /\ TurnEndGrace - turnEnded # 99
            /\ TurnEndGrace - turnEnded' >= TurnEndGrace - turnEnded - 1
        BY <1>0, <4>1, <4>2, Falls
      <4> QED BY <4>4, <4>5 DEF P!Far
    <3> QED BY <3>3, <3>4
  <2>4. CASE ~(tools > 0) /\ inTurn
    <3>1. d = P!Least(ForwardTimeout - lastProgress, IdleTimeout - lastOutput)
      BY <2>4 DEF P!Deadline
    <3>2. d' = P!Least(ForwardTimeout - lastProgress', IdleTimeout - lastOutput')
      BY <1>3, <2>4 DEF P!Deadline
    <3>3. lastOutput >= 0 /\ lastProgress >= 0 BY <2>4 DEF WatchInv, Begun
    <3>4. lastOutput' <= lastOutput + 1 /\ lastProgress' <= lastProgress + 1
            /\ lastOutput' \in Int /\ lastProgress' \in Int
      BY <1>1
    <3>5. /\ P!Least(ForwardTimeout - lastProgress', IdleTimeout - lastOutput') \in Int
          /\ P!Least(ForwardTimeout - lastProgress, IdleTimeout - lastOutput) < 99
          /\ P!Least(ForwardTimeout - lastProgress', IdleTimeout - lastOutput')
               >= P!Least(ForwardTimeout - lastProgress, IdleTimeout - lastOutput) - 1
      BY <1>0, <3>3, <3>4, LeastFalls
    <3> QED BY <3>1, <3>2, <3>5, <1>2 DEF P!Far
  <2> QED BY <2>1, <2>2, <2>3, <2>4
<1>8. InTime'
  <2>1. 0 <= alarm' /\ alarm' <= d' BY <1>2, <1>4, <1>5, <1>7 DEF P!Far
  <2> QED BY <2>1 DEF InTime
<1> QED BY <1>6, <1>8 DEF WatchInv

\* When the nearest deadline is not over, none is.
LEMMA Ahead ==
  ASSUME Budgets, WatchTypes, Begun, 0 <= P!Deadline
  PROVE  /\ inTurn /\ tools = 0 => lastOutput <= IdleTimeout /\ lastProgress <= ForwardTimeout
         /\ ~inTurn => turnEnded <= TurnEndGrace
         /\ tools > 0 /\ tools = waits => busWaitLeft >= 0
<1>1. /\ IdleTimeout \in 1..98 /\ ForwardTimeout \in 1..98 /\ TurnEndGrace \in 1..98
      /\ lastOutput \in Int /\ lastProgress \in Int /\ turnEnded \in Int /\ turnEnded >= 0 - 1
  BY Numbers
<1>2. ASSUME 0 <= P!Least(ForwardTimeout - lastProgress, IdleTimeout - lastOutput)
      PROVE  lastOutput <= IdleTimeout /\ lastProgress <= ForwardTimeout
  BY <1>1, <1>2 DEF P!Least
<1>3. ASSUME 0 <= (IF turnEnded = P!Never THEN P!Far ELSE TurnEndGrace - turnEnded)
      PROVE  turnEnded <= TurnEndGrace
  BY <1>1, <1>3 DEF P!Never, P!Far
<1>4. inTurn /\ tools = 0 => P!Deadline = P!Least(ForwardTimeout - lastProgress, IdleTimeout - lastOutput)
  BY DEF P!Deadline
<1>5. ~inTurn => P!Deadline = IF turnEnded = P!Never THEN P!Far ELSE TurnEndGrace - turnEnded
  BY DEF P!Deadline, Begun
<1>6. tools > 0 /\ tools = waits => P!Deadline = busWaitLeft BY DEF P!Deadline
<1>7. tools > 0 /\ tools = waits => busWaitLeft >= 0 BY <1>6 DEF WatchTypes
<1> QED BY <1>2, <1>3, <1>4, <1>5, <1>7

\* The invariant says what the budgets promise.
LEMMA WatchSuffices ==
  ASSUME Budgets, WatchInv
  PROVE  P!StallsNoticed
<1>1. P!Deadline \in Int /\ alarm \in Int BY DeadlineType DEF WatchInv, WatchTypes
<1>2. 0 <= alarm /\ alarm <= P!Deadline => 0 <= P!Deadline BY <1>1
<1>3. stalled = "" /\ ~wake => 0 <= alarm /\ alarm <= P!Deadline BY DEF WatchInv, InTime
<1>4. stalled = "" /\ ~wake => 0 <= P!Deadline BY <1>2, <1>3
<1> QED BY <1>4, Ahead DEF WatchInv, P!StallsNoticed

\* The component by itself.
LEMMA WatchdogNotices ==
  ASSUME Budgets
  PROVE  P!Spec => []P!StallsNoticed
<1>1. P!Init => WatchInv
  <2> SUFFICES ASSUME P!Init PROVE WatchInv
    OBVIOUS
  <2>1. ~inTurn /\ wake BY DEF P!Init
  <2>2. /\ tools = 0 /\ waits = 0 /\ lastOutput = P!Never /\ lastProgress = P!Never
        /\ turnEnded = P!Never /\ busWaitLeft = P!Far /\ alarm = P!Far
    BY DEF P!Init
  <2>3. WatchTypes BY <2>2 DEF WatchTypes, P!Never, P!Far
  <2>4. Begun BY <2>1, <2>2 DEF Begun, P!Never, P!Far
  <2>5. InTime BY <2>1 DEF InTime
  <2> QED BY <2>3, <2>4, <2>5 DEF WatchInv
<1>2. WatchInv /\ [P!Next]_(P!vars) => WatchInv'
  <2> SUFFICES ASSUME WatchInv, [P!Next]_(P!vars) PROVE WatchInv'
    OBVIOUS
  <2>1. CASE UNCHANGED P!vars
    BY <2>1 DEF P!vars, P!snapshot, WatchInv, WatchTypes, Begun, InTime, P!Deadline
  <2>2. CASE P!Run BY <2>2, RunKeeps
  <2>3. CASE P!Tick BY <2>3, TickKeeps
  <2> QED BY <2>1, <2>2, <2>3, OutputKeeps DEF P!Next
<1>3. WatchInv => P!StallsNoticed BY WatchSuffices
<1> QED BY <1>1, <1>2, <1>3, PTL DEF P!Spec

\* A behaviour of the composition is one of the watchdog.
LEMMA SideIsWatchdog == SideSpec => P!Spec
<1>1. SideInit => P!Init BY DEF SideInit
<1>2. [SideNext]_sideVars => [P!Next]_(P!vars)
  BY DEF SideNext, Waits, Files, sideVars, watchVars, P!vars, P!snapshot
<1> QED BY <1>1, <1>2, PTL DEF SideSpec, P!Spec

\* For any budgets shorter than for ever: the one timer of the watchdog, re-armed by
\* output that arrives while it fires, never lets a stall pass its deadline unnoticed
\* (agent_progress.go:312).
THEOREM StallsAreNoticed ==
  ASSUME Budgets
  PROVE  SideSpec => []StallsNoticed
<1>1. P!StallsNoticed => StallsNoticed BY DEF StallsNoticed
<1> QED BY <1>1, WatchdogNotices, SideIsWatchdog, PTL

-----------------------------------------------------------------------------
(* The logins of Targets. *)

\* Profiles, accounts and the name of a race are told apart, and the caps are numbers;
\* an account has a first token.
LoginNames ==
  /\ Nobody \notin Profiles \cup Accounts /\ Accounts \cap Profiles = {}
  /\ "overtaken" \notin Accounts
  /\ MaxBackups \in Nat /\ MaxRescues \in Nat /\ MaxGen \in Nat \ {0}

\* No rescue and no backup is so old that the next one drops it: the caps, 5 and 10 in
\* the code (login_import.go:237, backups.go:22), were not reached.
RoomForLogins == Len(rescues) < MaxRescues /\ \A p \in Profiles : Len(backups[p]) < MaxBackups

LoginTypes ==
  /\ T!IsLogin(live) => live \in T!Logins
  /\ dirs \subseteq Profiles
  /\ stored \in [Profiles -> T!Logins \cup {T!NoFile, T!Link}]
  /\ backups \in [Profiles -> Seq(T!Logins)]
  /\ rescues \in Seq(T!Logins)
  /\ active \in dirs
  /\ job \in T!Job /\ pass \in T!Pass /\ renewed \in Profiles \cup {Nobody}
  /\ newest \in [Accounts -> 0..MaxGen]
  /\ owner \in [Profiles -> Accounts \cup {Nobody}]
  /\ migrated \in BOOLEAN

\* No login is newer than the last one its account was issued.
Issued(f) == f.gen <= newest[f.account]
AllIssued ==
  /\ T!IsLogin(live) => Issued(live)
  /\ \A p \in Profiles : T!IsLogin(stored[p]) => Issued(stored[p])
  /\ T!IsLogin(job.data) => Issued(job.data)

\* A login that may not be lost, and one that is kept beside the live and stored files.
Fresh(f) == f.account \notin excused /\ f.gen = newest[f.account]
Copied(f) == f \in T!ToSet(rescues) \/ \E p \in dirs : f \in T!ToSet(backups[p])

EmptyOutside == \A p \in Profiles \ dirs : stored[p] = T!NoFile

\* The login that a pass files was rescued before.
PassOK ==
  /\ T!IsLogin(pass.data) => Issued(pass.data)
  /\ pass.step \in {"decide", "file", "recheck", "strip"} => pass.data \in T!ToSet(rescues)

\* What an operation overwrites next has a copy: the login a profile held is backed up
\* before another is stored there, and a profile that is made for a login is empty.
FileOK ==
  job.op = "file" =>
    /\ job.step \in {"backup", "store", "point"} /\ job.name \in dirs
    /\ pass.step = "file" /\ job.data = pass.data
    /\ job.step # "point" /\ pass.create =>
         /\ job.step = "store" /\ job.name # active
         /\ stored[job.name] = T!NoFile /\ backups[job.name] = << >>
    /\ job.step = "store" /\ T!IsLogin(stored[job.name]) =>
         stored[job.name] = job.data \/ stored[job.name] \in T!ToSet(backups[job.name])
    /\ job.step = "point" => migrated \/ "overtaken" \in excused

StripOK == job.op = "strip" => job.step = "strip" /\ pass.step = "strip" /\ job.data = pass.data

SwitchOK ==
  job.op = "switch" =>
    /\ job.step \in {"fan", "point", "clear"} /\ migrated
    /\ job.name \in dirs /\ job.from \in dirs
    /\ job.step = "fan" => job.data # T!NoFile

\* An import that is undone removes a profile whose login is among the rescues.
ImportOK ==
  job.op = "import" =>
    /\ job.step \in {"store", "point", "strip"} /\ migrated /\ job.name \in dirs
    /\ job.data \in T!ToSet(rescues)
    /\ job.step # "strip" =>
         /\ stored[job.name] \in {T!NoFile, job.data} /\ backups[job.name] = <<job.data>>
         /\ job.name # active

\* From its backup on, the live login is in the backups of the profile that becomes its
\* home.
MigrateOK ==
  job.op = "migrate" =>
    /\ job.step \in {"backup", "unlink", "store", "strip", "mark"} /\ ~migrated
    /\ job.name = active
    /\ job.step # "mark" => job.data # T!NoFile
    /\ job.step \in {"unlink", "store", "strip"} => job.data \in T!ToSet(backups[job.name])

\* Once the full login is back in the live file, the stored one is the same, or given up.
UnmigrateOK ==
  job.op = "unmigrate" =>
    /\ job.step \in {"restore", "catch", "mark", "link"}
    /\ job.name = active /\ job.data # T!NoFile
    /\ migrated <=> job.step # "link"
    /\ job.step = "restore" => stored[active] = job.data
    /\ job.step = "catch" => live = T!NoFile \/ T!IsLogin(live)
    /\ job.step # "restore" =>
         T!IsLogin(stored[active]) /\ (Fresh(stored[active]) => live = stored[active])

\* In the link model the stored file of the active profile may be replaced by a link any
\* time: its login is in the live file too, or copied.
Linked ==
  ~migrated /\ "overtaken" \notin excused /\ T!IsLogin(stored[active]) /\ Fresh(stored[active]) =>
    live = stored[active] \/ Copied(stored[active])

JobsOK == FileOK /\ StripOK /\ SwitchOK /\ ImportOK /\ MigrateOK /\ UnmigrateOK

LoginInv ==
  /\ LoginTypes /\ AllIssued /\ EmptyOutside /\ PassOK /\ JobsOK
  /\ Linked /\ T!LoginKept /\ T!OwnAccountOnly

-----------------------------------------------------------------------------
\* With room for one more, nothing is dropped for a new one.
LEMMA AddedLogin ==
  ASSUME NEW seq \in Seq(T!Logins), NEW f \in T!Logins, NEW cap \in Nat, Len(seq) < cap
  PROVE  /\ T!Capped(Append(seq, f), cap) \in Seq(T!Logins)
         /\ f \in T!ToSet(T!Capped(Append(seq, f), cap))
         /\ T!ToSet(seq) \subseteq T!ToSet(T!Capped(Append(seq, f), cap))
<1> DEFINE more == Append(seq, f)
<1>1. /\ more \in Seq(T!Logins) /\ Len(more) = Len(seq) + 1 /\ Len(seq) \in Nat
      /\ more[Len(seq) + 1] = f /\ \A i \in 1..Len(seq) : more[i] = seq[i]
  OBVIOUS
<1> HIDE DEF more
<1>2. ~(Len(more) > cap) BY <1>1
<1>3. T!Capped(more, cap) = SubSeq(more, 1, Len(more)) BY <1>2 DEF T!Capped
<1>4. T!Capped(more, cap) = more BY <1>1, <1>3
<1>5. DOMAIN seq = 1..Len(seq) /\ DOMAIN more = 1..(Len(seq) + 1) BY <1>1
<1>6. f \in T!ToSet(more) BY <1>1, <1>5 DEF T!ToSet
<1>7. T!ToSet(seq) \subseteq T!ToSet(more) BY <1>1, <1>5 DEF T!ToSet
<1> QED BY <1>1, <1>4, <1>6, <1>7 DEF more

\* A rescue and a backup add a login and drop none.
LEMMA RescuedKeeps ==
  ASSUME LoginNames, LoginTypes, RoomForLogins, NEW f \in T!Logins, rescues' = T!Rescued(f)
  PROVE  /\ rescues' \in Seq(T!Logins) /\ f \in T!ToSet(rescues')
         /\ T!ToSet(rescues) \subseteq T!ToSet(rescues')
<1>1. rescues \in Seq(T!Logins) /\ Len(rescues) < MaxRescues /\ MaxRescues \in Nat
  BY DEF LoginNames, LoginTypes, RoomForLogins
<1>2. CASE f \in T!ToSet(rescues) BY <1>1, <1>2 DEF T!Rescued
<1>3. CASE f \notin T!ToSet(rescues)
  <2>1. rescues' = T!Capped(Append(rescues, f), MaxRescues) BY <1>3 DEF T!Rescued
  <2> QED BY <1>1, <2>1, AddedLogin
<1> QED BY <1>2, <1>3

LEMMA BackedKeeps ==
  ASSUME LoginNames, LoginTypes, RoomForLogins, NEW p \in Profiles, NEW f \in T!Logins,
         backups' = T!Backed(p, f)
  PROVE  /\ backups' \in [Profiles -> Seq(T!Logins)] /\ f \in T!ToSet(backups'[p])
         /\ \A q \in Profiles : T!ToSet(backups[q]) \subseteq T!ToSet(backups'[q])
<1>1. backups \in [Profiles -> Seq(T!Logins)] /\ backups[p] \in Seq(T!Logins)
        /\ Len(backups[p]) < MaxBackups /\ MaxBackups \in Nat
  BY DEF LoginNames, LoginTypes, RoomForLogins
<1>2. CASE backups[p] # << >> /\ T!Last(backups[p]) = f
  <2>1. backups' = backups BY <1>2 DEF T!Backed
  <2>2. Len(backups[p]) \in DOMAIN backups[p] /\ backups[p][Len(backups[p])] = f
    BY <1>1, <1>2 DEF T!Last
  <2>3. f \in T!ToSet(backups[p]) BY <2>2 DEF T!ToSet
  <2> QED BY <1>1, <2>1, <2>3
<1>3. CASE ~(backups[p] # << >> /\ T!Last(backups[p]) = f)
  <2>1. backups' = [backups EXCEPT ![p] = T!Capped(Append(backups[p], f), MaxBackups)]
    BY <1>3 DEF T!Backed
  <2>2. /\ T!Capped(Append(backups[p], f), MaxBackups) \in Seq(T!Logins)
        /\ f \in T!ToSet(T!Capped(Append(backups[p], f), MaxBackups))
        /\ T!ToSet(backups[p]) \subseteq T!ToSet(T!Capped(Append(backups[p], f), MaxBackups))
    BY <1>1, AddedLogin
  <2>3. /\ backups'[p] = T!Capped(Append(backups[p], f), MaxBackups)
        /\ \A q \in Profiles \ {p} : backups'[q] = backups[q]
        /\ backups' \in [Profiles -> Seq(T!Logins)]
    BY <1>1, <2>1, <2>2
  <2> QED BY <2>2, <2>3
<1> QED BY <1>2, <1>3

\* What is in a sequence of logins is a login.
LEMMA InSeq ==
  ASSUME NEW s \in Seq(T!Logins), NEW f \in T!ToSet(s)
  PROVE  f \in T!Logins
BY DEF T!ToSet

-----------------------------------------------------------------------------
Kept(f) == live = f \/ Copied(f) \/ \E p \in dirs : stored[p] = f

\* A login that is kept before a step is kept after it.
LEMMA KeptStays ==
  ASSUME LoginNames, LoginTypes, T!LoginKept, newest' = newest, excused \subseteq excused',
         \A f \in T!Logins : Kept(f) /\ Fresh(f)' /\ "overtaken" \notin excused' => Kept(f)'
  PROVE  T!LoginKept'
<1> SUFFICES ASSUME NEW a \in Accounts, a \notin excused', newest[a] > 0, "overtaken" \notin excused'
             PROVE  Kept(T!Newest(a, newest[a]))'
  BY DEF T!LoginKept, Kept, Copied, T!Newest
<1>1. newest[a] \in 1..MaxGen BY DEF LoginTypes, LoginNames
<1>2. T!Newest(a, newest[a]) \in T!Logins BY <1>1 DEF T!Logins, T!File, T!Newest
<1>3. Kept(T!Newest(a, newest[a])) BY DEF T!LoginKept, Kept, Copied, T!Newest
<1>4. Fresh(T!Newest(a, newest[a]))' BY DEF Fresh, T!Newest
<1> QED BY <1>2, <1>3, <1>4

\* The files that may change without their login: the live one, and where the pointer is.
LEMMA FilesStay ==
  ASSUME LoginNames, LoginInv, stored' = stored, newest' = newest, owner' = owner,
         dirs \subseteq dirs', excused \subseteq excused',
         \A f \in T!Logins : Copied(f) => Copied(f)',
         T!IsLogin(live) => live' = live \/ live.account \in excused' \/ Copied(live),
         (active' = active /\ migrated' = migrated) \/ migrated' \/ "overtaken" \in excused'
  PROVE  EmptyOutside' /\ Linked' /\ T!LoginKept' /\ T!OwnAccountOnly'
<1>1. EmptyOutside' BY DEF LoginInv, EmptyOutside
<1>2. T!OwnAccountOnly' BY DEF LoginInv, T!OwnAccountOnly
<1>3. LoginTypes /\ Linked /\ T!LoginKept BY DEF LoginInv
<1>4. ASSUME NEW f \in T!Logins, Fresh(f)', live = f
      PROVE  live' = f \/ Copied(f)'
  <2>1. T!IsLogin(f) BY DEF T!Logins, T!File, T!IsLogin
  <2>2. f.account \notin excused' BY <1>4 DEF Fresh
  <2> QED BY <1>4, <2>1, <2>2
<1>5. Linked'
  <2> SUFFICES ASSUME ~migrated', "overtaken" \notin excused', T!IsLogin(stored[active]),
                        Fresh(stored[active])',
                      active' = active, migrated' = migrated
               PROVE  live' = stored[active] \/ Copied(stored[active])'
    BY DEF Linked
  <2>1. Fresh(stored[active]) BY DEF Fresh
  <2>2. stored[active] \in T!Logins
    <3>1. active \in Profiles BY <1>3 DEF LoginTypes
    <3>2. stored[active] \in T!Logins \cup {T!NoFile, T!Link} BY <1>3, <3>1 DEF LoginTypes
    <3> QED BY <3>2 DEF T!IsLogin, T!NoFile, T!Link
  <2>3. live = stored[active] \/ Copied(stored[active]) BY <1>3, <2>1 DEF Linked
  <2>4. CASE live = stored[active] BY <1>4, <2>2, <2>4
  <2>5. CASE Copied(stored[active]) BY <2>2, <2>5
  <2> QED BY <2>3, <2>4, <2>5
<1>6. T!LoginKept'
  <2>1. ASSUME NEW f \in T!Logins, Kept(f), Fresh(f)' PROVE Kept(f)'
    <3>1. CASE live = f BY <1>4, <2>1, <3>1 DEF Kept
    <3>2. CASE Copied(f) BY <3>2 DEF Kept
    <3>3. CASE \E p \in dirs : stored[p] = f BY <3>3 DEF Kept
    <3> QED BY <2>1, <3>1, <3>2, <3>3 DEF Kept
  <2> QED BY <1>3, <2>1, KeptStays
<1> QED BY <1>1, <1>2, <1>5, <1>6

-----------------------------------------------------------------------------
\* What is known of an operation is known of the one that is under way.
LEMMA NoJobOK ==
  ASSUME job'.op = "none" PROVE JobsOK'
BY DEF JobsOK, FileOK, StripOK, SwitchOK, ImportOK, MigrateOK, UnmigrateOK

LEMMA OneJobOK ==
  ASSUME \/ job'.op = "file" /\ FileOK'
         \/ job'.op = "strip" /\ StripOK'
         \/ job'.op = "switch" /\ SwitchOK'
         \/ job'.op = "import" /\ ImportOK'
         \/ job'.op = "migrate" /\ MigrateOK'
         \/ job'.op = "unmigrate" /\ UnmigrateOK'
  PROVE JobsOK'
BY DEF JobsOK, FileOK, StripOK, SwitchOK, ImportOK, MigrateOK, UnmigrateOK

StepNames == {"none", "fan", "point", "clear", "backup", "store", "strip", "restore", "catch",
                "mark", "unlink", "link"}

\* How operations and passes end and go on.
LEMMA JobDone ==
  ASSUME T!Done PROVE job' = T!NoJob /\ job' \in T!Job /\ job'.op = "none" /\ job'.data = T!NoFile
           /\ JobsOK'
<1>1. job' = T!NoJob /\ job'.op = "none" /\ job'.data = T!NoFile BY DEF T!Done, T!NoJob
<1>2. T!NoJob \in T!Job BY DEF T!NoJob, T!Job
<1> QED BY <1>1, <1>2, NoJobOK

LEMMA JobGoes ==
  ASSUME job \in T!Job, NEW s \in StepNames, T!Goto(s)
  PROVE  /\ job' \in T!Job /\ job'.step = s
         /\ job'.op = job.op /\ job'.name = job.name /\ job'.from = job.from
         /\ job'.data = job.data /\ job'.old = job.old
BY DEF T!Goto, T!Job, StepNames

LEMMA PassDone ==
  ASSUME T!PassEnds PROVE pass' \in T!Pass /\ pass'.step = "idle" /\ PassOK'
<1>1. pass' = T!Idle /\ pass'.step = "idle" /\ pass'.data = T!NoFile BY DEF T!PassEnds, T!Idle
<1>2. T!Idle \in T!Pass BY DEF T!Idle, T!Pass
<1> QED BY <1>1, <1>2 DEF PassOK, T!IsLogin, T!NoFile

LEMMA PassGoes ==
  ASSUME pass \in T!Pass, NEW s \in {"idle", "heal", "decide", "file", "recheck", "strip", "fan"},
         T!PassTo(s)
  PROVE  /\ pass' \in T!Pass /\ pass'.step = s
         /\ pass'.name = pass.name /\ (pass'.create <=> pass.create) /\ pass'.data = pass.data
BY Zenon, SMT DEF T!PassTo, T!Pass

\* A step that changes no stored file and issues no login.
LEMMA Moves ==
  ASSUME LoginNames, LoginInv, stored' = stored, newest' = newest, owner' = owner,
         dirs \subseteq dirs', dirs' \subseteq Profiles, excused \subseteq excused',
         rescues' \in Seq(T!Logins), backups' \in [Profiles -> Seq(T!Logins)],
         \A f \in T!Logins : Copied(f) => Copied(f)',
         T!IsLogin(live) => live' = live \/ live.account \in excused' \/ Copied(live),
         T!IsLogin(live') => live' \in {live, job.data},
         (active' = active /\ migrated' = migrated) \/ migrated' \/ "overtaken" \in excused',
         active' \in dirs', migrated' \in BOOLEAN, renewed' \in Profiles \cup {Nobody},
         job' \in T!Job, pass' \in T!Pass, T!IsLogin(job'.data) => Issued(job'.data),
         PassOK', JobsOK'
  PROVE  LoginInv'
<1>1. EmptyOutside' /\ Linked' /\ T!LoginKept' /\ T!OwnAccountOnly' BY FilesStay
<1>2. LoginTypes /\ AllIssued BY DEF LoginInv
<1>3. live' \in {live, job.data} /\ T!IsLogin(live') => live' \in T!Logins
  <2>1. job.data \in T!Logins \cup {T!NoFile} BY <1>2 DEF LoginTypes, T!Job
  <2>2. T!IsLogin(job.data) => job.data \in T!Logins BY <2>1 DEF T!IsLogin, T!NoFile
  <2> QED BY <1>2, <2>2 DEF LoginTypes
<1>4. LoginTypes' BY <1>2, <1>3 DEF LoginTypes
<1>5. AllIssued'
  <2>1. (T!IsLogin(live) => Issued(live))' BY <1>2 DEF AllIssued, Issued
  <2>2. (\A p \in Profiles : T!IsLogin(stored[p]) => Issued(stored[p]))' BY <1>2 DEF AllIssued, Issued
  <2>3. (T!IsLogin(job.data) => Issued(job.data))' BY DEF Issued
  <2> QED BY <2>1, <2>2, <2>3 DEF AllIssued
<1> QED BY <1>1, <1>4, <1>5 DEF LoginInv

\* Copies are only added.
LEMMA CopiesGrow ==
  ASSUME LoginTypes, dirs \subseteq dirs', T!ToSet(rescues) \subseteq T!ToSet(rescues'),
         \A q \in dirs : T!ToSet(backups[q]) \subseteq T!ToSet(backups'[q])
  PROVE  \A f \in T!Logins : Copied(f) => Copied(f)'
BY DEF Copied

\* A step of the pass that changes no file but the rescues.
LEMMA PassMoves ==
  ASSUME LoginNames, LoginInv,
         UNCHANGED <<live, dirs, stored, backups, active, migrated, job, renewed, newest, T!history>>,
         rescues' \in Seq(T!Logins), T!ToSet(rescues) \subseteq T!ToSet(rescues'),
         job.op \notin {"file", "strip"}, pass' \in T!Pass, PassOK'
  PROVE  LoginInv'
<1>1. LoginTypes /\ AllIssued /\ JobsOK BY DEF LoginInv
<1>2. /\ stored' = stored /\ newest' = newest /\ owner' = owner /\ excused' = excused /\ dirs' = dirs
      /\ backups' = backups /\ live' = live /\ active' = active /\ migrated' = migrated
      /\ renewed' = renewed
      /\ job' = job
  BY DEF T!history
<1>3. \A f \in T!Logins : Copied(f) => Copied(f)' BY <1>1, <1>2, CopiesGrow
<1>4. JobsOK'
  <2>1. FileOK' /\ StripOK' BY <1>2 DEF FileOK, StripOK
  <2>2. SwitchOK' BY <1>1, <1>2 DEF JobsOK, SwitchOK
  <2>3. ImportOK' BY <1>1, <1>2 DEF JobsOK, ImportOK
  <2>4. MigrateOK' BY <1>1, <1>2 DEF JobsOK, MigrateOK
  <2>5. UnmigrateOK'
    <3>1. (Fresh(stored[active]))' <=> Fresh(stored[active]) BY <1>2 DEF Fresh
    <3> QED BY <1>1, <1>2, <3>1 DEF JobsOK, UnmigrateOK
  <2> QED BY <2>1, <2>2, <2>3, <2>4, <2>5 DEF JobsOK
<1>5. T!IsLogin(job'.data) => Issued(job'.data) BY <1>1, <1>2 DEF AllIssued
<1>6. /\ dirs' \subseteq Profiles /\ backups' \in [Profiles -> Seq(T!Logins)] /\ active' \in dirs'
      /\ migrated' \in BOOLEAN /\ renewed' \in Profiles \cup {Nobody} /\ job' \in T!Job
  BY <1>1, <1>2 DEF LoginTypes
<1> QED BY <1>2, <1>3, <1>4, <1>5, <1>6, Moves

\* A pass begins with a login in hand.
LEMMA PassBegins ==
  ASSUME NEW s \in {"heal", "decide"}, NEW d \in T!Logins,
         pass' = [T!Idle EXCEPT !.step = s, !.data = d]
  PROVE  pass' \in T!Pass /\ pass'.step = s /\ pass'.data = d
<1>1. T!Idle \in T!Pass BY DEF T!Idle, T!Pass
<1> QED BY <1>1 DEF T!Pass

\* The steps of the pass: what it takes from the live file it has rescued first.
LEMMA PassFindsLoginKeeps ==
  ASSUME LoginNames, LoginInv, RoomForLogins, T!PassFindsLogin
  PROVE  LoginInv'
<1>1. LoginTypes /\ AllIssued /\ JobsOK /\ PassOK /\ pass.step = "idle" /\ T!IsLogin(live)
  BY DEF LoginInv, T!PassFindsLogin, T!InPass
<1>2. live \in T!Logins BY <1>1 DEF LoginTypes
<1>3. job.op \notin {"file", "strip"} BY <1>1 DEF JobsOK, FileOK, StripOK
<1>4. UNCHANGED <<live, dirs, stored, backups, active, migrated, job, renewed, newest, T!history>>
  BY DEF T!PassFindsLogin
<1>5. CASE rescues' = T!Rescued(live) /\ pass' = [T!Idle EXCEPT !.step = "decide", !.data = live]
  <2>1. rescues' \in Seq(T!Logins) /\ live \in T!ToSet(rescues')
          /\ T!ToSet(rescues) \subseteq T!ToSet(rescues')
    BY <1>1, <1>2, <1>5, RescuedKeeps
  <2>2. pass' \in T!Pass /\ pass'.data = live BY <1>2, <1>5, PassBegins
  <2>3. PassOK' BY <1>1, <1>4, <2>1, <2>2 DEF PassOK, Issued, AllIssued
  <2> QED BY <1>3, <1>4, <2>1, <2>2, <2>3, PassMoves
<1>6. CASE UNCHANGED <<rescues, pass>>
  <2>1. PassOK' BY <1>1, <1>4, <1>6 DEF PassOK, Issued
  <2> QED BY <1>1, <1>3, <1>4, <1>6, <2>1, PassMoves DEF LoginTypes
<1> QED BY <1>5, <1>6 DEF T!PassFindsLogin

LEMMA PassFindsStaleKeeps ==
  ASSUME LoginNames, LoginInv, T!PassFindsStale
  PROVE  LoginInv'
<1>1. LoginTypes /\ AllIssued /\ JobsOK /\ pass.step = "idle"
  BY DEF LoginInv, T!PassFindsStale, T!InPass
<1>3. job.op \notin {"file", "strip"} BY <1>1 DEF JobsOK, FileOK, StripOK
<1>4. UNCHANGED <<live, dirs, stored, backups, active, migrated, job, renewed, newest, T!history>>
                  /\ rescues' = rescues
  BY DEF T!PassFindsStale, T!store
<1>2. stored[active] \in T!Logins
  <2>1. active \in Profiles /\ stored[active] \in T!Logins \cup {T!NoFile, T!Link}
    BY <1>1 DEF LoginTypes
  <2>2. T!IsLogin(stored[active]) BY DEF T!PassFindsStale, T!HealDue
  <2> QED BY <2>1, <2>2 DEF T!IsLogin, T!NoFile, T!Link
<1>5. pass' \in T!Pass /\ pass'.step = "heal" BY <1>2, PassBegins DEF T!PassFindsStale
<1>7. stored[active] \in T!Logins => Issued(stored[active])
  BY <1>1, <1>2 DEF AllIssued, LoginTypes, T!PassFindsStale, T!HealDue
<1>8. T!IsLogin(pass'.data) => Issued(pass'.data) BY <1>1, <1>2, <1>7, PassBegins DEF T!PassFindsStale
<1>6. PassOK' BY <1>4, <1>5, <1>8 DEF PassOK, Issued
<1> QED BY <1>1, <1>3, <1>4, <1>5, <1>6, PassMoves DEF LoginTypes

LEMMA PassDecidesKeeps ==
  ASSUME LoginNames, LoginInv, NEW sure \in BOOLEAN, T!PassDecides(sure)
  PROVE  LoginInv'
<1>1. LoginTypes /\ JobsOK /\ PassOK /\ pass.step = "decide" BY DEF LoginInv, T!PassDecides, T!InPass
<1>3. job.op \notin {"file", "strip"} BY <1>1 DEF JobsOK, FileOK, StripOK
<1>4. UNCHANGED <<live, dirs, stored, backups, active, migrated, job, renewed, newest, T!history>>
                  /\ rescues' = rescues
  BY DEF T!PassDecides, T!store
<1>5. PICK n \in IF pass.attempt > 0 THEN {pass.name} ELSE T!ChooseImport(pass.data, sure) :
        T!PassEnds \/ pass' = [pass EXCEPT !.step = "file", !.name = n, !.create = (n = Nobody)]
  BY DEF T!PassDecides
<1>6. n \in Profiles \cup {Nobody}
  <2>1. active \in Profiles /\ dirs \subseteq Profiles /\ pass.name \in Profiles \cup {Nobody}
    BY <1>1 DEF LoginTypes, T!Pass
  <2>2. T!ChooseImport(pass.data, sure) \subseteq Profiles \cup {Nobody}
    BY <2>1 DEF T!ChooseImport, T!SameLogin, T!HoldersOf
  <2> QED BY <1>5, <2>1, <2>2
<1>7. pass' \in T!Pass /\ PassOK'
  <2>1. CASE T!PassEnds BY <2>1, PassDone
  <2>2. CASE pass' = [pass EXCEPT !.step = "file", !.name = n, !.create = (n = Nobody)]
    <3>1. pass \in T!Pass BY <1>1 DEF LoginTypes
    <3>3. (n = Nobody) \in BOOLEAN OBVIOUS
    <3>2. pass' \in T!Pass /\ pass'.data = pass.data BY <1>6, <2>2, <3>1, <3>3 DEF T!Pass
    <3> QED BY <1>1, <1>4, <3>2 DEF PassOK, Issued
  <2> QED BY <1>5, <2>1, <2>2
<1> QED BY <1>1, <1>3, <1>4, <1>7, PassMoves DEF LoginTypes

LEMMA TryAgainKeeps ==
  ASSUME LoginNames, LoginInv, RoomForLogins, T!TryAgain, T!IsLogin(live),
         job.op \notin {"file", "strip"},
         UNCHANGED <<live, dirs, stored, backups, active, migrated, job, renewed, newest, T!history>>
  PROVE  LoginInv'
<1>1. LoginTypes /\ AllIssued /\ live \in T!Logins BY DEF LoginInv, LoginTypes
<1>2. CASE T!PassEnds /\ UNCHANGED rescues
  BY <1>1, <1>2, PassDone, PassMoves DEF LoginTypes
<1>3. CASE /\ pass.attempt # 2 /\ rescues' = T!Rescued(live)
           /\ pass' = [pass EXCEPT !.step = "decide", !.create = FALSE, !.attempt = @ + 1,
                                   !.data = live]
  <2>1. rescues' \in Seq(T!Logins) /\ live \in T!ToSet(rescues')
          /\ T!ToSet(rescues) \subseteq T!ToSet(rescues')
    BY <1>1, <1>3, RescuedKeeps
  <2>2. pass \in T!Pass BY <1>1 DEF LoginTypes
  <2>3. pass.attempt + 1 \in 0..2 BY <1>3, <2>2 DEF T!Pass
  <2>4. pass' \in T!Pass /\ pass'.data = live BY <1>1, <1>3, <2>2, <2>3 DEF T!Pass
  <2>5. PassOK' BY <1>1, <2>1, <2>4 DEF PassOK, Issued, AllIssued
  <2> QED BY <2>1, <2>4, <2>5, PassMoves
<1> QED BY <1>2, <1>3 DEF T!TryAgain

LEMMA PassRechecksKeeps ==
  ASSUME LoginNames, LoginInv, RoomForLogins, T!PassRechecks
  PROVE  LoginInv'
<1>1. LoginTypes /\ JobsOK /\ PassOK /\ pass.step = "recheck" BY DEF LoginInv, T!PassRechecks, T!InPass
<1>3. job.op \notin {"file", "strip"} BY <1>1 DEF JobsOK, FileOK, StripOK
<1>4. UNCHANGED <<live, dirs, stored, backups, active, migrated, job, renewed, newest, T!history>>
  BY DEF T!PassRechecks
<1>5. CASE T!PassEnds /\ UNCHANGED rescues
  BY <1>1, <1>3, <1>4, <1>5, PassDone, PassMoves DEF LoginTypes
<1>6. CASE T!IsLogin(live) /\ T!TryAgain BY <1>3, <1>4, <1>6, TryAgainKeeps
<1>7. CASE T!PassTo("strip") /\ UNCHANGED rescues
  <2>1. pass' \in T!Pass /\ pass'.data = pass.data BY <1>1, <1>7, PassGoes DEF LoginTypes
  <2>2. PassOK' BY <1>1, <1>4, <1>7, <2>1 DEF PassOK, Issued
  <2> QED BY <1>1, <1>3, <1>4, <1>7, <2>1, <2>2, PassMoves DEF LoginTypes
<1> QED BY <1>5, <1>6, <1>7 DEF T!PassRechecks

\* What an unchanged store leaves alone.
LEMMA StoreSame ==
  ASSUME UNCHANGED T!store
  PROVE  /\ dirs' = dirs /\ stored' = stored /\ backups' = backups /\ rescues' = rescues
         /\ active' = active /\ migrated' = migrated
BY DEF T!store

\* A step that may write the live file and no other.
LEMMA LiveMoves ==
  ASSUME LoginNames, LoginInv, UNCHANGED <<T!store, newest, owner>>, excused \subseteq excused',
         T!IsLogin(live) => live' = live \/ live.account \in excused' \/ Copied(live),
         T!IsLogin(live') => live' \in {live, job.data},
         renewed' \in Profiles \cup {Nobody}, job' \in T!Job, pass' \in T!Pass,
         T!IsLogin(job'.data) => Issued(job'.data), PassOK', JobsOK'
  PROVE  LoginInv'
<1>1. LoginTypes BY DEF LoginInv
<1>2. /\ dirs' = dirs /\ stored' = stored /\ backups' = backups /\ rescues' = rescues
      /\ active' = active /\ migrated' = migrated
  BY StoreSame
<1>3. \A f \in T!Logins : Copied(f) => Copied(f)' BY <1>1, <1>2, CopiesGrow
<1>4. /\ dirs' \subseteq Profiles /\ backups' \in [Profiles -> Seq(T!Logins)] /\ active' \in dirs'
      /\ rescues' \in Seq(T!Logins) /\ migrated' \in BOOLEAN
  BY <1>1, <1>2 DEF LoginTypes
<1> QED BY <1>2, <1>3, <1>4, Moves

\* No operation goes on and none begins.
LEMMA IdleJob ==
  ASSUME LoginInv, T!Unlocked, job' = job
  PROVE  job' \in T!Job /\ JobsOK' /\ job'.data = T!NoFile /\ ~T!IsLogin(job'.data)
<1>1. job' = T!NoJob BY DEF T!Unlocked
<1>2. job'.op = "none" /\ job'.data = T!NoFile BY <1>1 DEF T!NoJob
<1>3. job' \in T!Job BY DEF LoginInv, LoginTypes
<1> QED BY <1>2, <1>3, NoJobOK DEF T!IsLogin, T!NoFile

\* A copy has no refresh token, so the fan-out puts no login in the live file.
LEMMA CopyIsNoLogin ==
  ASSUME NEW f \in T!Logins \cup {T!NoFile, T!Link}
  PROVE  ~T!IsLogin(T!CopyOf(f))
BY DEF T!CopyOf, T!IsLogin, T!Logins, T!File, T!NoFile, T!Link

LEMMA FannedOut ==
  ASSUME NEW p, NEW f \in T!Logins \cup {T!NoFile, T!Link}, T!FanOut(p, f)
  PROVE  T!IsLogin(live) \/ T!IsLogin(live') => live' = live
BY CopyIsNoLogin DEF T!FanOut

\* The steps that write the live file.
LEMMA PassFansOutKeeps ==
  ASSUME LoginNames, LoginInv, T!PassFansOut
  PROVE  LoginInv'
<1>1. LoginTypes /\ T!Unlocked /\ job' = job /\ T!PassEnds /\ UNCHANGED <<T!store, newest, T!history>>
        /\ renewed' = renewed
  BY DEF LoginInv, T!PassFansOut
<1>2. owner' = owner /\ excused' = excused BY <1>1 DEF T!history
<1>3. pass.data \in T!Logins \cup {T!NoFile, T!Link} BY <1>1 DEF LoginTypes, T!Pass
<1>4. T!IsLogin(live) \/ T!IsLogin(live') => live' = live BY <1>3, FannedOut DEF T!PassFansOut
<1> QED BY <1>1, <1>2, <1>4, IdleJob, PassDone, LiveMoves DEF LoginTypes

LEMMA PassHealsKeeps ==
  ASSUME LoginNames, LoginInv, T!PassHeals
  PROVE  LoginInv'
<1>1. LoginTypes /\ T!Unlocked /\ job' = job /\ T!PassEnds /\ UNCHANGED <<T!store, newest, T!history>>
        /\ renewed' = renewed
  BY DEF LoginInv, T!PassHeals
<1>2. owner' = owner /\ excused' = excused BY <1>1 DEF T!history
<1>3. active \in Profiles /\ stored[active] \in T!Logins \cup {T!NoFile, T!Link} BY <1>1 DEF LoginTypes
<1>4. live' = live \/ (T!IsCopy(live) /\ live' = T!CopyOf(stored[active])) BY DEF T!PassHeals, T!HealDue
<1>5. T!IsLogin(live) \/ T!IsLogin(live') => live' = live
  BY <1>3, <1>4, CopyIsNoLogin DEF T!IsCopy, T!IsLogin
<1> QED BY <1>1, <1>2, <1>5, IdleJob, PassDone, LiveMoves DEF LoginTypes

LEMMA RenewFansOutKeeps ==
  ASSUME LoginNames, LoginInv, T!RenewFansOut
  PROVE  LoginInv'
<1>1. /\ LoginTypes /\ PassOK /\ T!Unlocked /\ job' = job /\ pass' = pass
      /\ UNCHANGED <<T!store, newest, T!history>>
      /\ renewed # Nobody /\ renewed' = Nobody
  BY DEF LoginInv, T!RenewFansOut
<1>2. owner' = owner /\ excused' = excused BY <1>1 DEF T!history
<1>3. renewed \in Profiles BY <1>1 DEF LoginTypes
<1>4. stored[renewed] \in T!Logins \cup {T!NoFile, T!Link} BY <1>1, <1>3 DEF LoginTypes
<1>5. T!IsLogin(live) \/ T!IsLogin(live') => live' = live BY <1>4, FannedOut DEF T!RenewFansOut
<1>6. pass' \in T!Pass /\ PassOK' BY <1>1, StoreSame DEF LoginTypes, PassOK, Issued
<1> QED BY <1>1, <1>2, <1>5, <1>6, IdleJob, LiveMoves

LEMMA StopKeeps ==
  ASSUME LoginNames, LoginInv, T!Stop
  PROVE  LoginInv'
<1>1. UNCHANGED <<live, T!store, newest, T!history>> /\ T!Done /\ T!PassEnds /\ renewed' = Nobody
  BY DEF T!Stop
<1>2. owner' = owner /\ excused' = excused /\ live' = live BY <1>1 DEF T!history
<1>3. ~T!IsLogin(job'.data) BY <1>1, JobDone DEF T!IsLogin, T!NoFile
<1> QED BY <1>1, <1>2, <1>3, JobDone, PassDone, LiveMoves

LEMMA LogOutKeeps ==
  ASSUME LoginNames, LoginInv, T!LogOut
  PROVE  LoginInv'
<1>1. /\ LoginTypes /\ AllIssued /\ PassOK /\ JobsOK
      /\ UNCHANGED <<T!store, newest, owner>> /\ job' = job /\ pass' = pass /\ renewed' = renewed
      /\ live' = T!NoFile /\ excused' = T!Dropped
  BY DEF LoginInv, T!LogOut
<1>2. excused \subseteq excused' /\ (T!IsLogin(live) => live.account \in excused') BY <1>1 DEF T!Dropped
<1>3. ~T!IsLogin(live') BY <1>1 DEF T!IsLogin, T!NoFile
<1>4. job' \in T!Job /\ pass' \in T!Pass /\ renewed' \in Profiles \cup {Nobody} BY <1>1 DEF LoginTypes
<1>5. PassOK' BY <1>1, StoreSame DEF PassOK, Issued
<1>6. T!IsLogin(job'.data) => Issued(job'.data) BY <1>1 DEF AllIssued
<1>7. JobsOK'
  <2>0. /\ dirs' = dirs /\ stored' = stored /\ backups' = backups /\ rescues' = rescues
        /\ active' = active /\ migrated' = migrated
    BY <1>1, StoreSame
  <2>1. FileOK' BY <1>1, <1>2, <2>0 DEF JobsOK, FileOK
  <2>2. StripOK' BY <1>1, <2>0 DEF JobsOK, StripOK
  <2>3. SwitchOK' BY <1>1, <2>0 DEF JobsOK, SwitchOK
  <2>4. ImportOK' BY <1>1, <2>0 DEF JobsOK, ImportOK
  <2>5. MigrateOK' BY <1>1, <2>0 DEF JobsOK, MigrateOK
  <2>6. UnmigrateOK'
    <3>1. ASSUME T!IsLogin(stored[active]), Fresh(stored[active]) => live = stored[active]
          PROVE  ~Fresh(stored[active])'
      <4>1. stored[active].account \notin excused' => Fresh(stored[active])
              \/ stored[active].gen # newest[stored[active].account]
        BY <1>2 DEF Fresh
      <4> QED BY <1>1, <1>2, <2>0, <3>1, <4>1 DEF Fresh
    <3> QED BY <1>1, <2>0, <3>1 DEF JobsOK, UnmigrateOK
  <2> QED BY <2>1, <2>2, <2>3, <2>4, <2>5, <2>6 DEF JobsOK
<1> QED BY <1>1, <1>2, <1>3, <1>4, <1>5, <1>6, <1>7, LiveMoves

\* An operation begins.
LEMMA JobBegins ==
  ASSUME NEW o \in {"switch", "import", "migrate", "unmigrate", "file", "strip"}, NEW s \in StepNames,
         NEW n \in Profiles \cup {Nobody}, NEW d \in T!Logins \cup {T!NoFile},
         job' = [T!NoJob EXCEPT !.op = o, !.step = s, !.name = n, !.data = d]
  PROVE  job' \in T!Job /\ job'.op = o /\ job'.step = s /\ job'.name = n /\ job'.data = d
<1>1. T!NoJob \in T!Job BY DEF T!NoJob, T!Job
<1> QED BY <1>1 DEF T!Job, StepNames

\* The login the user makes is the newest of its account; it drops at most the one it
\* replaces.
LEMMA LogInKeeps ==
  ASSUME LoginNames, LoginInv, NEW a \in Accounts, T!LogIn(a)
  PROVE  LoginInv'
<1>1. /\ LoginTypes /\ AllIssued /\ EmptyOutside /\ PassOK /\ JobsOK /\ Linked /\ T!LoginKept
      /\ T!OwnAccountOnly
      /\ UNCHANGED <<T!store, owner>> /\ job' = job /\ pass' = pass /\ renewed' = renewed
  BY DEF LoginInv, T!LogIn
<1>2. /\ dirs' = dirs /\ stored' = stored /\ backups' = backups /\ rescues' = rescues
      /\ active' = active /\ migrated' = migrated
  BY <1>1, StoreSame
<1>3. newest \in [Accounts -> 0..MaxGen] /\ MaxGen \in Nat /\ newest[a] < MaxGen
  BY <1>1 DEF LoginTypes, T!LogIn, LoginNames
<1>4. /\ newest' = [newest EXCEPT ![a] = newest[a] + 1]
      /\ newest'[a] = newest[a] + 1 /\ \A b \in Accounts \ {a} : newest'[b] = newest[b]
      /\ newest' \in [Accounts -> 0..MaxGen] /\ \A b \in Accounts : newest[b] \in Nat
  BY <1>3 DEF T!LogIn, T!Issue
<1>5. live' = T!Newest(a, newest'[a]) /\ live' \in T!Logins /\ T!IsLogin(live') /\ live'.account = a
        /\ live'.gen = newest'[a]
  BY <1>3, <1>4 DEF T!LogIn, T!Newest, T!Logins, T!File, T!IsLogin
<1>6. T!Dropped \ {a} \subseteq excused' /\ excused \ {a} \subseteq excused' /\ a \notin excused'
  BY DEF T!LogIn, T!Dropped
<1>7. LoginTypes' BY <1>1, <1>2, <1>4, <1>5 DEF LoginTypes
<1>8. ASSUME NEW f \in T!Logins, Issued(f)
      PROVE  /\ f.gen <= newest'[f.account]
             /\ f.account \notin excused' /\ f.gen = newest'[f.account] =>
                  Fresh(f) /\ f.account # a /\ live # f
  <2>1. f.account \in Accounts /\ f.gen \in Nat /\ T!IsLogin(f) BY <1>3 DEF T!Logins, T!File, T!IsLogin
  <2>2. f.gen <= newest[f.account] BY <1>8 DEF Issued
  <2>3. f.gen <= newest'[f.account] /\ (f.account = a => f.gen # newest'[f.account]) BY <1>4, <2>1, <2>2
  <2>4. f.account # a => newest'[f.account] = newest[f.account] BY <1>4, <2>1
  <2>5. live = f => f.account \in T!Dropped BY <2>1 DEF T!Dropped
  <2> QED BY <1>6, <2>3, <2>4, <2>5 DEF Fresh
<1>9. \A p \in Profiles : T!IsLogin(stored[p]) => stored[p] \in T!Logins /\ Issued(stored[p])
  <2> TAKE p \in Profiles
  <2>1. stored[p] \in T!Logins \cup {T!NoFile, T!Link} BY <1>1 DEF LoginTypes
  <2> QED BY <1>1, <2>1 DEF AllIssued, T!IsLogin, T!NoFile, T!Link
<1>10. T!IsLogin(job.data) => job.data \in T!Logins /\ Issued(job.data)
  <2>1. job.data \in T!Logins \cup {T!NoFile} BY <1>1 DEF LoginTypes, T!Job
  <2> QED BY <1>1, <2>1 DEF AllIssued, T!IsLogin, T!NoFile
<1>11. AllIssued'
  <2>1. (T!IsLogin(live) => Issued(live))' BY <1>4, <1>5 DEF Issued
  <2>2. (\A p \in Profiles : T!IsLogin(stored[p]) => Issued(stored[p]))' BY <1>2, <1>8, <1>9 DEF Issued
  <2>3. (T!IsLogin(job.data) => Issued(job.data))' BY <1>1, <1>8, <1>10 DEF Issued
  <2> QED BY <2>1, <2>2, <2>3 DEF AllIssued
<1>12. EmptyOutside' BY <1>1, <1>2 DEF EmptyOutside
<1>13. PassOK'
  <2>1. pass.data \in T!Logins \cup {T!NoFile} BY <1>1 DEF LoginTypes, T!Pass
  <2>2. T!IsLogin(pass.data) => pass.data \in T!Logins /\ Issued(pass.data)
    BY <1>1, <2>1 DEF PassOK, T!IsLogin, T!NoFile
  <2> QED BY <1>1, <1>2, <1>8, <2>2 DEF PassOK, Issued
<1>14. active \in Profiles BY <1>1 DEF LoginTypes
<1>15. T!IsLogin(stored[active])
         => (Fresh(stored[active])' => Fresh(stored[active]) /\ live # stored[active])
  BY <1>2, <1>8, <1>9, <1>14 DEF Fresh
<1>16. "overtaken" \notin excused' => "overtaken" \notin excused BY <1>6 DEF LoginNames
<1>17. JobsOK'
  <2>1. FileOK' BY <1>1, <1>2, <1>16 DEF JobsOK, FileOK
  <2>2. StripOK' BY <1>1, <1>2 DEF JobsOK, StripOK
  <2>3. SwitchOK' BY <1>1, <1>2 DEF JobsOK, SwitchOK
  <2>4. ImportOK' BY <1>1, <1>2 DEF JobsOK, ImportOK
  <2>5. MigrateOK' BY <1>1, <1>2 DEF JobsOK, MigrateOK
  <2>6. UnmigrateOK' BY <1>1, <1>2, <1>5, <1>15 DEF JobsOK, UnmigrateOK
  <2> QED BY <2>1, <2>2, <2>3, <2>4, <2>5, <2>6 DEF JobsOK
<1>18. \A f : Copied(f) => Copied(f)' BY <1>2 DEF Copied
<1>19. Linked' BY <1>1, <1>2, <1>15, <1>16, <1>18 DEF Linked
<1>20. T!LoginKept'
  <2> SUFFICES ASSUME NEW b \in Accounts, b \notin excused', newest'[b] > 0, "overtaken" \notin excused'
               PROVE  Kept(T!Newest(b, newest[b]))'
    BY DEF T!LoginKept, Kept, Copied, T!Newest
  <2>1. CASE b = a BY <1>5, <2>1 DEF Kept
  <2>2. CASE b # a
    <3>1. newest'[b] = newest[b] /\ b \notin excused /\ b \notin T!Dropped BY <1>4, <1>6, <2>2
    <3>0. PICK f : f = T!Newest(b, newest[b]) OBVIOUS
    <3>2. Kept(f) BY <1>1, <1>16, <3>0, <3>1 DEF T!LoginKept, Kept, Copied, T!Newest
    <3>3. live # f BY <3>0, <3>1 DEF T!Dropped, T!Newest, T!IsLogin
    <3>4. Copied(f) \/ \E p \in dirs : stored[p] = f BY <3>2, <3>3 DEF Kept
    <3>5. Kept(f)' BY <1>2, <1>18, <3>4 DEF Kept
    <3>6. f = T!Newest(b, newest'[b]) BY <3>0, <3>1
    <3> QED BY <3>5, <3>6 DEF Kept, Copied
  <2> QED BY <2>1, <2>2
<1>21. T!OwnAccountOnly'
  <2>1. \A p \in Profiles : p \notin excused' => p \notin excused BY <1>6 DEF LoginNames
  <2> QED BY <1>1, <1>2, <2>1 DEF T!OwnAccountOnly
<1> QED BY <1>7, <1>11, <1>12, <1>13, <1>17, <1>19, <1>20, <1>21 DEF LoginInv

\* The operations begin.
LEMMA SwitchBeginKeeps ==
  ASSUME LoginNames, LoginInv, NEW n \in Profiles, T!SwitchBegin(n)
  PROVE  LoginInv'
<1>1. /\ LoginTypes /\ AllIssued /\ PassOK /\ UNCHANGED <<live, T!store, newest, T!history>>
      /\ pass' = pass /\ renewed' = renewed /\ migrated /\ n \in dirs /\ stored[n] # T!Link
  BY DEF LoginInv, T!SwitchBegin
<1>2. owner' = owner /\ excused' = excused /\ live' = live BY <1>1 DEF T!history
<1>3. stored[n] \in T!Logins \cup {T!NoFile} BY <1>1 DEF LoginTypes
<1>4. active \in Profiles /\ stored[active] \in T!Logins \cup {T!NoFile, T!Link} BY <1>1 DEF LoginTypes
<1>5. (IF T!IsLogin(stored[active]) THEN stored[active] ELSE T!NoFile) \in T!Logins \cup {T!NoFile}
  BY <1>4 DEF T!IsLogin, T!Link
<1>6. /\ job'.op = "switch" /\ job'.step = (IF stored[n] = T!NoFile THEN "point" ELSE "fan")
      /\ job'.name = n /\ job'.from = active /\ job'.data = stored[n]
  BY DEF T!SwitchBegin
<1>7. job' \in T!Job BY <1>3, <1>4, <1>5 DEF T!SwitchBegin, T!Job
<1>8. T!IsLogin(job'.data) => Issued(job'.data) BY <1>1, <1>6 DEF AllIssued
<1>9. SwitchOK' BY <1>1, <1>6, StoreSame DEF SwitchOK, LoginTypes
<1>10. JobsOK' BY <1>6, <1>9, OneJobOK
<1>11. PassOK' BY <1>1, StoreSame DEF PassOK, Issued
<1> QED BY <1>1, <1>2, <1>7, <1>8, <1>10, <1>11, LiveMoves DEF LoginTypes

LEMMA UnmigrateBeginKeeps ==
  ASSUME LoginNames, LoginInv, T!UnmigrateBegin
  PROVE  LoginInv'
<1>1. /\ LoginTypes /\ AllIssued /\ PassOK /\ UNCHANGED <<live, T!store, newest, T!history>>
      /\ pass' = pass /\ renewed' = renewed /\ migrated /\ T!IsLogin(stored[active])
           /\ (T!IsLogin(live) => live = stored[active])
  BY DEF LoginInv, T!UnmigrateBegin
<1>2. owner' = owner /\ excused' = excused /\ live' = live BY <1>1 DEF T!history
<1>3. active \in Profiles /\ stored[active] \in T!Logins \cup {T!NoFile, T!Link} BY <1>1 DEF LoginTypes
<1>4. stored[active] \in T!Logins BY <1>1, <1>3 DEF T!IsLogin, T!Link, T!NoFile
<1>5. PICK s \in StepNames : s = IF T!IsLogin(live) THEN "mark" ELSE "restore" BY DEF StepNames
<1>12. PICK d \in T!Logins \cup {T!NoFile}, n \in Profiles \cup {Nobody} : d = stored[active]
         /\ n = active BY <1>3, <1>4
<1>13. job' = [T!NoJob EXCEPT !.op = "unmigrate", !.step = s, !.name = n, !.data = d]
  BY <1>5, <1>12 DEF T!UnmigrateBegin
<1>6. /\ job' \in T!Job /\ job'.op = "unmigrate" /\ job'.step = s
      /\ job'.name = active /\ job'.data = stored[active]
  <2>1. s \in StepNames /\ n \in Profiles \cup {Nobody} /\ d \in T!Logins \cup {T!NoFile}
          /\ "unmigrate" \in {"switch", "import", "migrate", "unmigrate", "file", "strip"}
    OBVIOUS
  <2>2. job' \in T!Job /\ job'.op = "unmigrate" /\ job'.step = s /\ job'.name = n /\ job'.data = d
    BY <1>13, <2>1, JobBegins
  <2> QED BY <1>12, <2>2
<1>7. stored[active] # T!NoFile BY <1>1 DEF T!IsLogin, T!NoFile
<1>8. T!IsLogin(job'.data) => Issued(job'.data) BY <1>1, <1>3, <1>6 DEF AllIssued
<1>9. UnmigrateOK' BY <1>1, <1>2, <1>5, <1>6, <1>7, StoreSame DEF UnmigrateOK
<1>10. JobsOK' BY <1>6, <1>9, OneJobOK
<1>11. PassOK' BY <1>1, StoreSame DEF PassOK, Issued
<1> QED BY <1>1, <1>2, <1>6, <1>8, <1>10, <1>11, LiveMoves DEF LoginTypes

LEMMA StripLookKeeps ==
  ASSUME LoginNames, LoginInv, RoomForLogins, T!StripLook
  PROVE  LoginInv'
<1>1. /\ LoginTypes /\ AllIssued /\ PassOK /\ pass.step = "strip" /\ job = T!NoJob
      /\ UNCHANGED <<live, dirs, stored, backups, active, migrated, renewed, newest, T!history>>
  BY DEF LoginInv, T!StripLook, T!InPass, T!Unlocked
<1>2. job.op \notin {"file", "strip"} BY <1>1 DEF T!NoJob
<1>3. CASE T!IsLogin(live) /\ T!TryAgain /\ UNCHANGED job BY <1>1, <1>2, <1>3, TryAgainKeeps
<1>4. CASE T!PassTo("fan") /\ UNCHANGED job /\ UNCHANGED rescues
  <2>1. pass' \in T!Pass /\ pass'.step = "fan" BY <1>1, <1>4, PassGoes DEF LoginTypes
  <2>2. PassOK'
    <3>1. pass'.data = pass.data BY <1>1, <1>4, PassGoes DEF LoginTypes
    <3> QED BY <1>1, <2>1, <3>1 DEF PassOK, Issued
  <2> QED BY <1>1, <1>2, <1>4, <2>1, <2>2, PassMoves DEF LoginTypes
<1>5. CASE /\ UNCHANGED rescues /\ UNCHANGED pass /\ T!IsLogin(live)
           /\ job' = [T!NoJob EXCEPT !.op = "strip", !.step = "strip", !.data = pass.data]
           /\ live = pass.data
  <2>1. UNCHANGED T!store /\ owner' = owner /\ excused' = excused /\ live' = live
    BY <1>1, <1>5 DEF T!store, T!history
  <2>2. live \in T!Logins BY <1>1, <1>5 DEF LoginTypes
  <2>3. /\ job' \in T!Job /\ job'.op = "strip" /\ job'.step = "strip" /\ job'.data = pass.data
    <3>1. T!NoJob \in T!Job BY DEF T!NoJob, T!Job
    <3> QED BY <1>5, <2>2, <3>1 DEF T!Job
  <2>4. StripOK' BY <1>1, <1>5, <2>3 DEF StripOK
  <2>5. JobsOK' BY <2>3, <2>4, OneJobOK
  <2>6. PassOK' BY <1>1, <1>5 DEF PassOK, Issued
  <2>7. T!IsLogin(job'.data) => Issued(job'.data) BY <1>1, <1>5, <2>3 DEF AllIssued
  <2> QED BY <1>1, <1>5, <2>1, <2>3, <2>5, <2>6, <2>7, LiveMoves DEF LoginTypes
<1> QED BY <1>3, <1>4, <1>5 DEF T!StripLook

\* A profile directory that is made is empty.
LEMMA AddKeeps ==
  ASSUME LoginNames, LoginInv, NEW n \in Profiles, T!Add(n)
  PROVE  LoginInv'
<1>1. /\ LoginTypes /\ PassOK /\ T!Unlocked /\ n \notin dirs
      /\ dirs' = dirs \cup {n} /\ backups' = [backups EXCEPT ![n] = << >>]
      /\ live' = live /\ stored' = stored /\ rescues' = rescues /\ active' = active
      /\ migrated' = migrated
      /\ job' = job /\ pass' = pass /\ renewed' = renewed /\ newest' = newest
      /\ owner' = owner /\ excused' = excused
  BY DEF LoginInv, T!Add, T!history
<1>2. /\ backups' \in [Profiles -> Seq(T!Logins)] /\ \A q \in dirs : backups'[q] = backups[q]
      /\ dirs' \subseteq Profiles /\ active' \in dirs' /\ rescues' \in Seq(T!Logins)
      /\ pass' \in T!Pass /\ renewed' \in Profiles \cup {Nobody} /\ migrated' \in BOOLEAN
  BY <1>1 DEF LoginTypes
<1>3. \A f \in T!Logins : Copied(f) => Copied(f)' BY <1>1, <1>2, CopiesGrow
<1>4. PassOK' BY <1>1 DEF PassOK, Issued
<1> QED BY <1>1, <1>2, <1>3, <1>4, IdleJob, Moves

LEMMA ImportBeginKeeps ==
  ASSUME LoginNames, LoginInv, RoomForLogins, NEW n \in Profiles, T!ImportBegin(n)
  PROVE  LoginInv'
<1>1. /\ LoginTypes /\ AllIssued /\ EmptyOutside /\ PassOK /\ n \notin dirs /\ migrated
      /\ T!IsLogin(live)
      /\ dirs' = dirs \cup {n} /\ backups' = [backups EXCEPT ![n] = <<live>>]
      /\ live' = live /\ stored' = stored /\ rescues' = T!Rescued(live) /\ active' = active
      /\ migrated' = migrated
      /\ pass' = pass /\ renewed' = renewed /\ newest' = newest
      /\ owner' = owner /\ excused' = excused
      /\ job' = [T!NoJob EXCEPT !.op = "import", !.step = "store", !.name = n, !.data = live]
  BY DEF LoginInv, T!ImportBegin, T!history
<1>2. live \in T!Logins BY <1>1 DEF LoginTypes
<1>3. rescues' \in Seq(T!Logins) /\ live \in T!ToSet(rescues')
        /\ T!ToSet(rescues) \subseteq T!ToSet(rescues')
  BY <1>1, <1>2, RescuedKeeps
<1>4. /\ backups' \in [Profiles -> Seq(T!Logins)] /\ backups'[n] = <<live>>
      /\ \A q \in dirs : backups'[q] = backups[q]
      /\ dirs' \subseteq Profiles /\ active' \in dirs' /\ active' # n
      /\ pass' \in T!Pass /\ renewed' \in Profiles \cup {Nobody} /\ migrated' \in BOOLEAN
  <2>1. backups \in [Profiles -> Seq(T!Logins)] /\ <<live>> \in Seq(T!Logins)
    BY <1>1, <1>2 DEF LoginTypes
  <2>2. backups' \in [Profiles -> Seq(T!Logins)] /\ backups'[n] = <<live>>
          /\ \A q \in Profiles \ {n} : backups'[q] = backups[q]
    BY <1>1, <2>1
  <2> QED BY <1>1, <2>2 DEF LoginTypes
<1>5. \A f \in T!Logins : Copied(f) => Copied(f)' BY <1>1, <1>3, <1>4, CopiesGrow
<1>6. PassOK' BY <1>1, <1>3 DEF PassOK, Issued
<1>7. job' \in T!Job /\ job'.op = "import" /\ job'.step = "store" /\ job'.name = n /\ job'.data = live
  <2>1. "store" \in StepNames BY DEF StepNames
  <2>2. n \in Profiles \cup {Nobody} /\ live \in T!Logins \cup {T!NoFile} BY <1>2
  <2> QED BY <1>1, <2>1, <2>2, JobBegins
<1>8. stored[n] = T!NoFile BY <1>1 DEF EmptyOutside
<1>9. ImportOK' BY <1>1, <1>3, <1>4, <1>7, <1>8 DEF ImportOK
<1>10. JobsOK' BY <1>7, <1>9, OneJobOK
<1>11. T!IsLogin(job'.data) => Issued(job'.data) BY <1>1, <1>7 DEF AllIssued
<1> QED BY <1>1, <1>3, <1>4, <1>5, <1>6, <1>7, <1>10, <1>11, Moves

LEMMA FileBeginKeeps ==
  ASSUME LoginNames, LoginInv, T!FileBegin
  PROVE  LoginInv'
<1>1. /\ LoginTypes /\ AllIssued /\ EmptyOutside /\ PassOK /\ pass.step = "file" /\ job = T!NoJob
      /\ live' = live /\ stored' = stored /\ rescues' = rescues /\ active' = active
      /\ migrated' = migrated
      /\ renewed' = renewed /\ newest' = newest /\ owner' = owner /\ excused' = excused
  BY DEF LoginInv, T!FileBegin, T!InPass, T!Unlocked, T!history
<1>2. /\ pass.data \in T!ToSet(rescues) /\ pass.data \in T!Logins /\ pass \in T!Pass
      /\ pass.data \in T!Logins \cup {T!NoFile}
  <2>1. pass.data \in T!ToSet(rescues) BY <1>1 DEF PassOK
  <2> QED BY <1>1, <2>1, InSeq DEF LoginTypes
<1>3. job.op \notin {"file", "strip"} BY <1>1 DEF T!NoJob
<1>4. CASE T!PassEnds /\ UNCHANGED <<dirs, backups, job>>
  BY <1>1, <1>3, <1>4, PassDone, PassMoves DEF LoginTypes, T!history
<1>5. ASSUME NEW n \in Profiles \ dirs, pass.create,
             dirs' = dirs \cup {n}, backups' = [backups EXCEPT ![n] = << >>],
               pass' = [pass EXCEPT !.name = n],
             job' = [T!NoJob EXCEPT !.op = "file", !.step = "store", !.name = n, !.data = pass.data]
      PROVE  LoginInv'
  <2>1. /\ backups' \in [Profiles -> Seq(T!Logins)] /\ backups'[n] = << >>
        /\ \A q \in dirs : backups'[q] = backups[q]
        /\ dirs' \subseteq Profiles /\ active' \in dirs' /\ active' # n /\ n \in dirs'
        /\ rescues' \in Seq(T!Logins) /\ renewed' \in Profiles \cup {Nobody} /\ migrated' \in BOOLEAN
    BY <1>1, <1>5 DEF LoginTypes
  <2>2. \A f \in T!Logins : Copied(f) => Copied(f)' BY <1>1, <1>5, <2>1, CopiesGrow
  <2>3. pass' \in T!Pass /\ pass'.step = "file" /\ pass'.data = pass.data BY <1>1, <1>2, <1>5 DEF T!Pass
  <2>0. "store" \in StepNames BY DEF StepNames
  <2>4. job' \in T!Job /\ job'.op = "file" /\ job'.step = "store" /\ job'.name = n
          /\ job'.data = pass.data
    BY <1>2, <1>5, <2>0, JobBegins
  <2>5. stored'[n] = T!NoFile BY <1>1, <1>5 DEF EmptyOutside
  <2>6. ~T!IsLogin(stored'[n]) BY <2>5 DEF T!IsLogin, T!NoFile
  <2>7. FileOK' BY <2>1, <2>3, <2>4, <2>5, <2>6 DEF FileOK
  <2>8. JobsOK' BY <2>4, <2>7, OneJobOK
  <2>9. PassOK' BY <1>1, <1>2, <2>3 DEF PassOK, Issued
  <2>10. T!IsLogin(job'.data) => Issued(job'.data) BY <1>1, <2>4 DEF PassOK
  <2>11. dirs \subseteq dirs' /\ excused \subseteq excused' /\ (T!IsLogin(live) => live' = live)
           /\ (T!IsLogin(live') => live' \in {live, job.data})
    BY <1>1, <1>5
  <2>12. /\ stored' = stored /\ newest' = newest /\ owner' = owner /\ active' = active
         /\ migrated' = migrated
    BY <1>1
  <2> QED BY <2>1, <2>2, <2>3, <2>4, <2>8, <2>9, <2>10, <2>11, <2>12, Moves
<1>6. CASE /\ UNCHANGED <<dirs, backups, pass>> /\ ~pass.create /\ pass.name \in dirs
           /\ job' = [T!NoJob EXCEPT !.op = "file", !.step = "backup", !.name = pass.name,
                                   !.data = pass.data]
  <2>1. UNCHANGED T!store BY <1>1, <1>6 DEF T!store
  <2>2. "backup" \in StepNames /\ pass.name \in Profiles \cup {Nobody} BY <1>2 DEF StepNames, T!Pass
  <2>3. job' \in T!Job /\ job'.op = "file" /\ job'.step = "backup" /\ job'.name = pass.name
          /\ job'.data = pass.data
    <3>1. PICK n \in Profiles \cup {Nobody}, d \in T!Logins \cup {T!NoFile} : n = pass.name
            /\ d = pass.data
      BY <1>2, <2>2
    <3>2. job' = [T!NoJob EXCEPT !.op = "file", !.step = "backup", !.name = n, !.data = d]
      BY <1>6, <3>1
    <3>3. job' \in T!Job /\ job'.op = "file" /\ job'.step = "backup" /\ job'.name = n /\ job'.data = d
      BY <2>2, <3>2, JobBegins
    <3> QED BY <3>1, <3>3
  <2>4. FileOK' BY <1>1, <1>6, <2>3 DEF FileOK
  <2>5. JobsOK' BY <2>3, <2>4, OneJobOK
  <2>6. PassOK' BY <1>1, <1>6 DEF PassOK, Issued
  <2>7. T!IsLogin(job'.data) => Issued(job'.data) BY <1>1, <2>3 DEF PassOK
  <2> QED BY <1>1, <1>6, <2>1, <2>3, <2>5, <2>6, <2>7, LiveMoves DEF LoginTypes
<1> QED BY <1>4, <1>5, <1>6 DEF T!FileBegin

\* What every step of an operation starts from.
LEMMA Parts ==
  ASSUME LoginInv
  PROVE  /\ LoginTypes /\ AllIssued /\ EmptyOutside /\ PassOK /\ Linked /\ T!LoginKept
         /\ T!OwnAccountOnly
         /\ FileOK /\ StripOK /\ SwitchOK /\ ImportOK /\ MigrateOK /\ UnmigrateOK
         /\ job \in T!Job /\ pass \in T!Pass /\ renewed \in Profiles \cup {Nobody}
         /\ job.data \in T!Logins \cup {T!NoFile} /\ job.old \in T!Logins \cup {T!NoFile}
         /\ job.name \in Profiles \cup {Nobody}
         /\ pass.data \in T!Logins \cup {T!NoFile}
         /\ active \in dirs /\ dirs \subseteq Profiles /\ active \in Profiles
BY DEF LoginInv, JobsOK, LoginTypes, T!Job, T!Pass

LEMMA DroppedAll ==
  ASSUME TRUE
  PROVE  excused \subseteq T!Dropped /\ (T!IsLogin(live) => live.account \in T!Dropped)
BY DEF T!Dropped

\* What the pass has behind it stays while no login is issued.
LEMMA PassSame ==
  ASSUME PassOK, pass' = pass, newest' = newest, T!ToSet(rescues) \subseteq T!ToSet(rescues')
  PROVE  PassOK'
BY DEF PassOK, Issued

LEMMA JobStops ==
  ASSUME T!Done
  PROVE  job' \in T!Job /\ JobsOK' /\ (T!IsLogin(job'.data) => Issued(job'.data))
<1>1. ~T!IsLogin(job'.data) BY JobDone DEF T!IsLogin, T!NoFile
<1> QED BY <1>1, JobDone

\* The steps of the operations, each with what is behind it.
LEMMA StripWriteKeeps ==
  ASSUME LoginNames, LoginInv, T!StripWrite
  PROVE  LoginInv'
<1>1. /\ job.op = "strip" /\ T!Done /\ UNCHANGED <<T!store, newest, owner>> /\ renewed' = renewed
  BY DEF T!StripWrite, T!At
<1>2. pass.step = "strip" /\ job.data = pass.data /\ pass.data \in T!ToSet(rescues)
  BY <1>1, Parts DEF StripOK, PassOK
<1>3. CASE live' = T!CopyOf(job.data) /\ T!PassTo("fan")
             /\ excused' = IF live # job.data THEN T!Dropped ELSE excused
  <2>1. ~T!IsLogin(live') BY <1>3, Parts, CopyIsNoLogin
  <2>2. excused \subseteq excused' BY <1>3, DroppedAll
  <2>3. T!IsLogin(live) => live.account \in excused' \/ Copied(live)
    BY <1>2, <1>3, DroppedAll DEF Copied
  <2>4. pass' \in T!Pass /\ pass'.step = "fan" /\ pass'.data = pass.data BY <1>3, Parts, PassGoes
  <2>5. PassOK' BY <1>1, <2>4, Parts DEF PassOK, Issued
  <2> QED BY <1>1, <2>1, <2>2, <2>3, <2>4, <2>5, Parts, JobStops, LiveMoves
<1>4. CASE T!PassEnds /\ UNCHANGED <<live, excused>>
  BY <1>1, <1>4, Parts, PassDone, JobStops, LiveMoves
<1> QED BY <1>3, <1>4 DEF T!StripWrite

LEMMA SwitchFanKeeps ==
  ASSUME LoginNames, LoginInv, T!SwitchFan
  PROVE  LoginInv'
<1>1. /\ job.op = "switch" /\ job.step = "fan" /\ UNCHANGED <<T!store, newest>> /\ renewed' = renewed
      /\ pass' = pass
      /\ owner' = owner /\ excused' = excused
  BY DEF T!SwitchFan, T!At, T!history
<1>2. PassOK' BY <1>1, Parts, PassSame, StoreSame
<1>3. CASE T!Done /\ live' = live
  BY <1>1, <1>2, <1>3, Parts, JobStops, LiveMoves
<1>4. CASE ~T!IsLogin(live) /\ T!Goto("point") /\ live' = T!CopyOf(job.data)
  <2>1. ~T!IsLogin(live') BY <1>4, Parts, CopyIsNoLogin
  <2>0. "point" \in StepNames BY DEF StepNames
  <2>2. /\ job' \in T!Job /\ job'.step = "point" /\ job'.op = job.op /\ job'.name = job.name
        /\ job'.from = job.from
        /\ job'.data = job.data
    BY <1>4, <2>0, Parts, JobGoes
  <2>3. SwitchOK' BY <1>1, <2>2, Parts, StoreSame DEF SwitchOK
  <2>4. JobsOK' BY <1>1, <2>2, <2>3, OneJobOK
  <2>5. T!IsLogin(job'.data) => Issued(job'.data) BY <2>2, Parts DEF AllIssued
  <2> QED BY <1>1, <1>2, <1>4, <2>1, <2>2, <2>4, <2>5, Parts, LiveMoves
<1> QED BY <1>3, <1>4 DEF T!SwitchFan

\* The steps that move the pointer, and write the live file and no other.
LEMMA PointerMoves ==
  ASSUME LoginNames, LoginInv, UNCHANGED <<dirs, stored, backups, rescues, newest, owner, renewed>>,
         excused \subseteq excused',
         T!IsLogin(live) => live' = live \/ live.account \in excused',
         T!IsLogin(live') => live' = live,
         migrated' = migrated, migrated \/ "overtaken" \in excused',
         active' \in dirs, job' \in T!Job, pass' \in T!Pass, T!IsLogin(job'.data)
           => Issued(job'.data), PassOK', JobsOK'
  PROVE  LoginInv'
<1>1. /\ dirs' = dirs /\ stored' = stored /\ backups' = backups /\ rescues' = rescues
      /\ newest' = newest
      /\ owner' = owner /\ renewed' = renewed
  OBVIOUS
<1>2. \A f \in T!Logins : Copied(f) => Copied(f)' BY <1>1, Parts, CopiesGrow
<1>3. dirs' \subseteq Profiles /\ backups' \in [Profiles -> Seq(T!Logins)] /\ rescues' \in Seq(T!Logins)
        /\ migrated' \in BOOLEAN
  BY <1>1, Parts DEF LoginTypes
<1> QED BY <1>1, <1>2, <1>3, Parts, Moves

LEMMA SwitchPointKeeps ==
  ASSUME LoginNames, LoginInv, T!SwitchPoint
  PROVE  LoginInv'
<1>1. /\ job.op = "switch" /\ UNCHANGED <<dirs, stored, backups, rescues, newest, renewed>>
      /\ migrated' = migrated
      /\ owner' = owner /\ excused' = excused /\ pass' = pass
  BY DEF T!SwitchPoint, T!At, T!history
<1>2. PassOK' BY <1>1, Parts, PassSame
<1>3. migrated /\ job.name \in dirs /\ job.from \in dirs BY <1>1, Parts DEF SwitchOK
<1>4. CASE active' = job.name /\ live' = live /\ (T!Goto("clear") \/ T!Done)
  <2>1. CASE T!Done BY <1>1, <1>2, <1>3, <1>4, <2>1, JobStops, Parts, PointerMoves
  <2>2. CASE T!Goto("clear")
    <3>0. "clear" \in StepNames BY DEF StepNames
    <3>2. /\ job' \in T!Job /\ job'.step = "clear" /\ job'.op = job.op /\ job'.name = job.name
          /\ job'.from = job.from
          /\ job'.data = job.data
      BY <2>2, <3>0, Parts, JobGoes
    <3>3. SwitchOK' BY <1>1, <1>3, <3>2 DEF SwitchOK
    <3>4. JobsOK' BY <1>1, <3>2, <3>3, OneJobOK
    <3>5. T!IsLogin(job'.data) => Issued(job'.data) BY <3>2, Parts DEF AllIssued
    <3> QED BY <1>1, <1>2, <1>3, <1>4, <3>2, <3>4, <3>5, Parts, PointerMoves
  <2> QED BY <1>4, <2>1, <2>2
<1>5. CASE T!Done /\ active' = active
             /\ (live' = live \/ (~T!IsLogin(live) /\ live' = T!CopyOf(job.old)))
  <2>1. (T!IsLogin(live) => live' = live) /\ (T!IsLogin(live') => live' = live)
    BY <1>5, Parts, CopyIsNoLogin
  <2> QED BY <1>1, <1>2, <1>3, <1>5, <2>1, JobStops, Parts, PointerMoves
<1> QED BY <1>4, <1>5 DEF T!SwitchPoint

LEMMA SwitchClearKeeps ==
  ASSUME LoginNames, LoginInv, T!SwitchClear
  PROVE  LoginInv'
<1>1. /\ job.op = "switch" /\ UNCHANGED <<dirs, stored, backups, rescues, newest, renewed>>
      /\ migrated' = migrated
      /\ owner' = owner /\ pass' = pass /\ T!Done
  BY DEF T!SwitchClear, T!At
<1>2. PassOK' BY <1>1, Parts, PassSame
<1>3. migrated /\ job.from \in dirs BY <1>1, Parts DEF SwitchOK
<1>4. CASE live' = T!NoFile /\ excused' = T!Dropped /\ active' = active
  <2>1. ~T!IsLogin(live') BY <1>4 DEF T!IsLogin, T!NoFile
  <2> QED BY <1>1, <1>2, <1>3, <1>4, <2>1, DroppedAll, JobStops, Parts, PointerMoves
<1>5. CASE UNCHANGED <<live, excused>> /\ active' \in {active, job.from}
  BY <1>1, <1>2, <1>3, <1>5, JobStops, Parts, PointerMoves
<1> QED BY <1>4, <1>5 DEF T!SwitchClear

LEMMA FilePointKeeps ==
  ASSUME LoginNames, LoginInv, T!FilePoint
  PROVE  LoginInv'
<1>1. /\ job.op = "file" /\ job.step = "point"
      /\ UNCHANGED <<dirs, stored, backups, rescues, newest, renewed>>
      /\ migrated' = migrated /\ live' = live /\ owner' = owner /\ excused' = excused /\ T!Done
  BY DEF T!FilePoint, T!At, T!history, T!FileFails
<1>2. /\ (migrated \/ "overtaken" \in excused) /\ job.name \in dirs /\ pass.step = "file"
  BY <1>1, Parts DEF FileOK
<1>3. CASE active' = job.name /\ T!PassTo("recheck")
  <2>1. pass' \in T!Pass /\ pass'.step = "recheck" /\ pass'.data = pass.data BY <1>3, Parts, PassGoes
  <2>2. PassOK' BY <1>1, <1>2, <2>1, Parts DEF PassOK, Issued
  <2> QED BY <1>1, <1>2, <1>3, <2>1, <2>2, JobStops, Parts, PointerMoves
<1>4. CASE T!PassEnds /\ active' = active
  BY <1>1, <1>2, <1>4, PassDone, JobStops, Parts, PointerMoves
<1> QED BY <1>3, <1>4 DEF T!FilePoint, T!FileFails

LEMMA ReplaceLiveKeeps ==
  ASSUME LoginNames, LoginInv, T!ReplaceLive
  PROVE  LoginInv'
<1>1. /\ job.op \in {"import", "migrate"} /\ job.step = "strip" /\ UNCHANGED <<T!store, newest, owner>>
      /\ renewed' = renewed
      /\ pass' = pass
  BY DEF T!ReplaceLive
<1>2. PassOK' BY <1>1, Parts, PassSame, StoreSame
<1>3. Copied(job.data)
  <2>1. CASE job.op = "import" BY <2>1, Parts DEF ImportOK, Copied
  <2>2. CASE job.op = "migrate" BY <1>1, <2>2, Parts DEF MigrateOK, Copied
  <2> QED BY <1>1, <2>1, <2>2
<1>4. CASE T!Done /\ UNCHANGED <<live, excused>> BY <1>1, <1>2, <1>4, JobStops, Parts, LiveMoves
<1>5. CASE live' = T!CopyOf(job.data) /\ excused' = IF live # job.data THEN T!Dropped ELSE excused
  <2>1. ~T!IsLogin(live') BY <1>5, Parts, CopyIsNoLogin
  <2>2. excused \subseteq excused' BY <1>5, DroppedAll
  <2>3. T!IsLogin(live) => live.account \in excused' \/ Copied(live) BY <1>3, <1>5, DroppedAll
  <2>4. CASE T!Done BY <1>1, <1>2, <2>1, <2>2, <2>3, <2>4, JobStops, Parts, LiveMoves
  <2>5. CASE job.op = "migrate" /\ T!Goto("mark")
    <3>0. "mark" \in StepNames BY DEF StepNames
    <3>2. job' \in T!Job /\ job'.step = "mark" /\ job'.op = job.op /\ job'.name = job.name
            /\ job'.data = job.data
      BY <2>5, <3>0, Parts, JobGoes
    <3>3. MigrateOK' BY <1>1, <2>5, <3>2, Parts, StoreSame DEF MigrateOK
    <3>4. JobsOK' BY <2>5, <3>2, <3>3, OneJobOK
    <3>5. T!IsLogin(job'.data) => Issued(job'.data) BY <3>2, Parts DEF AllIssued
    <3> QED BY <1>1, <1>2, <2>1, <2>2, <2>3, <3>2, <3>4, <3>5, Parts, LiveMoves
  <2> QED BY <1>1, <1>5, <2>4, <2>5 DEF T!ReplaceLive
<1> QED BY <1>4, <1>5 DEF T!ReplaceLive

LEMMA RestoreFullKeeps ==
  ASSUME LoginNames, LoginInv, T!RestoreFull
  PROVE  LoginInv'
<1>1. /\ job.op = "unmigrate" /\ job.step = "restore" /\ UNCHANGED <<T!store, newest>>
      /\ renewed' = renewed /\ pass' = pass
      /\ owner' = owner /\ excused' = excused
  BY DEF T!RestoreFull, T!At, T!history
<1>2. PassOK' BY <1>1, Parts, PassSame, StoreSame
<1>3. CASE T!Done /\ live' = live BY <1>1, <1>2, <1>3, JobStops, Parts, LiveMoves
<1>4. CASE ~T!IsLogin(live) /\ T!Goto("catch") /\ live' = job.data
  <2>0. "catch" \in StepNames BY DEF StepNames
  <2>1. job' \in T!Job /\ job'.step = "catch" /\ job'.op = job.op /\ job'.name = job.name
          /\ job'.data = job.data
    BY <1>4, <2>0, Parts, JobGoes
  <2>2. stored[active] = job.data /\ job.data # T!NoFile /\ job.name = active /\ migrated
    BY <1>1, Parts DEF UnmigrateOK
  <2>3. T!IsLogin(job.data) BY <2>2, Parts DEF T!Logins, T!File, T!IsLogin
  <2>4. UnmigrateOK' BY <1>1, <1>4, <2>1, <2>2, <2>3, StoreSame DEF UnmigrateOK
  <2>5. JobsOK' BY <1>1, <2>1, <2>4, OneJobOK
  <2>6. T!IsLogin(job'.data) => Issued(job'.data) BY <2>1, Parts DEF AllIssued
  <2> QED BY <1>1, <1>2, <1>4, <2>1, <2>5, <2>6, Parts, LiveMoves
<1> QED BY <1>3, <1>4 DEF T!RestoreFull

\* The steps that add a backup.
LEMMA BackupMoves ==
  ASSUME LoginNames, LoginInv,
         UNCHANGED <<live, dirs, stored, rescues, active, migrated, newest, renewed, T!history>>,
         backups' \in [Profiles -> Seq(T!Logins)],
           \A q \in Profiles : T!ToSet(backups[q]) \subseteq T!ToSet(backups'[q]),
         job' \in T!Job, pass' \in T!Pass, T!IsLogin(job'.data) => Issued(job'.data), PassOK', JobsOK'
  PROVE  LoginInv'
<1>1. /\ live' = live /\ dirs' = dirs /\ stored' = stored /\ rescues' = rescues /\ newest' = newest
      /\ active' = active /\ migrated' = migrated
      /\ owner' = owner /\ renewed' = renewed /\ excused' = excused
  BY DEF T!history
<1>2. \A f \in T!Logins : Copied(f) => Copied(f)' BY <1>1, Parts, CopiesGrow
<1>3. dirs' \subseteq Profiles /\ active' \in dirs' /\ rescues' \in Seq(T!Logins)
        /\ migrated' \in BOOLEAN
  BY <1>1, Parts DEF LoginTypes
<1> QED BY <1>1, <1>2, <1>3, Parts, Moves

LEMMA FileBackUpKeeps ==
  ASSUME LoginNames, LoginInv, RoomForLogins, T!FileBackUp
  PROVE  LoginInv'
<1>1. /\ job.op = "file" /\ job.step = "backup"
      /\ UNCHANGED <<live, dirs, stored, rescues, active, migrated, renewed, newest, T!history>>
  BY DEF T!FileBackUp, T!At
<1>2. /\ pass.step = "file" /\ job.data = pass.data /\ ~pass.create /\ job.name \in dirs
  BY <1>1, Parts DEF FileOK
<1>3. CASE T!Goto("store") /\ pass' = pass
           /\ backups' = IF T!IsLogin(stored[job.name]) /\ stored[job.name] # job.data
                         THEN T!Backed(job.name, stored[job.name]) ELSE backups
  <2>0. "store" \in StepNames BY DEF StepNames
  <2>1. job' \in T!Job /\ job'.step = "store" /\ job'.op = job.op /\ job'.name = job.name
          /\ job'.data = job.data
    BY <1>3, <2>0, Parts, JobGoes
  <2>2. PassOK' BY <1>1, <1>3, Parts, PassSame
  <2>3. PICK p \in Profiles : p = job.name /\ p \in dirs BY <1>2, Parts
  <2>4. stored[p] \in T!Logins \cup {T!NoFile, T!Link} BY Parts DEF LoginTypes
  <2>5. /\ backups' \in [Profiles -> Seq(T!Logins)]
        /\ \A q \in Profiles : T!ToSet(backups[q]) \subseteq T!ToSet(backups'[q])
        /\ T!IsLogin(stored[p]) => stored[p] = job.data \/ stored[p] \in T!ToSet(backups'[p])
    <3>1. CASE T!IsLogin(stored[p]) /\ stored[p] # job.data
      <4>1. PICK f \in T!Logins : f = stored[p] BY <2>4, <3>1 DEF T!IsLogin, T!NoFile, T!Link
      <4>2. backups' = T!Backed(p, f) BY <1>3, <2>3, <3>1, <4>1
      <4> QED BY <4>1, <4>2, Parts, BackedKeeps
    <3>2. CASE ~(T!IsLogin(stored[p]) /\ stored[p] # job.data)
      BY <1>3, <2>3, <3>2, Parts DEF LoginTypes
    <3> QED BY <3>1, <3>2
  <2>6. FileOK' BY <1>1, <1>2, <1>3, <2>1, <2>3, <2>5 DEF FileOK
  <2>7. JobsOK' BY <1>1, <2>1, <2>6, OneJobOK
  <2>8. T!IsLogin(job'.data) => Issued(job'.data) BY <2>1, Parts DEF AllIssued
  <2> QED BY <1>1, <1>3, <2>1, <2>2, <2>5, <2>7, <2>8, Parts, BackupMoves
<1>4. CASE T!Done /\ T!PassEnds /\ backups' = backups
  BY <1>1, <1>4, PassDone, JobStops, Parts, BackupMoves DEF LoginTypes
<1> QED BY <1>3, <1>4 DEF T!FileBackUp, T!FileFails

LEMMA MigrateBackUpKeeps ==
  ASSUME LoginNames, LoginInv, RoomForLogins, T!MigrateBackUp
  PROVE  LoginInv'
<1>1. /\ job.op = "migrate" /\ job.step = "backup"
      /\ UNCHANGED <<live, dirs, stored, rescues, active, migrated, renewed, newest, T!history>>
      /\ pass' = pass
  BY DEF T!MigrateBackUp, T!At
<1>2. ~migrated /\ job.name = active /\ job.data # T!NoFile BY <1>1, Parts DEF MigrateOK
<1>3. PassOK' BY <1>1, Parts, PassSame
<1>4. CASE backups' = T!Backed(job.name, job.data) /\ T!Goto("unlink")
  <2>0. "unlink" \in StepNames BY DEF StepNames
  <2>1. job' \in T!Job /\ job'.step = "unlink" /\ job'.op = job.op /\ job'.name = job.name
          /\ job'.data = job.data
    BY <1>4, <2>0, Parts, JobGoes
  <2>2. PICK p \in Profiles, f \in T!Logins : p = job.name /\ f = job.data BY <1>2, Parts
  <2>3. /\ backups' \in [Profiles -> Seq(T!Logins)]
        /\ \A q \in Profiles : T!ToSet(backups[q]) \subseteq T!ToSet(backups'[q])
        /\ f \in T!ToSet(backups'[p])
    BY <1>4, <2>2, Parts, BackedKeeps
  <2>4. MigrateOK' BY <1>1, <1>2, <2>1, <2>2, <2>3 DEF MigrateOK
  <2>5. JobsOK' BY <1>1, <2>1, <2>4, OneJobOK
  <2>6. T!IsLogin(job'.data) => Issued(job'.data) BY <2>1, Parts DEF AllIssued
  <2> QED BY <1>1, <1>3, <2>1, <2>3, <2>5, <2>6, Parts, BackupMoves
<1>5. CASE T!Done /\ backups' = backups
  BY <1>1, <1>3, <1>5, JobStops, Parts, BackupMoves DEF LoginTypes
<1> QED BY <1>4, <1>5 DEF T!MigrateBackUp

LEMMA MigrateMarkKeeps ==
  ASSUME LoginNames, LoginInv, T!MigrateMark
  PROVE  LoginInv'
<1>1. /\ T!Done /\ live' = live /\ dirs' = dirs /\ stored' = stored /\ backups' = backups
      /\ rescues' = rescues
      /\ active' = active /\ pass' = pass /\ renewed' = renewed /\ newest' = newest
      /\ owner' = owner /\ excused' = excused
  BY DEF T!MigrateMark, T!history
<1>2. PassOK' BY <1>1, Parts, PassSame
<1>3. \A f \in T!Logins : Copied(f) => Copied(f)' BY <1>1, Parts, CopiesGrow
<1>4. (migrated' = migrated \/ migrated') /\ migrated' \in BOOLEAN
  BY Parts DEF T!MigrateMark, LoginTypes
<1>5. backups' \in [Profiles -> Seq(T!Logins)] /\ rescues' \in Seq(T!Logins)
  BY <1>1, Parts DEF LoginTypes
<1> QED BY <1>1, <1>2, <1>3, <1>4, <1>5, JobStops, Parts, Moves

LEMMA UnmigrateMarkKeeps ==
  ASSUME LoginNames, LoginInv, T!UnmigrateMark
  PROVE  LoginInv'
<1>1. /\ live' = live /\ dirs' = dirs /\ stored' = stored /\ backups' = backups /\ rescues' = rescues
      /\ active' = active /\ pass' = pass /\ renewed' = renewed /\ newest' = newest
      /\ owner' = owner /\ excused' = excused /\ job.op = "unmigrate" /\ job.step = "mark"
  BY DEF T!UnmigrateMark, T!At, T!history
<1>2. PassOK' BY <1>1, Parts, PassSame
<1>3. \A f \in T!Logins : Copied(f) => Copied(f)' BY <1>1, Parts, CopiesGrow
<1>5. backups' \in [Profiles -> Seq(T!Logins)] /\ rescues' \in Seq(T!Logins)
  BY <1>1, Parts DEF LoginTypes
<1>6. CASE T!Done /\ migrated' = migrated
  <2>1. migrated' \in BOOLEAN BY <1>6, Parts DEF LoginTypes
  <2> QED BY <1>1, <1>2, <1>3, <1>5, <1>6, <2>1, JobStops, Parts, Moves
<1>7. CASE migrated' = FALSE /\ T!Goto("link")
  <2>0. "link" \in StepNames BY DEF StepNames
  <2>1. job' \in T!Job /\ job'.step = "link" /\ job'.op = job.op /\ job'.name = job.name
          /\ job'.data = job.data
    BY <1>7, <2>0, Parts, JobGoes
  <2>2. /\ job.name = active /\ job.data # T!NoFile /\ T!IsLogin(stored[active])
        /\ Fresh(stored[active]) => live = stored[active]
    BY <1>1, Parts DEF UnmigrateOK
  <2>3. Fresh(stored[active])' <=> Fresh(stored[active]) BY <1>1 DEF Fresh
  <2>4. UnmigrateOK' BY <1>1, <1>7, <2>1, <2>2, <2>3 DEF UnmigrateOK
  <2>5. JobsOK' BY <1>1, <2>1, <2>4, OneJobOK
  <2>6. Linked' BY <1>1, <2>2, <2>3 DEF Linked
  <2>7. EmptyOutside' /\ T!OwnAccountOnly' BY <1>1, Parts DEF EmptyOutside, T!OwnAccountOnly
  <2>8. T!LoginKept' BY <1>1, Parts DEF T!LoginKept
  <2>9. LoginTypes' BY <1>1, <1>7, <2>1, Parts DEF LoginTypes
  <2>10. AllIssued' BY <1>1, <2>1, Parts DEF AllIssued, Issued
  <2> QED BY <1>2, <2>5, <2>6, <2>7, <2>8, <2>9, <2>10 DEF LoginInv
<1> QED BY <1>6, <1>7 DEF T!UnmigrateMark

\* A step that writes the file of one profile.
LEMMA StoredMoves ==
  ASSUME LoginNames, LoginInv, NEW p \in dirs, NEW x \in T!Logins \cup {T!NoFile, T!Link},
         stored' = [stored EXCEPT ![p] = x],
         UNCHANGED <<live, dirs, rescues, active, migrated, newest, renewed>>,
                     excused \subseteq excused',
         backups' \in [Profiles -> Seq(T!Logins)],
           \A q \in Profiles : T!ToSet(backups[q]) \subseteq T!ToSet(backups'[q]),
         T!IsLogin(x) => Issued(x),
         owner' \in [Profiles -> Accounts \cup {Nobody}],
           \A q \in Profiles \ {p} : owner'[q] = owner[q],
         p \in excused' \/ ~T!IsLogin(x) \/ x.account = owner'[p],
         \A f \in T!Logins : f = stored[p] /\ Fresh(f)' /\ "overtaken" \notin excused' => x = f
           \/ live = f \/ Copied(f)',
         job' \in T!Job, pass' \in T!Pass, T!IsLogin(job'.data)
           => Issued(job'.data), PassOK', JobsOK', Linked'
  PROVE  LoginInv'
<1>1. /\ live' = live /\ dirs' = dirs /\ rescues' = rescues /\ active' = active /\ migrated' = migrated
      /\ newest' = newest /\ renewed' = renewed /\ p \in Profiles
      /\ stored \in [Profiles -> T!Logins \cup {T!NoFile, T!Link}]
  BY Parts DEF LoginTypes
<1>2. stored'[p] = x /\ \A q \in Profiles \ {p} : stored'[q] = stored[q] BY <1>1
<1>3. \A f \in T!Logins : Copied(f) => Copied(f)' BY <1>1, Parts, CopiesGrow
<1>4. LoginTypes' BY <1>1, Parts DEF LoginTypes
<1>5. AllIssued'
  <2>1. (T!IsLogin(live) => Issued(live))' BY <1>1, Parts DEF AllIssued, Issued
  <2>2. (\A q \in Profiles : T!IsLogin(stored[q]) => Issued(stored[q]))'
    BY <1>1, <1>2, Parts DEF AllIssued, Issued
  <2>3. (T!IsLogin(job.data) => Issued(job.data))' BY <1>1 DEF Issued
  <2> QED BY <2>1, <2>2, <2>3 DEF AllIssued
<1>6. EmptyOutside' BY <1>1, <1>2, Parts DEF EmptyOutside
<1>7. T!OwnAccountOnly' BY <1>1, <1>2, Parts DEF T!OwnAccountOnly
<1>8. T!LoginKept'
  <2>1. ASSUME NEW f \in T!Logins, Kept(f), Fresh(f)', "overtaken" \notin excused' PROVE Kept(f)'
    <3>1. CASE live = f BY <1>1, <3>1 DEF Kept
    <3>2. CASE Copied(f) BY <1>3, <3>2 DEF Kept
    <3>3. CASE \E q \in dirs \ {p} : stored[q] = f BY <1>1, <1>2, <3>3 DEF Kept
    <3>4. CASE stored[p] = f
      <4>1. x = f \/ live = f \/ Copied(f)' BY <2>1, <3>4
      <4> QED BY <1>1, <1>2, <4>1 DEF Kept
    <3> QED BY <2>1, <3>1, <3>2, <3>3, <3>4 DEF Kept
  <2> QED BY <1>1, <2>1, Parts, KeptStays
<1> QED BY <1>4, <1>5, <1>6, <1>7, <1>8 DEF LoginInv

LEMMA StoredLogin ==
  ASSUME LoginInv, NEW p \in Profiles, T!IsLogin(stored[p])
  PROVE  stored[p] \in T!Logins /\ Issued(stored[p])
<1>1. stored[p] \in T!Logins \cup {T!NoFile, T!Link} BY Parts DEF LoginTypes
<1> QED BY <1>1, Parts DEF AllIssued, T!IsLogin, T!NoFile, T!Link

LEMMA SameBackups ==
  ASSUME LoginInv, backups' = backups
  PROVE  backups' \in [Profiles -> Seq(T!Logins)]
           /\ \A q \in Profiles : T!ToSet(backups[q]) \subseteq T!ToSet(backups'[q])
BY Parts DEF LoginTypes

\* A broken link is removed from the active profile of a tool in the link model.
LEMMA Unlinks ==
  ASSUME LoginNames, LoginInv, ~migrated,
         stored' = [stored EXCEPT ![active] = IF @ = T!Link THEN T!NoFile ELSE @],
         UNCHANGED <<live, dirs, backups, rescues, active, migrated, newest, renewed, T!history>>,
         job' \in T!Job, pass' \in T!Pass, T!IsLogin(job'.data) => Issued(job'.data), PassOK', JobsOK'
  PROVE  LoginInv'
<1>1. PICK p \in dirs : p = active BY Parts
<1>2. stored[p] \in T!Logins \cup {T!NoFile, T!Link} /\ p \in Profiles BY <1>1, Parts DEF LoginTypes
<1>3. PICK x \in T!Logins \cup {T!NoFile, T!Link} :
        x = IF stored[p] = T!Link THEN T!NoFile ELSE stored[p]
  BY <1>2
<1>4. stored' = [stored EXCEPT ![p] = x] BY <1>1, <1>3
<1>5. T!IsLogin(x) => x = stored[p] BY <1>3 DEF T!IsLogin, T!NoFile
<1>6. T!IsLogin(x) => Issued(x) BY <1>2, <1>5, StoredLogin
<1>7. owner' = owner /\ owner \in [Profiles -> Accounts \cup {Nobody}] /\ excused' = excused
  BY Parts DEF LoginTypes, T!history
<1>8. p \in excused' \/ ~T!IsLogin(x) \/ x.account = owner'[p]
  BY <1>2, <1>5, <1>7, Parts DEF T!OwnAccountOnly
<1>9. \A f \in T!Logins : f = stored[p] => x = f BY <1>3 DEF T!Logins, T!File, T!Link
<1>10. Linked'
  <2>1. stored'[active] = x /\ active' = active BY <1>1, <1>2, <1>4, Parts DEF LoginTypes
  <2> SUFFICES ASSUME T!IsLogin(x), "overtaken" \notin excused, Fresh(x)' PROVE live' = x \/ Copied(x)'
    BY <1>7, <2>1 DEF Linked, Fresh, Copied
  <2>2. Fresh(x) BY <1>7 DEF Fresh
  <2>3. live = x \/ Copied(x) BY <1>1, <1>5, <2>2, Parts DEF Linked, Fresh, Copied
  <2> QED BY <2>3 DEF Copied
<1>11. /\ backups' \in [Profiles -> Seq(T!Logins)]
       /\ \A q \in Profiles : T!ToSet(backups[q]) \subseteq T!ToSet(backups'[q])
       /\ UNCHANGED <<live, dirs, rescues, active, migrated, newest, renewed>>
  BY SameBackups
<1>12. /\ owner' \in [Profiles -> Accounts \cup {Nobody}]
       /\ \A q \in Profiles \ {p} : owner'[q] = owner[q]
       /\ excused \subseteq excused'
  BY <1>7
<1>13. \A f \in T!Logins : f = stored[p] /\ Fresh(f)' /\ "overtaken" \notin excused' => x = f
         \/ live = f \/ Copied(f)'
  BY <1>9
<1> QED BY <1>4, <1>6, <1>8, <1>10, <1>11, <1>12, <1>13, StoredMoves

LEMMA MigrateBeginKeeps ==
  ASSUME LoginNames, LoginInv, T!MigrateBegin
  PROVE  LoginInv'
<1>1. /\ UNCHANGED <<live, dirs, backups, rescues, active, migrated, pass, renewed, newest, T!history>>
      /\ T!Unlocked /\ ~migrated
  BY DEF T!MigrateBegin
<1>2. PassOK' /\ pass' \in T!Pass BY <1>1, Parts, PassSame
<1>3. CASE stored' = [stored EXCEPT ![active] = IF @ = T!Link THEN T!NoFile ELSE @] /\ UNCHANGED job
  <2>1. job' \in T!Job /\ JobsOK' /\ ~T!IsLogin(job'.data) BY <1>1, <1>3, IdleJob
  <2> QED BY <1>1, <1>2, <1>3, <2>1, Unlinks
<1>4. ASSUME UNCHANGED stored,
             ~T!IsLogin(live) =>
               job' = [T!NoJob EXCEPT !.op = "migrate", !.step = "mark", !.name = active],
             T!IsLogin(live) =>
               job' = [T!NoJob EXCEPT !.op = "migrate", !.step = "backup", !.name = active, !.data = live]
      PROVE  LoginInv'
  <2>1. PICK n \in Profiles \cup {Nobody} : n = active BY Parts
  <2>4. /\ job' \in T!Job /\ job'.op = "migrate" /\ job'.name = active
        /\ \/ job'.step = "mark" /\ job'.data = T!NoFile
           \/ job'.step = "backup" /\ job'.data = live /\ T!IsLogin(live)
    <3>1. CASE T!IsLogin(live)
      <4>1. PICK d \in T!Logins \cup {T!NoFile} : d = live BY <3>1, Parts DEF LoginTypes
      <4>2. job' = [T!NoJob EXCEPT !.op = "migrate", !.step = "backup", !.name = n, !.data = d]
        BY <1>4, <2>1, <3>1, <4>1
      <4>3. "backup" \in StepNames BY DEF StepNames
      <4>4. job' \in T!Job /\ job'.op = "migrate" /\ job'.step = "backup" /\ job'.name = n
              /\ job'.data = d
        BY <4>2, <4>3, JobBegins
      <4> QED BY <2>1, <3>1, <4>1, <4>4
    <3>2. CASE ~T!IsLogin(live)
      <4>1. job' = [T!NoJob EXCEPT !.op = "migrate", !.step = "mark", !.name = n] BY <1>4, <2>1, <3>2
      <4>2. T!NoJob \in T!Job /\ T!NoJob.data = T!NoFile BY DEF T!NoJob, T!Job
      <4>3. job' \in T!Job /\ job'.op = "migrate" /\ job'.step = "mark" /\ job'.name = n
              /\ job'.data = T!NoFile
        BY <4>1, <4>2 DEF T!Job
      <4> QED BY <2>1, <4>3
    <3> QED BY <3>1, <3>2
  <2>5. MigrateOK' BY <1>1, <2>4 DEF MigrateOK, T!IsLogin, T!NoFile
  <2>6. JobsOK' BY <2>4, <2>5, OneJobOK
  <2>7. T!IsLogin(job'.data) => Issued(job'.data) BY <2>4, Parts DEF AllIssued, T!IsLogin, T!NoFile
  <2>8. UNCHANGED T!store /\ owner' = owner /\ excused' = excused /\ live' = live
    BY <1>1, <1>4 DEF T!store, T!history
  <2> QED BY <1>1, <1>2, <2>4, <2>6, <2>7, <2>8, Parts, LiveMoves
<1>5. T!IsLogin(live) => live # T!NoFile BY DEF T!IsLogin, T!NoFile
<1> QED BY <1>3, <1>4, <1>5 DEF T!MigrateBegin

LEMMA MigrateUnlinkKeeps ==
  ASSUME LoginNames, LoginInv, T!MigrateUnlink
  PROVE  LoginInv'
<1>1. /\ UNCHANGED <<live, dirs, backups, rescues, active, migrated, pass, renewed, newest, T!history>>
      /\ job.op = "migrate" /\ job.step = "unlink"
  BY DEF T!MigrateUnlink, T!At
<1>2. PassOK' /\ pass' \in T!Pass BY <1>1, Parts, PassSame
<1>3. job.name = active /\ ~migrated /\ job.data # T!NoFile /\ job.data \in T!ToSet(backups[job.name])
  BY <1>1, Parts DEF MigrateOK
<1>4. CASE T!Done /\ UNCHANGED stored
  <2>1. UNCHANGED T!store /\ owner' = owner /\ excused' = excused /\ live' = live
    BY <1>1, <1>4 DEF T!store, T!history
  <2> QED BY <1>1, <1>2, <1>4, <2>1, Parts, JobStops, LiveMoves
<1>5. CASE T!Goto("store") /\ stored' = [stored EXCEPT ![job.name] = IF @ = T!Link THEN T!NoFile ELSE @]
  <2>0. "store" \in StepNames BY DEF StepNames
  <2>1. job' \in T!Job /\ job'.step = "store" /\ job'.op = job.op /\ job'.name = job.name
          /\ job'.data = job.data
    BY <1>5, <2>0, Parts, JobGoes
  <2>2. MigrateOK' BY <1>1, <1>3, <2>1 DEF MigrateOK
  <2>3. JobsOK' BY <1>1, <2>1, <2>2, OneJobOK
  <2>4. T!IsLogin(job'.data) => Issued(job'.data) BY <2>1, Parts DEF AllIssued
  <2> QED BY <1>1, <1>2, <1>3, <1>5, <2>1, <2>3, <2>4, Unlinks
<1> QED BY <1>4, <1>5 DEF T!MigrateUnlink

\* What a step that writes one stored file and makes no backup need not say.
LEMMA WriteMoves ==
  ASSUME LoginNames, LoginInv, NEW p \in dirs, NEW x \in T!Logins \cup {T!NoFile, T!Link},
         stored' = [stored EXCEPT ![p] = x], T!IsLogin(x) => Issued(x),
         UNCHANGED <<live, dirs, backups, rescues, active, migrated, newest, renewed>>,
                     excused \subseteq excused',
         owner' = owner, p \in excused' \/ ~T!IsLogin(x) \/ x.account = owner[p],
         \A f \in T!Logins : f = stored[p] /\ Fresh(f)' /\ "overtaken" \notin excused' => x = f
           \/ live = f \/ Copied(f)',
         job' \in T!Job, pass' \in T!Pass, T!IsLogin(job'.data)
           => Issued(job'.data), PassOK', JobsOK', Linked'
  PROVE  LoginInv'
<1>1. /\ backups' \in [Profiles -> Seq(T!Logins)]
      /\ \A q \in Profiles : T!ToSet(backups[q]) \subseteq T!ToSet(backups'[q])
      /\ UNCHANGED <<live, dirs, rescues, active, migrated, newest, renewed>>
  BY SameBackups
<1>2. /\ owner' \in [Profiles -> Accounts \cup {Nobody}]
      /\ \A q \in Profiles \ {p} : owner'[q] = owner[q]
      /\ p \in excused' \/ ~T!IsLogin(x) \/ x.account = owner'[p]
  BY Parts DEF LoginTypes
<1> QED BY <1>1, <1>2, StoredMoves

\* Once the live login is there too, or a copy of it, the stored one of the active profile is spared.
LEMMA SparedActive ==
  ASSUME LoginInv, ~migrated, newest' = newest, excused \subseteq excused', NEW f \in T!Logins,
         f = stored[active], Fresh(f)', "overtaken" \notin excused'
  PROVE  live = f \/ Copied(f)
<1>1. T!IsLogin(f) BY DEF T!Logins, T!File, T!IsLogin
<1>2. Fresh(f) BY DEF Fresh
<1> QED BY <1>1, <1>2, Parts DEF Linked, Fresh, Copied

LEMMA MigrateStoreKeeps ==
  ASSUME LoginNames, LoginInv, T!MigrateStore
  PROVE  LoginInv'
<1>1. /\ UNCHANGED <<live, dirs, backups, rescues, active, migrated, newest, renewed>> /\ pass' = pass
      /\ owner' = owner
      /\ job.op = "migrate" /\ job.step = "store"
  BY DEF T!MigrateStore, T!At
<1>2. PassOK' /\ pass' \in T!Pass BY <1>1, Parts, PassSame
<1>3. job.name = active /\ ~migrated /\ job.data # T!NoFile /\ job.data \in T!ToSet(backups[job.name])
  BY <1>1, Parts DEF MigrateOK
<1>4. CASE T!Done /\ UNCHANGED <<stored, excused>>
  <2>1. UNCHANGED T!store BY <1>1, <1>4 DEF T!store
  <2> QED BY <1>1, <1>2, <1>4, <2>1, Parts, JobStops, LiveMoves
<1>5. CASE /\ stored' = [stored EXCEPT ![job.name] = job.data] /\ T!Goto("strip")
           /\ excused' = IF owner[job.name] # job.data.account THEN excused \cup {job.name} ELSE excused
  <2>1. PICK p \in dirs, x \in T!Logins : p = active /\ x = job.data BY <1>3, Parts
  <2>2. stored' = [stored EXCEPT ![p] = x] /\ p \in Profiles BY <1>3, <1>5, <2>1, Parts
  <2>3. T!IsLogin(x) => Issued(x) BY <2>1, Parts DEF AllIssued
  <2>4. excused \subseteq excused' /\ (p \in excused' \/ x.account = owner[p]) BY <1>3, <1>5, <2>1
  <2>5. Copied(x)' BY <1>1, <1>3, <2>1 DEF Copied
  <2>6. \A f \in T!Logins : Copied(f) => Copied(f)' BY <1>1 DEF Copied
  <2>7. \A f \in T!Logins : f = stored[p] /\ Fresh(f)' /\ "overtaken" \notin excused' => live = f
          \/ Copied(f)'
    BY <1>1, <1>3, <2>1, <2>4, <2>6, SparedActive
  <2>8. "strip" \in StepNames BY DEF StepNames
  <2>9. job' \in T!Job /\ job'.step = "strip" /\ job'.op = job.op /\ job'.name = job.name
          /\ job'.data = job.data
    BY <1>5, <2>8, Parts, JobGoes
  <2>10. MigrateOK' BY <1>1, <1>3, <2>9 DEF MigrateOK
  <2>11. JobsOK' BY <1>1, <2>9, <2>10, OneJobOK
  <2>12. T!IsLogin(job'.data) => Issued(job'.data) BY <2>9, Parts DEF AllIssued
  <2>13. Linked'
    <3>1. stored'[active] = x /\ active' = active BY <1>1, <2>1, <2>2, Parts DEF LoginTypes
    <3> QED BY <2>5, <3>1 DEF Linked, Copied
  <2> QED BY <1>1, <1>2, <2>2, <2>3, <2>4, <2>7, <2>9, <2>11, <2>12, <2>13, WriteMoves
<1> QED BY <1>4, <1>5 DEF T!MigrateStore

LEMMA CatchUpKeeps ==
  ASSUME LoginNames, LoginInv, T!CatchUp
  PROVE  LoginInv'
<1>1. /\ UNCHANGED <<live, dirs, backups, rescues, active, migrated, newest, renewed>> /\ pass' = pass
      /\ owner' = owner
      /\ job.op = "unmigrate" /\ job.step = "catch"
  BY DEF T!CatchUp, T!At
<1>2. PassOK' /\ pass' \in T!Pass BY <1>1, Parts, PassSame
<1>3. /\ job.name = active /\ migrated /\ job.data # T!NoFile /\ (live = T!NoFile \/ T!IsLogin(live))
      /\ T!IsLogin(stored[active]) /\ (Fresh(stored[active]) => live = stored[active])
  BY <1>1, Parts DEF UnmigrateOK
<1>4. CASE T!Done /\ UNCHANGED <<stored, excused>>
  <2>1. UNCHANGED T!store BY <1>1, <1>4 DEF T!store
  <2> QED BY <1>1, <1>2, <1>4, <2>1, Parts, JobStops, LiveMoves
<1>5. CASE /\ live # T!NoFile /\ stored' = [stored EXCEPT ![job.name] = live] /\ T!Goto("mark")
           /\ excused' = IF owner[job.name] # live.account THEN excused \cup {job.name} ELSE excused
  <2>0. T!IsLogin(live) /\ live \in T!Logins BY <1>3, <1>5, Parts DEF LoginTypes
  <2>1. PICK p \in dirs, x \in T!Logins : p = active /\ x = live BY <2>0, Parts
  <2>2. stored' = [stored EXCEPT ![p] = x] /\ p \in Profiles BY <1>3, <1>5, <2>1, Parts
  <2>3. T!IsLogin(x) => Issued(x) BY <2>1, Parts DEF AllIssued
  <2>4. excused \subseteq excused' /\ (p \in excused' \/ x.account = owner[p]) BY <1>3, <1>5, <2>1
  <2>7. \A f \in T!Logins : f = stored[p] /\ Fresh(f)' => live = f
    <3> SUFFICES ASSUME NEW f \in T!Logins, f = stored[p], Fresh(f)' PROVE live = f
      OBVIOUS
    <3>1. Fresh(f) BY <1>1, <2>4 DEF Fresh
    <3> QED BY <1>3, <2>1, <3>1 DEF Fresh
  <2>8. "mark" \in StepNames BY DEF StepNames
  <2>9. job' \in T!Job /\ job'.step = "mark" /\ job'.op = job.op /\ job'.name = job.name
          /\ job'.data = job.data
    BY <1>5, <2>8, Parts, JobGoes
  <2>5. stored'[active] = live /\ active' = active BY <1>1, <2>1, <2>2, Parts DEF LoginTypes
  <2>10. UnmigrateOK' BY <1>1, <1>3, <2>0, <2>5, <2>9 DEF UnmigrateOK
  <2>11. JobsOK' BY <1>1, <2>9, <2>10, OneJobOK
  <2>12. T!IsLogin(job'.data) => Issued(job'.data) BY <2>9, Parts DEF AllIssued
  <2>13. Linked' BY <1>1, <2>5 DEF Linked
  <2> QED BY <1>1, <1>2, <2>2, <2>3, <2>4, <2>7, <2>9, <2>11, <2>12, <2>13, WriteMoves
<1> QED BY <1>4, <1>5 DEF T!CatchUp

LEMMA UnmigrateLinkKeeps ==
  ASSUME LoginNames, LoginInv, T!UnmigrateLink
  PROVE  LoginInv'
<1>1. /\ UNCHANGED <<live, dirs, backups, rescues, active, migrated, newest, renewed>> /\ pass' = pass
      /\ owner' = owner
      /\ excused' = excused /\ job.op = "unmigrate" /\ job.step = "link" /\ T!Done
  BY DEF T!UnmigrateLink, T!At, T!history
<1>2. PassOK' /\ pass' \in T!Pass BY <1>1, Parts, PassSame
<1>3. job.name = active /\ (Fresh(stored[active]) => live = stored[active])
  BY <1>1, Parts DEF UnmigrateOK
<1>4. CASE UNCHANGED stored
  <2>1. UNCHANGED T!store BY <1>1, <1>4 DEF T!store
  <2> QED BY <1>1, <1>2, <1>4, <2>1, Parts, JobStops, LiveMoves
<1>5. CASE stored' = [stored EXCEPT ![job.name] = T!Link]
  <2>1. PICK p \in dirs : p = active BY Parts
  <2>2. stored' = [stored EXCEPT ![p] = T!Link] /\ p \in Profiles /\ ~T!IsLogin(T!Link)
    BY <1>3, <1>5, <2>1, Parts DEF T!IsLogin, T!Link
  <2>7. \A f \in T!Logins : f = stored[p] /\ Fresh(f)' => live = f
    <3> SUFFICES ASSUME NEW f \in T!Logins, f = stored[p], Fresh(f)' PROVE live = f
      OBVIOUS
    <3>1. Fresh(f) BY <1>1 DEF Fresh
    <3> QED BY <1>3, <2>1, <3>1 DEF Fresh
  <2>5. stored'[active] = T!Link /\ active' = active BY <1>1, <2>1, <2>2, Parts DEF LoginTypes
  <2>13. Linked' BY <2>2, <2>5 DEF Linked
  <2>3. T!Link \in T!Logins \cup {T!NoFile, T!Link} /\ excused \subseteq excused' BY <1>1
  <2> QED BY <1>1, <1>2, <2>2, <2>3, <2>7, <2>13, JobStops, WriteMoves
<1> QED BY <1>4, <1>5 DEF T!UnmigrateLink

LEMMA EnsureActiveLinkKeeps ==
  ASSUME LoginNames, LoginInv, RoomForLogins, T!EnsureActiveLink
  PROVE  LoginInv'
<1>1. /\ UNCHANGED <<live, dirs, rescues, active, migrated, newest, renewed>> /\ pass' = pass
      /\ owner' = owner /\ job' = job
      /\ excused' = excused /\ T!Unlocked
      /\ backups' = (IF T!IsLogin(stored[active]) THEN T!Backed(active, stored[active]) ELSE backups)
      /\ stored' = [stored EXCEPT ![active] = T!Link]
  BY DEF T!EnsureActiveLink, T!history
<1>2. PassOK' /\ pass' \in T!Pass BY <1>1, Parts, PassSame
<1>3. PICK p \in dirs : p = active BY Parts
<1>4. stored' = [stored EXCEPT ![p] = T!Link] /\ p \in Profiles /\ ~T!IsLogin(T!Link)
  BY <1>1, <1>3, Parts DEF T!IsLogin, T!Link
<1>5. /\ backups' \in [Profiles -> Seq(T!Logins)]
      /\ \A q \in Profiles : T!ToSet(backups[q]) \subseteq T!ToSet(backups'[q])
      /\ T!IsLogin(stored[p]) => stored[p] \in T!ToSet(backups'[p])
  <2>1. CASE T!IsLogin(stored[p])
    <3>1. PICK f \in T!Logins : f = stored[p] BY <1>4, <2>1, StoredLogin
    <3> QED BY <1>1, <1>3, <1>4, <2>1, <3>1, Parts, BackedKeeps
  <2>2. CASE ~T!IsLogin(stored[p]) BY <1>1, <1>3, <2>2, SameBackups
  <2> QED BY <2>1, <2>2
<1>6. \A f \in T!Logins : f = stored[p] => Copied(f)'
  <2> SUFFICES ASSUME NEW f \in T!Logins, f = stored[p] PROVE Copied(f)'
    OBVIOUS
  <2>1. f \in T!ToSet(backups'[p]) BY <1>5 DEF T!IsLogin, T!Logins, T!File
  <2> QED BY <1>1, <2>1 DEF Copied
<1>7. stored'[active] = T!Link /\ active' = active BY <1>1, <1>3, <1>4, Parts DEF LoginTypes
<1>8. Linked' BY <1>4, <1>7 DEF Linked
<1>9. /\ T!Link \in T!Logins \cup {T!NoFile, T!Link} /\ excused \subseteq excused'
      /\ owner' \in [Profiles -> Accounts \cup {Nobody}]
      /\ \A q \in Profiles \ {p} : owner'[q] = owner[q]
  BY <1>1, Parts DEF LoginTypes
<1>10. job' \in T!Job /\ JobsOK' /\ ~T!IsLogin(job'.data) BY <1>1, IdleJob
<1>11. UNCHANGED <<live, dirs, rescues, active, migrated, newest, renewed>> BY <1>1
<1> QED BY <1>2, <1>4, <1>5, <1>6, <1>8, <1>9, <1>10, <1>11, StoredMoves

\* What import.go chooses for a login holds nothing, or that login, or one of its account.
LEMMA Chosen ==
  ASSUME LoginNames, NEW p \in Profiles, NEW d \in T!Logins, NEW sure \in BOOLEAN,
         p \in T!ChooseImport(d, sure)
  PROVE  \/ stored[p] = d \/ stored[p] = T!NoFile
         \/ T!IsLogin(stored[p]) /\ stored[p].account = d.account
<1>1. p # Nobody BY DEF LoginNames
<1>2. p \in T!SameLogin(d) \/ stored[p] = T!NoFile \/ p \in T!HoldersOf(d.account)
  <2>1. CASE T!SameLogin(d) # {} BY <2>1 DEF T!ChooseImport
  <2>2. CASE T!SameLogin(d) = {} /\ active # Nobody /\ stored[active] = T!NoFile
    BY <2>2 DEF T!ChooseImport
  <2>3. CASE T!SameLogin(d) = {} /\ ~(active # Nobody /\ stored[active] = T!NoFile)
    <3> DEFINE theirs == IF sure THEN T!HoldersOf(d.account) ELSE {}
    <3>1. p \in (IF active \in theirs THEN {active}
                 ELSE IF T!Cardinality(theirs) = 1 THEN theirs ELSE {Nobody})
      BY <2>3 DEF T!ChooseImport
    <3>2. p \in theirs BY <1>1, <3>1
    <3> QED BY <3>2
  <2> QED BY <2>1, <2>2, <2>3
<1> QED BY <1>2 DEF T!SameLogin, T!HoldersOf

\* A profile directory goes whose logins are rescued.
LEMMA DirRemoved ==
  ASSUME LoginNames, LoginInv, NEW n \in dirs, n # active, dirs' = dirs \ {n},
         stored' = [stored EXCEPT ![n] = T!NoFile],
         backups' \in [Profiles -> Seq(T!Logins)], \A q \in dirs \ {n} : backups'[q] = backups[q],
         \A f \in T!Logins : f = stored[n] \/ f \in T!ToSet(backups[n]) => f \in T!ToSet(rescues),
         UNCHANGED <<live, rescues, active, migrated, newest, renewed, excused>>,
         owner' \in [Profiles -> Accounts \cup {Nobody}],
           \A q \in Profiles \ {n} : owner'[q] = owner[q],
         T!Done, pass' \in T!Pass, PassOK'
  PROVE  LoginInv'
<1>1. stored \in [Profiles -> T!Logins \cup {T!NoFile, T!Link}] /\ n \in Profiles
        /\ ~T!IsLogin(T!NoFile)
  BY Parts DEF LoginTypes, T!IsLogin, T!NoFile
<1>2. stored'[n] = T!NoFile /\ \A q \in Profiles \ {n} : stored'[q] = stored[q] BY <1>1
<1>3. \A f \in T!Logins : Copied(f) => Copied(f)' BY DEF Copied
<1>4. LoginTypes' BY <1>1, JobDone, Parts DEF LoginTypes
<1>5. AllIssued'
  <2>1. (T!IsLogin(live) => Issued(live))' BY Parts DEF AllIssued, Issued
  <2>2. (\A q \in Profiles : T!IsLogin(stored[q]) => Issued(stored[q]))'
    BY <1>1, <1>2, Parts DEF AllIssued, Issued
  <2>3. (T!IsLogin(job.data) => Issued(job.data))' BY JobDone, <1>1
  <2> QED BY <2>1, <2>2, <2>3 DEF AllIssued
<1>6. EmptyOutside' BY <1>2, Parts DEF EmptyOutside
<1>7. T!OwnAccountOnly' BY <1>1, <1>2, Parts DEF T!OwnAccountOnly
<1>8. T!LoginKept'
  <2>1. ASSUME NEW f \in T!Logins, Kept(f) PROVE Kept(f)'
    <3>1. CASE live = f BY <3>1 DEF Kept
    <3>2. CASE Copied(f) BY <1>3, <3>2 DEF Kept
    <3>3. CASE \E q \in dirs \ {n} : stored[q] = f BY <1>2, <3>3, Parts DEF Kept
    <3>4. CASE stored[n] = f BY <3>4 DEF Kept, Copied
    <3> QED BY <2>1, <3>1, <3>2, <3>3, <3>4 DEF Kept
  <2> QED BY <2>1, Parts, KeptStays
<1>9. Linked'
  <2>1. stored'[active] = stored[active] /\ active \in Profiles /\ active' = active BY <1>2, Parts
  <2> SUFFICES ASSUME ~migrated, "overtaken" \notin excused, T!IsLogin(stored[active]),
                        Fresh(stored[active])'
               PROVE  live' = stored'[active'] \/ Copied(stored[active])'
    BY <2>1 DEF Linked
  <2>2. Fresh(stored[active]) BY <2>1 DEF Fresh
  <2>3. PICK f \in T!Logins : f = stored[active] BY <2>1, StoredLogin
  <2>4. live = f \/ Copied(f) BY <2>2, <2>3, Parts DEF Linked, Copied
  <2>5. live' = f \/ Copied(f)' BY <1>3, <2>4
  <2>6. f = stored'[active'] BY <2>1, <2>3
  <2> QED BY <2>5, <2>6 DEF Copied
<1> QED BY <1>4, <1>5, <1>6, <1>7, <1>8, <1>9, JobDone DEF LoginInv

\* The reconciler stores a login over the one it backed up, or one it was chosen for.
LEMMA FileStoreKeeps ==
  ASSUME LoginNames, LoginInv, T!FileStore
  PROVE  LoginInv'
<1>1. /\ UNCHANGED <<live, backups, rescues, active, migrated, renewed, newest>>
      /\ job.op = "file" /\ job.step = "store"
  BY DEF T!FileStore, T!At
<1>2. /\ job.name \in dirs /\ pass.step = "file" /\ job.data = pass.data
      /\ pass.data \in T!ToSet(rescues)
      /\ pass.create => stored[job.name] = T!NoFile /\ backups[job.name] = << >> /\ job.name # active
      /\ T!IsLogin(stored[job.name]) => stored[job.name] = job.data
           \/ stored[job.name] \in T!ToSet(backups[job.name])
  BY <1>1, Parts DEF FileOK, PassOK
<1>3. job.data \in T!Logins
  <2>1. rescues \in Seq(T!Logins) BY Parts DEF LoginTypes
  <2> QED BY <1>2, <2>1, InSeq
<1>4. PICK p \in dirs, x \in T!Logins : p = job.name /\ x = job.data /\ p \in Profiles
  BY <1>2, <1>3, Parts
<1>5. CASE /\ T!Goto("point") /\ stored' = [stored EXCEPT ![job.name] = job.data]
           /\ T!Keeps(job.name, job.data) /\ UNCHANGED <<pass, dirs>>
           /\ excused' = excused \cup (IF migrated THEN {} ELSE {"overtaken"})
                \cup {q \in {job.name} \cap dirs :
                        ~pass.create /\ \A sure \in BOOLEAN : q \notin T!ChooseImport(job.data, sure)}
  <2>1. stored' = [stored EXCEPT ![p] = x] BY <1>4, <1>5
  <2>2. T!IsLogin(x) => Issued(x) BY <1>4, Parts DEF AllIssued
  <2>3. excused \subseteq excused' /\ (migrated \/ "overtaken" \in excused') BY <1>5
  <2>4. /\ owner \in [Profiles -> Accounts \cup {Nobody}] /\ x.account \in Accounts
        /\ owner' = IF stored[p] = T!NoFile THEN [owner EXCEPT ![p] = x.account] ELSE owner
    BY <1>4, <1>5, Parts DEF LoginTypes, T!Keeps, T!Logins, T!File
  <2>5. owner' \in [Profiles -> Accounts \cup {Nobody}]
          /\ \A q \in Profiles \ {p} : owner'[q] = owner[q]
    BY <2>4
  <2>6. p \in excused' \/ x.account = owner'[p]
    <3>1. CASE stored[p] = T!NoFile BY <1>4, <2>4, <3>1
    <3>2. CASE stored[p] # T!NoFile /\ p \notin excused'
      <4>1. ~pass.create BY <1>2, <1>4, <3>2
      <4>2. PICK sure \in BOOLEAN : p \in T!ChooseImport(x, sure) BY <1>4, <1>5, <3>2, <4>1
      <4>3. stored[p] = x \/ (T!IsLogin(stored[p]) /\ stored[p].account = x.account)
        BY <1>4, <3>2, <4>2, Chosen
      <4>4. T!IsLogin(stored[p]) /\ stored[p].account = x.account
        BY <4>3 DEF T!IsLogin, T!Logins, T!File
      <4>5. p \notin excused BY <2>3, <3>2
      <4> QED BY <1>4, <2>4, <3>2, <4>4, <4>5, Parts DEF T!OwnAccountOnly
    <3> QED BY <3>1, <3>2
  <2>7. \A f \in T!Logins : f = stored[p] => x = f \/ Copied(f)'
    <3> SUFFICES ASSUME NEW f \in T!Logins, f = stored[p], x # f PROVE Copied(f)'
      OBVIOUS
    <3>1. T!IsLogin(f) BY DEF T!IsLogin, T!Logins, T!File
    <3>2. f \in T!ToSet(backups[p]) BY <1>2, <1>4, <3>1
    <3> QED BY <1>1, <1>5, <3>2 DEF Copied
  <2>8. "point" \in StepNames BY DEF StepNames
  <2>9. job' \in T!Job /\ job'.step = "point" /\ job'.op = job.op /\ job'.name = job.name
          /\ job'.data = job.data
    BY <1>5, <2>8, Parts, JobGoes
  <2>10. FileOK' BY <1>1, <1>2, <1>5, <2>3, <2>9 DEF FileOK
  <2>11. JobsOK' BY <1>1, <2>9, <2>10, OneJobOK
  <2>12. T!IsLogin(job'.data) => Issued(job'.data) BY <2>9, Parts DEF AllIssued
  <2>13. Linked' BY <1>1, <2>3 DEF Linked
  <2>14. PassOK' /\ pass' \in T!Pass BY <1>1, <1>5, Parts, PassSame
  <2>15. UNCHANGED <<live, dirs, rescues, active, migrated, newest, renewed>> BY <1>1, <1>5
  <2>16. backups' \in [Profiles -> Seq(T!Logins)]
           /\ \A q \in Profiles : T!ToSet(backups[q]) \subseteq T!ToSet(backups'[q])
    BY <1>1, SameBackups
  <2> QED BY <2>1, <2>2, <2>3, <2>5, <2>6, <2>7, <2>9, <2>11, <2>12, <2>13, <2>14, <2>15, <2>16,
        StoredMoves
<1>6. CASE T!Done /\ T!PassEnds /\ dirs' = (IF pass.create THEN dirs \ {job.name} ELSE dirs)
             /\ UNCHANGED <<stored, T!history>>
  <2>1. owner' = owner /\ excused' = excused BY <1>6 DEF T!history
  <2>2. CASE pass.create
    <3>1. dirs' = dirs \ {p} /\ p # active /\ stored[p] = T!NoFile /\ backups[p] = << >>
      BY <1>2, <1>4, <1>6, <2>2
    <3>2. stored' = [stored EXCEPT ![p] = T!NoFile] BY <1>6, <3>1, Parts DEF LoginTypes
    <3>3. \A f \in T!Logins : f # stored[p] /\ f \notin T!ToSet(backups[p])
      BY <3>1 DEF T!ToSet, T!Logins, T!File, T!NoFile
    <3>4. /\ backups' \in [Profiles -> Seq(T!Logins)] /\ \A q \in dirs \ {p} : backups'[q] = backups[q]
          /\ owner' \in [Profiles -> Accounts \cup {Nobody}]
          /\ \A q \in Profiles \ {p} : owner'[q] = owner[q]
      BY <1>1, <2>1, Parts DEF LoginTypes
    <3>5. UNCHANGED <<live, rescues, active, migrated, newest, renewed, excused>> BY <1>1, <2>1
    <3> QED BY <1>6, <3>1, <3>2, <3>3, <3>4, <3>5, PassDone, DirRemoved
  <2>3. CASE ~pass.create
    <3>1. UNCHANGED T!store /\ live' = live BY <1>1, <1>6, <2>3 DEF T!store
    <3> QED BY <1>1, <1>6, <2>1, <3>1, PassDone, JobStops, Parts, LiveMoves
  <2> QED BY <2>2, <2>3
<1> QED BY <1>5, <1>6 DEF T!FileStore, T!FileFails

\* An import that cannot go on leaves its login among the rescues.
LEMMA UndoImportKeeps ==
  ASSUME LoginNames, LoginInv, T!UndoImport, job.op = "import", job.step # "strip",
         UNCHANGED <<live, rescues, active, migrated, newest, renewed, excused, pass>>,
         owner' = owner \/ owner' = [owner EXCEPT ![job.name] = Nobody]
  PROVE  LoginInv'
<1>1. /\ job.name \in dirs /\ job.name # active /\ job.data \in T!ToSet(rescues)
      /\ stored[job.name] \in {T!NoFile, job.data} /\ backups[job.name] = <<job.data>>
  BY Parts DEF ImportOK
<1>2. PICK p \in dirs : p = job.name /\ p \in Profiles BY <1>1, Parts
<1>3. /\ T!Done /\ dirs' = dirs \ {p} /\ stored' = [stored EXCEPT ![p] = T!NoFile]
      /\ backups' = [backups EXCEPT ![p] = << >>]
  BY <1>2 DEF T!UndoImport
<1>4. backups \in [Profiles -> Seq(T!Logins)] /\ owner \in [Profiles -> Accounts \cup {Nobody}]
  BY Parts DEF LoginTypes
<1>5. /\ backups' \in [Profiles -> Seq(T!Logins)] /\ \A q \in dirs \ {p} : backups'[q] = backups[q]
  BY <1>2, <1>3, <1>4, Parts
<1>6. owner' \in [Profiles -> Accounts \cup {Nobody}] /\ \A q \in Profiles \ {p} : owner'[q] = owner[q]
  BY <1>2, <1>4
<1>7. \A f \in T!Logins : f = stored[p] \/ f \in T!ToSet(backups[p]) => f \in T!ToSet(rescues)
  <2>1. T!ToSet(<<job.data>>) = {job.data} BY DEF T!ToSet
  <2>2. T!NoFile \notin T!Logins BY DEF T!NoFile, T!Logins, T!File
  <2> QED BY <1>1, <1>2, <2>1, <2>2
<1>8. PassOK' /\ pass' \in T!Pass BY Parts, PassSame
<1> QED BY <1>1, <1>2, <1>3, <1>5, <1>6, <1>7, <1>8, DirRemoved

LEMMA ImportStoreKeeps ==
  ASSUME LoginNames, LoginInv, T!ImportStore
  PROVE  LoginInv'
<1>1. /\ UNCHANGED <<live, rescues, active, migrated, pass, renewed, newest, excused>>
      /\ job.op = "import" /\ job.step = "store"
  BY DEF T!ImportStore, T!At
<1>2. CASE T!UndoImport /\ UNCHANGED owner BY <1>1, <1>2, UndoImportKeeps
<1>3. CASE /\ T!Goto("point") /\ stored' = [stored EXCEPT ![job.name] = job.data]
           /\ owner' = [owner EXCEPT ![job.name] = job.data.account] /\ UNCHANGED <<dirs, backups>>
  <2>1. /\ job.name \in dirs /\ job.name # active /\ job.data \in T!ToSet(rescues) /\ migrated
        /\ stored[job.name] \in {T!NoFile, job.data} /\ backups[job.name] = <<job.data>>
    BY <1>1, Parts DEF ImportOK
  <2>2. job.data \in T!Logins
    <3>1. rescues \in Seq(T!Logins) BY Parts DEF LoginTypes
    <3> QED BY <2>1, <3>1, InSeq
  <2>3. PICK p \in dirs, x \in T!Logins : p = job.name /\ x = job.data /\ p \in Profiles
    BY <2>1, <2>2, Parts
  <2>4. stored' = [stored EXCEPT ![p] = x] BY <1>3, <2>3
  <2>5. T!IsLogin(x) => Issued(x) BY <2>3, Parts DEF AllIssued
  <2>6. owner \in [Profiles -> Accounts \cup {Nobody}] /\ x.account \in Accounts
    BY Parts DEF LoginTypes, T!Logins, T!File
  <2>7. /\ owner' \in [Profiles -> Accounts \cup {Nobody}]
        /\ \A q \in Profiles \ {p} : owner'[q] = owner[q]
        /\ x.account = owner'[p]
    BY <1>3, <2>3, <2>6
  <2>8. \A f \in T!Logins : f = stored[p] => x = f BY <2>1, <2>3 DEF T!NoFile, T!Logins, T!File
  <2>9. "point" \in StepNames BY DEF StepNames
  <2>10. job' \in T!Job /\ job'.step = "point" /\ job'.op = job.op /\ job'.name = job.name
           /\ job'.data = job.data
    BY <1>3, <2>9, Parts, JobGoes
  <2>11. stored'[p] = x BY <2>3, <2>4, Parts DEF LoginTypes
  <2>12. ImportOK' BY <1>1, <1>3, <2>1, <2>3, <2>10, <2>11 DEF ImportOK
  <2>13. JobsOK' BY <1>1, <2>10, <2>12, OneJobOK
  <2>14. T!IsLogin(job'.data) => Issued(job'.data) BY <2>10, Parts DEF AllIssued
  <2>15. Linked' BY <1>1, <2>1 DEF Linked
  <2>16. PassOK' /\ pass' \in T!Pass BY <1>1, Parts, PassSame
  <2>17. UNCHANGED <<live, dirs, rescues, active, migrated, newest, renewed>>
                     /\ excused \subseteq excused' BY <1>1, <1>3
  <2>18. backups' \in [Profiles -> Seq(T!Logins)]
           /\ \A q \in Profiles : T!ToSet(backups[q]) \subseteq T!ToSet(backups'[q])
    BY <1>3, SameBackups
  <2>19. p \in excused' \/ ~T!IsLogin(x) \/ x.account = owner'[p] BY <2>7
  <2>20. \A f \in T!Logins : f = stored[p] /\ Fresh(f)' /\ "overtaken" \notin excused' => x = f
           \/ live = f \/ Copied(f)'
    BY <2>8
  <2> QED BY <2>4, <2>5, <2>7, <2>10, <2>13, <2>14, <2>15, <2>16, <2>17, <2>18, <2>19, <2>20,
        StoredMoves
<1> QED BY <1>2, <1>3 DEF T!ImportStore

LEMMA ImportPointKeeps ==
  ASSUME LoginNames, LoginInv, T!ImportPoint
  PROVE  LoginInv'
<1>1. /\ UNCHANGED <<live, rescues, migrated, pass, renewed, newest, excused>>
      /\ job.op = "import" /\ job.step = "point"
  BY DEF T!ImportPoint, T!At
<1>2. CASE T!UndoImport /\ owner' = [owner EXCEPT ![job.name] = Nobody] /\ UNCHANGED active
  BY <1>1, <1>2, UndoImportKeeps
<1>3. CASE active' = job.name /\ T!Goto("strip") /\ UNCHANGED <<dirs, stored, backups, owner>>
  <2>1. job.name \in dirs /\ job.data \in T!ToSet(rescues) /\ migrated BY <1>1, Parts DEF ImportOK
  <2>2. "strip" \in StepNames BY DEF StepNames
  <2>3. job' \in T!Job /\ job'.step = "strip" /\ job'.op = job.op /\ job'.name = job.name
          /\ job'.data = job.data
    BY <1>3, <2>2, Parts, JobGoes
  <2>4. ImportOK' BY <1>1, <1>3, <2>1, <2>3 DEF ImportOK
  <2>5. JobsOK' BY <1>1, <2>3, <2>4, OneJobOK
  <2>6. T!IsLogin(job'.data) => Issued(job'.data) BY <2>3, Parts DEF AllIssued
  <2>7. PassOK' /\ pass' \in T!Pass BY <1>1, Parts, PassSame
  <2>8. /\ UNCHANGED <<dirs, stored, backups, rescues, newest, owner, renewed>> /\ live' = live
        /\ migrated' = migrated
        /\ excused \subseteq excused' /\ active' \in dirs
    BY <1>1, <1>3, <2>1
  <2> QED BY <2>1, <2>3, <2>5, <2>6, <2>7, <2>8, PointerMoves
<1> QED BY <1>2, <1>3 DEF T!ImportPoint

\* A renewal replaces the stored login by its successor.
LEMMA RenewKeeps ==
  ASSUME LoginNames, LoginInv, NEW p \in Profiles, T!Renew(p)
  PROVE  LoginInv'
<1>1. /\ UNCHANGED <<live, dirs, backups, rescues, active, migrated, job, pass>> /\ owner' = owner
      /\ excused' = excused
      /\ T!Unlocked /\ migrated /\ ~T!IsLogin(live) /\ T!IsLogin(stored[p]) /\ renewed' = p
      /\ stored[p].gen = newest[stored[p].account] /\ stored[p].gen < MaxGen
      /\ stored' = [stored EXCEPT ![p].gen = @ + 1]
      /\ newest' = [newest EXCEPT ![stored[p].account] = @ + 1]
  BY DEF T!Renew, T!history
<1>2. stored \in [Profiles -> T!Logins \cup {T!NoFile, T!Link}] /\ newest \in [Accounts -> 0..MaxGen]
        /\ MaxGen \in Nat
  BY Parts DEF LoginTypes, LoginNames
<1>3. PICK f \in T!Logins : f = stored[p] BY <1>1, StoredLogin
<1>4. PICK a \in Accounts : a = f.account BY <1>3 DEF T!Logins, T!File
<1>5. f.gen \in 1..MaxGen /\ f = [is |-> "login", account |-> a, gen |-> f.gen]
  BY <1>4 DEF T!Logins, T!File
<1>6. PICK g \in 1..MaxGen : g = f.gen + 1 BY <1>1, <1>2, <1>3, <1>5
<1>7. PICK x \in T!Logins : x = [is |-> "login", account |-> a, gen |-> g] BY DEF T!Logins, T!File
<1>8. stored' = [stored EXCEPT ![p] = x]
  <2>1. x = [f EXCEPT !.gen = @ + 1] BY <1>5, <1>6, <1>7
  <2>2. stored' = [stored EXCEPT ![p] = [f EXCEPT !.gen = @ + 1]] BY <1>1, <1>2, <1>3
  <2> QED BY <2>1, <2>2
<1>9. stored'[p] = x /\ \A q \in Profiles \ {p} : stored'[q] = stored[q] BY <1>2, <1>8
<1>10. /\ newest[a] = f.gen /\ newest'[a] = g /\ \A b \in Accounts \ {a} : newest'[b] = newest[b]
       /\ newest' \in [Accounts -> 0..MaxGen] /\ \A b \in Accounts : newest[b] \in Nat
  BY <1>1, <1>2, <1>3, <1>4, <1>5, <1>6
<1>11. p \in dirs BY <1>1, Parts DEF EmptyOutside, T!IsLogin, T!NoFile
<1>12. ASSUME NEW d \in T!Logins, Issued(d) PROVE d.gen <= newest'[d.account]
  <2>1. d.account \in Accounts /\ d.gen \in Nat BY <1>2 DEF T!Logins, T!File
  <2>2. d.gen <= newest[d.account] BY <1>12 DEF Issued
  <2>3. newest'[a] = newest[a] + 1 BY <1>6, <1>10
  <2> QED BY <1>10, <2>1, <2>2, <2>3
<1>13. LoginTypes'
  <2>1. stored' \in [Profiles -> T!Logins \cup {T!NoFile, T!Link}] BY <1>2, <1>8
  <2> QED BY <1>1, <1>10, <2>1, Parts DEF LoginTypes
<1>14. job' \in T!Job /\ JobsOK' /\ ~T!IsLogin(job'.data) BY <1>1, IdleJob
<1>15. AllIssued'
  <2>1. (T!IsLogin(live) => Issued(live))' BY <1>1
  <2>2. (\A q \in Profiles : T!IsLogin(stored[q]) => Issued(stored[q]))'
    <3> SUFFICES ASSUME NEW q \in Profiles, T!IsLogin(stored'[q]) PROVE Issued(stored[q])'
      OBVIOUS
    <3>1. CASE q = p BY <1>7, <1>9, <1>10, <3>1 DEF Issued
    <3>2. CASE q # p
      <4>1. stored[q] \in T!Logins /\ Issued(stored[q]) BY <1>9, <3>2, StoredLogin
      <4> QED BY <1>9, <1>12, <3>2, <4>1 DEF Issued
    <3> QED BY <3>1, <3>2
  <2>3. (T!IsLogin(job.data) => Issued(job.data))' BY <1>14
  <2> QED BY <2>1, <2>2, <2>3 DEF AllIssued
<1>16. EmptyOutside' BY <1>1, <1>9, <1>11, Parts DEF EmptyOutside
<1>17. PassOK'
  <2>1. T!IsLogin(pass.data) => pass.data \in T!Logins /\ Issued(pass.data)
    BY Parts DEF PassOK, T!IsLogin, T!NoFile
  <2>2. T!IsLogin(pass.data) => pass.data.gen <= newest'[pass.data.account] BY <1>12, <2>1
  <2> QED BY <1>1, <2>2, Parts DEF PassOK, Issued
<1>18. Linked' BY <1>1 DEF Linked
<1>19. T!OwnAccountOnly'
  <2>1. p \notin excused => x.account = owner[p] BY <1>1, <1>3, <1>4, <1>7, Parts DEF T!OwnAccountOnly
  <2> QED BY <1>1, <1>9, <2>1, Parts DEF T!OwnAccountOnly
<1>20. T!LoginKept'
  <2> SUFFICES ASSUME NEW b \in Accounts, b \notin excused, newest'[b] > 0, "overtaken" \notin excused
               PROVE  Kept(T!Newest(b, newest[b]))'
    BY <1>1 DEF T!LoginKept, Kept, Copied, T!Newest
  <2>1. CASE b = a
    <3>1. x = T!Newest(b, newest'[b]) BY <1>7, <1>10, <2>1 DEF T!Newest
    <3>2. Kept(x)' BY <1>1, <1>9, <1>11 DEF Kept
    <3> QED BY <3>1, <3>2 DEF Kept, Copied
  <2>2. CASE b # a
    <3>1. newest'[b] = newest[b] BY <1>10, <2>2
    <3>2. PICK d : d = T!Newest(b, newest[b]) OBVIOUS
    <3>3. Kept(d) BY <3>1, <3>2, Parts DEF T!LoginKept, Kept, Copied, T!Newest
    <3>4. d # stored[p] BY <1>3, <1>4, <2>2, <3>2 DEF T!Newest
    <3>5. Kept(d)' BY <1>1, <1>9, <3>3, <3>4, Parts DEF Kept, Copied
    <3>6. d = T!Newest(b, newest'[b]) BY <3>1, <3>2
    <3> QED BY <3>5, <3>6 DEF Kept, Copied
  <2> QED BY <2>1, <2>2
<1> QED BY <1>13, <1>14, <1>15, <1>16, <1>17, <1>18, <1>19, <1>20 DEF LoginInv

\* The link model and the token-copy model as they are found.
LEMMA InitLogins ==
  ASSUME LoginNames, T!Init
  PROVE  LoginInv
<1>1. PICK p \in Profiles, a \in Accounts, m \in BOOLEAN :
    LET first == [is |-> "login", account |-> a, gen |-> 1]
    IN /\ live = IF m THEN T!CopyOf(first) ELSE first
       /\ dirs = {p}
       /\ stored = [q \in Profiles |-> IF q # p THEN T!NoFile ELSE IF m THEN first ELSE T!Link]
       /\ backups = [q \in Profiles |-> << >>] /\ rescues = << >>
       /\ active = p /\ migrated = m
       /\ job = T!NoJob /\ pass = T!Idle /\ renewed = Nobody
       /\ newest = [b \in Accounts |-> IF b = a THEN 1 ELSE 0]
       /\ accidents = 0 /\ calls = 0
       /\ owner = [q \in Profiles |-> IF q = p THEN a ELSE Nobody] /\ excused = {}
  BY DEF T!Init
<1>0. 1 \in 1..MaxGen BY DEF LoginNames
<1>2. PICK first \in T!Logins : first = [is |-> "login", account |-> a, gen |-> 1]
  BY <1>0 DEF T!Logins, T!File
<1>3. /\ live = IF m THEN T!CopyOf(first) ELSE first
      /\ dirs = {p}
      /\ stored = [q \in Profiles |-> IF q # p THEN T!NoFile ELSE IF m THEN first ELSE T!Link]
      /\ backups = [q \in Profiles |-> << >>] /\ rescues = << >>
      /\ active = p /\ migrated = m
      /\ job = T!NoJob /\ pass = T!Idle /\ renewed = Nobody
      /\ newest = [b \in Accounts |-> IF b = a THEN 1 ELSE 0]
      /\ owner = [q \in Profiles |-> IF q = p THEN a ELSE Nobody] /\ excused = {}
  BY <1>1, <1>2
<1>4. /\ T!IsLogin(first) /\ first.account = a /\ first.gen = 1 /\ ~T!IsLogin(T!NoFile)
      /\ ~T!IsLogin(T!Link) /\ T!Link # T!NoFile
      /\ ~T!IsLogin(T!CopyOf(first)) /\ job.op = "none" /\ job.data = T!NoFile /\ pass.data = T!NoFile
      /\ pass.step = "idle"
      /\ newest[a] = 1 /\ \A b \in Accounts \ {a} : newest[b] = 0
  BY <1>2, <1>3, CopyIsNoLogin DEF T!IsLogin, T!NoFile, T!Link, T!NoJob, T!Idle
<1>5. stored[p] = (IF m THEN first ELSE T!Link) /\ \A q \in Profiles \ {p} : stored[q] = T!NoFile
  BY <1>3
<1>6. LoginTypes
  <2>1. job \in T!Job BY <1>3 DEF T!NoJob, T!Job
  <2>2. pass \in T!Pass BY <1>3 DEF T!Idle, T!Pass
  <2>3. newest \in [Accounts -> 0..MaxGen] BY <1>3 DEF LoginNames
  <2>4. T!IsLogin(live) => live \in T!Logins BY <1>3, <1>4
  <2> QED BY <1>3, <2>1, <2>2, <2>3, <2>4 DEF LoginTypes
<1>7. AllIssued BY <1>3, <1>4, <1>5 DEF AllIssued, Issued
<1>8. EmptyOutside BY <1>3, <1>5 DEF EmptyOutside
<1>9. PassOK BY <1>4 DEF PassOK
<1>10. JobsOK BY <1>4 DEF JobsOK, FileOK, StripOK, SwitchOK, ImportOK, MigrateOK, UnmigrateOK
<1>11. Linked BY <1>3, <1>4, <1>5 DEF Linked
<1>12. T!LoginKept
  <2> SUFFICES ASSUME NEW b \in Accounts, newest[b] > 0 PROVE Kept(T!Newest(b, newest[b]))
    BY DEF T!LoginKept, Kept, Copied, T!Newest
  <2>1. T!Newest(b, newest[b]) = first BY <1>2, <1>4 DEF T!Newest
  <2>2. live = first \/ \E q \in dirs : stored[q] = first BY <1>3, <1>5
  <2> QED BY <2>1, <2>2 DEF Kept
<1>13. T!OwnAccountOnly BY <1>3, <1>4, <1>5 DEF T!OwnAccountOnly
<1> QED BY <1>6, <1>7, <1>8, <1>9, <1>10, <1>11, <1>12, <1>13 DEF LoginInv

\* Every step of Targets, while no copy is dropped for one that is newer.
LEMMA StepKeeps ==
  ASSUME LoginNames, RoomForLogins, LoginInv, [T!Next]_(T!vars)
  PROVE  LoginInv'
<1>1. CASE UNCHANGED T!vars
  <2>1. UNCHANGED <<live, dirs, stored, backups, rescues, active, migrated, job, pass, renewed, newest,
                    owner, excused>>
    BY <1>1 DEF T!vars, T!store, T!history
  <2> QED BY <2>1 DEF LoginInv, LoginTypes, AllIssued, Issued, EmptyOutside, PassOK, JobsOK, FileOK,
        StripOK, SwitchOK,
                      ImportOK, MigrateOK, UnmigrateOK, Linked, Fresh, Copied, T!LoginKept,
                        T!OwnAccountOnly
<1>2. CASE T!PassSteps
  BY <1>2, PassFindsLoginKeeps, PassFindsStaleKeeps, PassDecidesKeeps, FileBeginKeeps,
     PassRechecksKeeps,
     StripLookKeeps, PassFansOutKeeps, PassHealsKeeps DEF T!PassSteps
<1>3. CASE T!JobSteps
  BY <1>3, FileBackUpKeeps, FileStoreKeeps, FilePointKeeps, StripWriteKeeps, SwitchFanKeeps,
     SwitchPointKeeps,
     SwitchClearKeeps, ImportStoreKeeps, ImportPointKeeps, ReplaceLiveKeeps, MigrateBackUpKeeps,
       MigrateUnlinkKeeps,
     MigrateStoreKeeps, MigrateMarkKeeps, RestoreFullKeeps, CatchUpKeeps, UnmigrateMarkKeeps,
       UnmigrateLinkKeeps
  DEF T!JobSteps
<1> QED BY <1>1, <1>2, <1>3, RenewKeeps, RenewFansOutKeeps, SwitchBeginKeeps, AddKeeps,
      ImportBeginKeeps,
           MigrateBeginKeeps, UnmigrateBeginKeeps, EnsureActiveLinkKeeps, LogInKeeps, LogOutKeeps,
             StopKeeps DEF T!Next

\* The component by itself.
LEMMA TargetsKeepLogins ==
  ASSUME LoginNames
  PROVE  T!Spec /\ []RoomForLogins => [](T!LoginKept /\ T!OwnAccountOnly)
<1>1. T!Init => LoginInv BY InitLogins
<1>2. RoomForLogins /\ LoginInv /\ [T!Next]_(T!vars) => LoginInv' BY StepKeeps
<1>3. LoginInv => T!LoginKept /\ T!OwnAccountOnly BY DEF LoginInv
<1> QED BY <1>1, <1>2, <1>3, PTL DEF T!Spec

\* A behaviour of the composition is one of the credential targets.
LEMMA SideIsTargets == SideSpec => T!Spec
<1>1. SideInit => T!Init BY DEF SideInit
<1>2. [SideNext]_sideVars => [T!Next]_(T!vars)
  BY DEF SideNext, Waits, Files, sideVars, loginVars, T!vars, T!store, T!history
<1> QED BY <1>1, <1>2, PTL DEF SideSpec, T!Spec

\* For any profiles and accounts, any number of operations, log-ins, failures and stops:
\* while no rescue and no backup is dropped for one that is newer, no step of the server
\* destroys the last copy of an account's newest login, and no profile gets another
\* account's, but for the races that the properties name (reconcile.go:330,
\* migrate.go:265).
THEOREM LoginsAreKept ==
  ASSUME LoginNames
  PROVE  SideSpec /\ []RoomForLogins => []LoginsKept
<1>1. T!LoginKept /\ T!OwnAccountOnly => LoginsKept BY DEF LoginsKept
<1> QED BY <1>1, TargetsKeepLogins, SideIsTargets, PTL
=============================================================================
