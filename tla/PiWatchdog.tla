------------------------------ MODULE PiWatchdog ------------------------------
(***************************************************************************)
(* The progress watchdog of a pi child.  It reads turn and tool events off   *)
(* the child's output, keeps the times that matter, and a goroutine sleeps   *)
(* until the nearest deadline they give, is woken by every output, and       *)
(* reports a stall when a deadline has passed.                               *)
(*                                                                         *)
(* Times are ages in ticks.  A tick passes only when the goroutine has       *)
(* nothing to do: timers fire on time.                                       *)
(***************************************************************************)
EXTENDS Integers

CONSTANTS
  IdleTimeout, ForwardTimeout, TurnEndGrace, \* budgets, in ticks
  BusWaits,                                  \* timeouts of bus_wait calls, grace included
  MaxTools                                   \* bound: tools in flight

VARIABLES
  inTurn, tools, waits,
  lastOutput, lastProgress, turnEnded, \* ages; Never before the first event
  busWaitLeft,  \* until the deadline of the bus_waits in flight
  timer,        \* until the goroutine's timer fires
  wake,         \* is there a wake-up for it?
  stalled,      \* the stall it reported, "" for none
  \* What the properties talk about; no step reads these.
  working       \* time since the last progress in which no tool ran

snapshot == <<inTurn, tools, waits, lastOutput, lastProgress, turnEnded, busWaitLeft>>
vars == <<snapshot, timer, wake, stalled, working>>

-----------------------------------------------------------------------------
Never == 0 - 1
Far == 99           \* no deadline
Least(a, b) == IF a <= b THEN a ELSE b
Most(a, b) == IF a >= b THEN a ELSE b

Init ==
  /\ inTurn = FALSE /\ tools = 0 /\ waits = 0
  /\ lastOutput = Never /\ lastProgress = Never /\ turnEnded = Never /\ busWaitLeft = Far
  /\ timer = Far /\ wake = TRUE /\ stalled = "" /\ working = 0

\* Mutant: a wake-up only for output without an event.
PrintedAsleep == stalled = "" /\ lastOutput' = 0 /\ UNCHANGED <<timer, wake, stalled>>

Printed == stalled = "" /\ lastOutput' = 0 /\ wake' = TRUE /\ UNCHANGED <<timer, stalled>>

Output ==
  /\ Printed
  /\ UNCHANGED <<inTurn, tools, waits, lastProgress, turnEnded, busWaitLeft, working>>

NoTools == tools' = 0 /\ waits' = 0 /\ busWaitLeft' = Far

\* A turn continues the budget of the one before.
TurnStart ==
  /\ Printed /\ ~inTurn
  /\ lastProgress' = IF lastProgress = Never THEN 0 ELSE lastProgress
  /\ inTurn' = TRUE /\ NoTools /\ turnEnded' = Never
  /\ UNCHANGED working

\* A bus_wait has a timeout, other tools run as long as they run.
ToolExecutionStart(timeout) ==
  /\ Printed /\ tools < MaxTools
  /\ inTurn' = TRUE /\ turnEnded' = Never
  /\ tools' = tools + 1 /\ lastProgress' = 0 /\ working' = 0
  /\ IF timeout = Far
     THEN UNCHANGED <<waits, busWaitLeft>>
     ELSE /\ waits' = waits + 1
          /\ busWaitLeft' = IF busWaitLeft = Far THEN timeout ELSE Most(busWaitLeft, timeout)

\* The end of a tool is no progress.
ToolExecutionEnd(isBusWait) ==
  /\ Printed /\ IF isBusWait THEN waits > 0 ELSE tools > waits
  /\ tools' = tools - 1
  /\ waits' = IF isBusWait THEN waits - 1 ELSE waits
  /\ busWaitLeft' = IF isBusWait /\ waits' = 0 THEN Far ELSE busWaitLeft
  /\ UNCHANGED <<inTurn, lastProgress, turnEnded, working>>

TurnEnd ==
  /\ Printed /\ inTurn
  /\ inTurn' = FALSE /\ NoTools /\ lastProgress' = 0 /\ turnEnded' = 0 /\ working' = 0

-----------------------------------------------------------------------------
\* How long until the next stall, and which it would be.
Deadline ==
  IF tools > 0 THEN IF tools = waits THEN busWaitLeft ELSE Far
  ELSE IF ~inTurn THEN IF turnEnded = Never THEN Far ELSE TurnEndGrace - turnEnded
  ELSE Least(ForwardTimeout - lastProgress, IdleTimeout - lastOutput)

Reason ==
  IF tools > 0 THEN "bus_wait"
  ELSE IF ~inTurn THEN "turn_end"
  ELSE IF ForwardTimeout - lastProgress < IdleTimeout - lastOutput THEN "forward" ELSE "idle"

\* Mutant: a timer that is armed stays as it is.
RunKeepsTimer ==
  /\ stalled = "" /\ (wake \/ timer <= 0)
  /\ IF Deadline <= 0
     THEN stalled' = Reason /\ UNCHANGED <<timer, wake>>
     ELSE /\ timer' = IF timer \in 1..98 THEN timer ELSE Deadline
          /\ wake' = FALSE /\ UNCHANGED stalled
  /\ UNCHANGED <<snapshot, working>>

Run ==
  /\ stalled = "" /\ (wake \/ timer <= 0)
  /\ IF Deadline <= 0
     THEN stalled' = Reason /\ UNCHANGED <<timer, wake>>
     ELSE timer' = Deadline /\ wake' = FALSE /\ UNCHANGED stalled
  /\ UNCHANGED <<snapshot, working>>

Older(age, cap) == IF age = Never THEN Never ELSE Least(age + 1, cap)
Nearer(left) == IF left = Far THEN Far ELSE Most(left - 1, 0 - 1)

Tick ==
  /\ stalled = "" /\ ~wake /\ timer > 0
  /\ lastOutput' = Older(lastOutput, IdleTimeout + 1)
  /\ lastProgress' = Older(lastProgress, ForwardTimeout + 1)
  /\ turnEnded' = Older(turnEnded, TurnEndGrace + 1)
  /\ busWaitLeft' = Nearer(busWaitLeft)
  /\ timer' = Nearer(timer)
  /\ working' = IF tools > 0 \/ lastProgress = Never THEN working ELSE Least(working + 1, ForwardTimeout)
  /\ UNCHANGED <<inTurn, tools, waits, wake, stalled>>

Next ==
  \/ Output \/ TurnStart \/ TurnEnd \/ Run \/ Tick
  \/ \E t \in BusWaits \cup {Far} : ToolExecutionStart(t)
  \/ \E b \in BOOLEAN : ToolExecutionEnd(b)

Spec == Init /\ [][Next]_vars

-----------------------------------------------------------------------------
\* A child that goes silent or makes no progress in a turn, does not go on after one, or
\* sits in bus_waits for too long is noticed when its time is up and not later,
\* whatever it did before.  (A child that never starts a turn has no deadline.)
StallsNoticed ==
  stalled = "" /\ ~wake =>
    /\ inTurn /\ tools = 0 => lastOutput <= IdleTimeout /\ lastProgress <= ForwardTimeout
    /\ ~inTurn => turnEnded <= TurnEndGrace
    /\ tools > 0 /\ tools = waits => busWaitLeft >= 0

\* "Tools suspend both budgets while they run" (docs/pi.md:258): a child is stopped
\* for lack of progress only after it made none for that long outside its tools.
ToolsSuspendBudgets ==
  [][stalled' = "forward" => stalled = "forward" \/ working >= ForwardTimeout]_vars
=============================================================================
