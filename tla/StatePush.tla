------------------------------ MODULE StatePush ------------------------------
(***************************************************************************)
(* The wrapper pushes the activity it reads off the child's output to the    *)
(* bus: at once when the last push is some time ago, else when the interval  *)
(* is over.  Until the child has registered there is no agent to push for.   *)
(* One goroutine reads lines and the timer; when the output is closed it     *)
(* handles what is still in the channel and flushes once.                    *)
(***************************************************************************)
EXTENDS Naturals

CONSTANTS
  States,  \* what a detector may see in a line
  Nothing  \* no state

VARIABLES
  known,     \* has the child registered?
  lastState, \* the state pushed last
  pending,   \* the state to push when the interval is over
  elapsed,   \* is the last push longer ago than the interval?
  timer,     \* is the timer armed?
  output,    \* "open", "closed", or "drained"
  \* What the properties talk about; no step reads these.
  latest,    \* the state seen last
  stuck      \* is the pending state older than a state that was passed over or pushed?

vars == <<known, lastState, pending, elapsed, timer, output, latest, stuck>>

-----------------------------------------------------------------------------
\* A resumed child has its identity from the start.
Init ==
  /\ known \in BOOLEAN /\ elapsed = TRUE /\ timer = FALSE /\ output = "open"
  /\ lastState = Nothing /\ pending = Nothing /\ latest = Nothing /\ stuck = FALSE

Register ==
  /\ ~known /\ output # "drained" /\ known' = TRUE
  /\ UNCHANGED <<lastState, pending, elapsed, timer, output, latest, stuck>>

WindowPasses ==
  /\ ~elapsed /\ elapsed' = TRUE
  /\ UNCHANGED <<known, lastState, pending, timer, output, latest, stuck>>

\* A state equal to the last or to the pending one is passed over; a direct push
\* leaves the pending state where it is.
Observe(s) ==
  /\ output # "drained" /\ latest' = s
  /\ \/ /\ s \in {lastState, pending}
        /\ timer' = (timer \/ pending # Nothing)
        /\ UNCHANGED <<lastState, pending, elapsed>>
     \/ /\ s \notin {lastState, pending} /\ known /\ elapsed
        /\ lastState' = s /\ elapsed' = FALSE
        /\ UNCHANGED <<pending, timer>>
     \/ /\ s \notin {lastState, pending} /\ ~(known /\ elapsed)
        /\ pending' = s /\ timer' = TRUE
        /\ UNCHANGED <<lastState, elapsed>>
  /\ stuck' = (pending' \notin {Nothing, s})
  /\ UNCHANGED <<known, output>>

\* Mutant: without an agent there is nothing left to do.
TimerFiresUnknown ==
  /\ timer /\ output # "drained"
  /\ \/ /\ pending \in {Nothing, lastState} \/ ~known
        /\ pending' = Nothing /\ timer' = FALSE /\ UNCHANGED <<lastState, elapsed>>
     \/ /\ pending \notin {Nothing, lastState} /\ known
        /\ lastState' = pending /\ pending' = Nothing /\ elapsed' = FALSE /\ timer' = FALSE
  /\ UNCHANGED <<known, output, latest, stuck>>

\* Flush, and the next delay: without an agent the pending state waits on.
TimerFires ==
  /\ timer /\ output # "drained"
  /\ \/ /\ pending \in {Nothing, lastState}
        /\ pending' = Nothing /\ timer' = FALSE /\ UNCHANGED <<lastState, elapsed>>
     \/ /\ pending \notin {Nothing, lastState} /\ ~known
        /\ elapsed' = FALSE /\ UNCHANGED <<lastState, pending, timer>>
     \/ /\ pending \notin {Nothing, lastState} /\ known
        /\ lastState' = pending /\ pending' = Nothing /\ elapsed' = FALSE /\ timer' = FALSE
  /\ UNCHANGED <<known, output, latest, stuck>>

Close ==
  /\ output = "open" /\ output' = "closed"
  /\ UNCHANGED <<known, lastState, pending, elapsed, timer, latest, stuck>>

\* The last flush.
Drain ==
  /\ output = "closed" /\ output' = "drained"
  /\ IF known /\ pending # Nothing THEN lastState' = pending ELSE UNCHANGED lastState
  /\ pending' = IF known THEN Nothing ELSE pending
  /\ timer' = FALSE
  /\ UNCHANGED <<known, elapsed, latest, stuck>>

Next ==
  \/ Register \/ WindowPasses \/ TimerFires \/ Close \/ Drain
  \/ \E s \in States : Observe(s)

Spec == Init /\ [][Next]_vars

-----------------------------------------------------------------------------
\* What was seen last is what the bus was told, or is on its way to it: the timer is
\* armed and, once the output has ended and was handled, nothing is left.  Not so when
\* an older state was pending while the latest equalled the one pushed before, or was
\* pushed directly.
LatestOnItsWay ==
  latest # Nothing /\ ~stuck =>
    \/ latest = lastState /\ pending \in {Nothing, latest}
    \/ latest = pending /\ IF output = "drained" THEN ~known ELSE timer

=============================================================================
