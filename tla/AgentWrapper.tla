----------------------------- MODULE AgentWrapper -----------------------------
(***************************************************************************)
(* "aimebu agent": a process that keeps one harness child running under one  *)
(* agent identity.  It bootstraps the child and waits until the child has    *)
(* registered on the bus; then it resumes the session again and again, each  *)
(* time after asking the server whether the agent is still there.  What goes *)
(* wrong is counted per class, and a class that repeats too often ends the   *)
(* wrapper.  An interrupt deregisters the agent and stops the child.         *)
(*                                                                         *)
(* The child, the server and the user act on their own: the child registers  *)
(* or ends at any time, the server goes down, comes back and forgets the     *)
(* agent, the user sends signals, which wait in a channel of two.            *)
(***************************************************************************)
EXTENDS Integers

CONSTANT Cap  \* agentRecoveryFailureCap

VARIABLES
  harness,    \* which harness is wrapped
  given,      \* was a name given on the command line?
  id,         \* the agent id the bus gives the child
  up,         \* is the server reachable?
  registered, \* the agent id the server knows for this wrapper, "" for none
  at,         \* where the wrapper is
  child,      \* "none", "running", or how it ended
  name,       \* the agent id the wrapper knows, "" for none
  seen,       \* the id the registration watcher saw
  nested,     \* is this bootstrap a recovery inside the resume loop?
  attempt,    \* which bootstrap attempt this is
  counted,    \* [class, n]: lastFailure, consecutiveFailureCount
  retries,    \* exit errors since the last clean end
  signals,    \* signals in the channel
  asked,      \* id whose deletion the shutdown asked for
  deletion,   \* what became of it, "" before a shutdown
  \* What the properties talk about; no step reads these.
  streak,     \* [class, n]: the same thing went wrong n times in a row
  swallowed,  \* has the stop of a stalled child used up the last signal?
  excused     \* may the shutdown leave the agent behind?

server == <<up, registered>>
book == <<counted, retries, streak>>
shut == <<asked, deletion, excused>>
vars == <<harness, given, id, server, at, child, name, seen, nested, attempt, book,
          signals, swallowed, shut>>

-----------------------------------------------------------------------------
Nobody == ""
Asked == "mine"           \* the name on the command line, as a full id
Ids == {Asked, "other"}   \* a name that is taken is refused, another given
Ends == {"clean", "error", "unreachable", "lost", "thread", "turn"}
\* The watchdog of pi tells kinds of stalls apart, two of them here.
Stalls == IF harness = "pi" THEN {"pi_idle_stalled", "pi_bus_wait_stalled"} ELSE {"resume_stalled"}
None == [class |-> "none", n |-> 0]
Running == child = "running"
Bootstrapping == at = "bootstrap"
\* The bootstrap is not over: also while its child is stopped.
Boot == name = Nobody \/ nested
Stopping == at \in {"stop_stalled", "shutdown"}

\* Bootstrap, or the resumption of a saved session, whose name is known.
Init ==
  /\ harness \in {"claude-code", "codex", "pi"} /\ given \in BOOLEAN
  /\ id \in Ids /\ (~given => id # Asked)
  /\ up = TRUE /\ registered = Nobody /\ seen = Nobody
  /\ \/ at = "bootstrap" /\ child = "running" /\ name = Nobody
     \/ at = "preflight" /\ child = "none" /\ name = id
  /\ nested = FALSE /\ attempt = 1 /\ counted = None /\ retries = 0 /\ streak = None
  /\ signals = 0 /\ swallowed = FALSE
  /\ asked = Nobody /\ deletion = "" /\ excused = FALSE

-----------------------------------------------------------------------------
(* The world. *)

\* The child calls bus_register; its spawn tag, or the name it is told to claim,
\* gives it the identity it had.
Register ==
  /\ Running /\ up /\ registered = Nobody
  /\ registered' = id
  /\ excused' = \/ excused
                \/ deletion = "done" /\ asked = id
                \/ deletion = "failed" /\ ~Boot
  /\ UNCHANGED <<harness, given, id, up, at, child, name, seen, nested, attempt, book,
                 signals, swallowed, asked, deletion>>

ServerChanges ==
  /\ at # "down"
  /\ up' = ~up
  /\ registered' \in (IF up' THEN {registered, Nobody} ELSE {registered})
  /\ excused' = (excused \/ at = "shutdown")
  /\ UNCHANGED <<harness, given, id, at, child, name, seen, nested, attempt, book,
                 signals, swallowed, asked, deletion>>

\* The registration watcher of a bootstrap.
WatchRegistration ==
  /\ Bootstrapping /\ up /\ seen = Nobody /\ registered # Nobody
  /\ seen' = registered
  /\ UNCHANGED <<harness, given, id, server, at, child, name, nested, attempt, book,
                 signals, swallowed, shut>>

ChildEnds(how) ==
  /\ Running
  /\ how = "thread" => harness = "codex"
  /\ how = "turn" => harness = "pi"
  /\ child' = how
  /\ UNCHANGED <<harness, given, id, server, at, name, seen, nested, attempt, book, signals,
                 swallowed, shut>>

Signal ==
  /\ at # "down" /\ signals < 2
  /\ signals' = signals + 1
  /\ UNCHANGED <<harness, given, id, server, at, child, name, seen, nested, attempt, book,
                 swallowed, shut>>

-----------------------------------------------------------------------------
(* The books. *)

AdvanceFailure(class) ==
  [class |-> class, n |-> IF counted.class = class THEN counted.n + 1 ELSE 1]

Happened(class) ==
  streak' = [class |-> class, n |-> IF streak.class = class THEN streak.n + 1 ELSE 1]

\* A failure of a class is counted; one too many and the wrapper exits.
Fail(class, next) ==
  /\ counted' = AdvanceFailure(class) /\ Happened(class)
  /\ at' = IF counted'.n > Cap THEN "down" ELSE next

Spawn == child' = "running"

-----------------------------------------------------------------------------
(* Bootstrap. *)

\* The id the watcher saw, or a look-up by spawn tag.
Found == IF seen # Nobody THEN seen ELSE IF up THEN registered ELSE Nobody

Bootstrapped(who) ==
  /\ name' = who /\ at' = "preflight" /\ child' = "none" /\ nested' = FALSE /\ seen' = Nobody
  /\ retries' = IF nested THEN 0 ELSE retries
  /\ UNCHANGED <<attempt, counted, streak>>

\* Again, with a new child; the look-up found no agent.
BootstrapAgain ==
  /\ Spawn /\ attempt' = attempt + 1 /\ seen' = Nobody
  /\ UNCHANGED <<at, name, nested, book>>

\* A failed recovery goes on in the resume loop; a failed start ends the wrapper.
BootstrapFails ==
  /\ at' = IF nested THEN "preflight" ELSE "down"
  /\ child' = "none" /\ nested' = FALSE /\ seen' = Nobody
  /\ UNCHANGED <<name, attempt, book>>

\* A child of pi whose turn timed out before it registered is started again once.
AgainAtOnce == child = "turn" /\ Found = Nobody /\ attempt = 1

\* The child ended: cleanly with a session id and registered, or not (what it
\* printed is not classified here, but for a turn that timed out).
BootstrapSession ==
  /\ Bootstrapping /\ child \in Ends
  /\ \/ child # "error" /\ Found # Nobody /\ Bootstrapped(Found)
     \/ AgainAtOnce /\ BootstrapAgain
     \/ ~AgainAtOnce /\ BootstrapFails
  /\ UNCHANGED <<harness, given, id, server, signals, swallowed, shut>>

\* The watchdog of pi fired: the child is stopped first.
BootstrapStalls ==
  /\ Bootstrapping /\ Running /\ harness = "pi"
  /\ seen' = Found
  /\ at' = "stop_stalled"
  /\ UNCHANGED <<harness, given, id, server, child, name, nested, attempt, book, signals,
                 swallowed, shut>>

BootstrapStalled ==
  /\ at = "stop_stalled" /\ ~Running /\ Boot
  /\ \/ seen # Nobody /\ Bootstrapped(seen)
     \/ /\ attempt <= Cap /\ Spawn /\ attempt' = attempt + 1 /\ seen' = Nobody /\ at' = "bootstrap"
        /\ UNCHANGED <<name, nested, book>>
     \/ attempt > Cap /\ BootstrapFails
  /\ UNCHANGED <<harness, given, id, server, signals, swallowed, shut>>

-----------------------------------------------------------------------------
(* The resume loop. *)

\* Is the server there, and the agent?  A lost registration changes the prompt only.
\* A child that cannot be started ends the wrapper.
Preflight ==
  /\ at = "preflight"
  /\ IF ~up
     THEN Fail("unreachable", "preflight") /\ UNCHANGED child
     ELSE /\ UNCHANGED <<counted, streak>>
          /\ \/ at' = "resume" /\ Spawn
             \/ at' = "down" /\ UNCHANGED child
  /\ UNCHANGED <<harness, given, id, server, name, seen, nested, attempt, retries, signals, swallowed,
                 shut>>

\* No output before the timeout, or the watchdog of pi.
WaitResumeChildStalls ==
  /\ at = "resume" /\ Running
  /\ at' = "stop_stalled"
  /\ UNCHANGED <<harness, given, id, server, child, name, seen, nested, attempt, book,
                 signals, swallowed, shut>>

ResumeStalled ==
  /\ at = "stop_stalled" /\ ~Running /\ ~Boot
  /\ \E class \in Stalls : Fail(class, "preflight")
  /\ child' = "none"
  /\ UNCHANGED <<harness, given, id, server, name, seen, nested, attempt, retries, signals,
                 swallowed, shut>>

\* A missing codex thread is bootstrapped anew.
ResumeFailed ==
  /\ at = "resume" /\ child \in {"unreachable", "lost", "turn", "thread"}
  /\ Fail(child, IF child = "thread" THEN "bootstrap" ELSE "preflight")
  /\ IF at' = "bootstrap"
     THEN Spawn /\ nested' = TRUE /\ attempt' = 1 /\ seen' = Nobody
     ELSE child' = "none" /\ UNCHANGED <<nested, attempt, seen>>
  /\ UNCHANGED <<harness, given, id, server, name, retries, signals, swallowed, shut>>

ResumeEnded ==
  /\ at = "resume" /\ child = "clean"
  /\ retries' = 0 /\ counted' = None /\ streak' = None
  /\ at' = "preflight" /\ child' = "none"
  /\ UNCHANGED <<harness, given, id, server, name, seen, nested, attempt, signals, swallowed,
                 shut>>

ResumeExitError ==
  /\ at = "resume" /\ child = "error"
  /\ retries' = retries + 1 /\ Happened("error") /\ UNCHANGED counted
  /\ at' = IF retries' > Cap THEN "down" ELSE "preflight"
  /\ child' = "none"
  /\ UNCHANGED <<harness, given, id, server, name, seen, nested, attempt, signals, swallowed,
                 shut>>

-----------------------------------------------------------------------------
(* Stopping. *)

\* TERM, then KILL after a grace time or with the next signal, whichever is first.
StopChild ==
  /\ Stopping /\ Running
  /\ child' = "none"
  /\ \/ UNCHANGED <<signals, swallowed>>
     \/ /\ signals > 0 /\ signals' = signals - 1
        /\ swallowed' = (swallowed \/ (at = "stop_stalled" /\ signals' = 0))
  /\ UNCHANGED <<harness, given, id, server, at, name, seen, nested, attempt, book, shut>>

\* Mutant: a resumed child is waited for without looking at the signals.
InterruptBootstrap ==
  /\ Bootstrapping /\ signals > 0
  /\ signals' = signals - 1
  /\ at' = "shutdown"
  /\ asked' = IF name # Nobody THEN name ELSE IF given THEN Asked ELSE Found
  /\ deletion' = IF asked' = Nobody THEN "none" ELSE "sent"
  /\ excused' = ~up
  /\ UNCHANGED <<harness, given, id, server, child, name, seen, nested, attempt, book,
                 swallowed>>

\* The agent to delete: the name given or known, or the one the bootstrap registered.
Interrupt ==
  /\ at \in {"bootstrap", "resume"} /\ signals > 0
  /\ signals' = signals - 1
  /\ at' = "shutdown"
  /\ asked' = IF name # Nobody THEN name ELSE IF given THEN Asked ELSE Found
  /\ deletion' = IF asked' = Nobody THEN "none" ELSE "sent"
  /\ excused' = ~up
  /\ UNCHANGED <<harness, given, id, server, child, name, seen, nested, attempt, book,
                 swallowed>>

\* DELETE of an agent the server does not know is an error.
DeleteRegistration ==
  /\ at = "shutdown" /\ deletion = "sent" /\ up
  /\ IF registered = asked
     THEN registered' = Nobody /\ deletion' = "done"
     ELSE deletion' = "failed" /\ UNCHANGED registered
  /\ UNCHANGED <<harness, given, id, up, at, child, name, seen, nested, attempt, book,
                 signals, swallowed, asked, excused>>

DeleteUnreachable ==
  /\ at = "shutdown" /\ deletion = "sent" /\ ~up
  /\ deletion' = "failed"
  /\ UNCHANGED <<harness, given, id, server, at, child, name, seen, nested, attempt, book,
                 signals, swallowed, asked, excused>>

DeleteTimesOut ==
  /\ at = "shutdown" /\ deletion = "sent" /\ ~Running
  /\ deletion' = "late" /\ excused' = TRUE
  /\ UNCHANGED <<harness, given, id, server, at, child, name, seen, nested, attempt, book,
                 signals, swallowed, asked>>

\* Mutant: no second look.
ShutdownOnce ==
  /\ at = "shutdown" /\ ~Running /\ deletion # "sent"
  /\ at' = "down" /\ child' = "none"
  /\ UNCHANGED <<harness, given, id, server, name, seen, nested, attempt, book, signals,
                 swallowed, shut>>

\* A bootstrap looks the spawn tag up once more and deletes what it finds.
GracefulShutdown ==
  LET again == /\ Boot
               /\ up /\ registered # Nobody
               /\ registered # asked \/ deletion = "failed" IN
  /\ at = "shutdown" /\ ~Running /\ deletion # "sent"
  /\ registered' = IF again THEN Nobody ELSE registered
  /\ at' = "down" /\ child' = "none"
  /\ UNCHANGED <<harness, given, id, up, name, seen, nested, attempt, book, signals,
                 swallowed, shut>>

-----------------------------------------------------------------------------
Wrapper ==
  \/ BootstrapSession \/ BootstrapStalled
  \/ Preflight \/ ResumeStalled \/ ResumeFailed \/ ResumeEnded \/ ResumeExitError
  \/ StopChild \/ DeleteRegistration \/ DeleteUnreachable \/ GracefulShutdown

Next ==
  \/ Register \/ ServerChanges \/ WatchRegistration \/ Signal
  \/ \E how \in Ends : ChildEnds(how)
  \/ BootstrapStalls \/ WaitResumeChildStalls \/ DeleteTimesOut
  \/ Wrapper \/ Interrupt

Spec == Init /\ [][Next]_vars

\* The wrapper runs on; a select that finds a signal again and again beside other
\* events takes it at some point.
Fair == WF_vars(Wrapper) /\ SF_vars(Interrupt)

-----------------------------------------------------------------------------

\* An interrupt leaves no agent behind that nobody answers for, unless the server
\* was away, did not answer in time, or the child, while it was being stopped,
\* registered again what had just been deleted, or in a resumed session.
NoGhostLeft == at = "down" /\ deletion # "" => registered = Nobody \/ excused

\* "On Ctrl-C / SIGTERM, the wrapper ... deregisters the agent ... and terminates the
\* live harness child" (README.md:284): a signal ends the wrapper, unless it was used
\* up to hasten the stop of a stalled child.
InterruptEnds == signals > 0 ~> at = "down" \/ swallowed
=============================================================================
