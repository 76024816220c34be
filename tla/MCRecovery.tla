----------------------------- MODULE MCRecovery ----------------------------
(***************************************************************************)
(* What goes on after something died: the token refresher over stops of    *)
(* the server, and the wrapper over ends of its child.  mode says whose    *)
(* steps a behaviour takes; the variables of the other keep their first    *)
(* values.                                                                 *)
(***************************************************************************)
EXTENDS MCTokenRefresh

CONSTANT Cap  \* AgentWrapper

VARIABLES
  mode,
  harness, given, id, up, registered, at, child, name, seen, nested, attempt, counted, retries,
  signals, asked, deletion, streak, swallowed, excused

wrapperVars == <<harness, given, id, up, registered, at, child, name, seen, nested, attempt,
                 counted, retries, signals, asked, deletion, streak, swallowed, excused>>
recoveryVars == <<mode, vars, wrapperVars>>

W == INSTANCE AgentWrapper

\* The first values of the wrapper that has no steps are any of them.
RecoveryInit ==
  /\ mode \in {"refresher", "wrapper"}
  /\ Init /\ W!Init
  /\ mode # "wrapper" => harness = "pi" /\ given = FALSE /\ at = "bootstrap"

Refreshes(A) == mode = "refresher" /\ A /\ UNCHANGED <<mode, wrapperVars>>
Wraps(A) == mode = "wrapper" /\ A /\ UNCHANGED <<mode, vars>>

RecoveryNext == Refreshes(Next) \/ Wraps(W!Next)

\* The fairness of both, each where its steps are taken.
RecoveryFairness ==
  /\ \A j \in Jobs : WF_recoveryVars(Refreshes(Step(j)))
  /\ WF_recoveryVars(Refreshes(Bootstrap))
  /\ \A p \in Profiles :
       WF_recoveryVars(Refreshes(Recover(p))) /\ SF_recoveryVars(Refreshes(Due(p)))
  /\ WF_recoveryVars(Wraps(W!Wrapper)) /\ SF_recoveryVars(Wraps(W!Interrupt))

RecoverySpec == RecoveryInit /\ [][RecoveryNext]_recoveryVars /\ RecoveryFairness

-----------------------------------------------------------------------------
\* RotationLands of TokenRefresh, where its steps are taken (the last token has no
\* successor).
RotationsLand ==
  \A t \in Tokens \ {MaxToken} :
    []<>(mode = "refresher" /\ t \in delivered => Holders(t) = {} \/ t \in state.verdicts)

\* What AgentWrapper says of the end of a wrapper (agent.go:1824): an interrupt leaves
\* no agent behind on the bus, and does end the wrapper.
NoGhostLeft == W!NoGhostLeft
InterruptEnds == W!InterruptEnds
=============================================================================
