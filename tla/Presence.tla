------------------------------- MODULE Presence -------------------------------
(***************************************************************************)
(* Is an AI agent there?  The server knows three things of it: when it was   *)
(* last seen, which long polls and sockets it holds open, and the activity   *)
(* state its wrapper pushes.  A sweep turns them into stale and offline      *)
(* states and tells the agent's rooms when it went and when it came back;    *)
(* the handlers of long polls tell the web interface, after the bookkeeping  *)
(* and outside its lock, which rooms the agent listens to.                   *)
(*                                                                         *)
(* Agents do not interact here: the module is about one of them.  Time is    *)
(* the age of its last sign of life, in the windows of the settings.         *)
(***************************************************************************)
EXTENDS Integers, FiniteSets

CONSTANTS
  Requests,  \* goroutines that serve a request or a socket of the agent
  Scopes,    \* rooms the agent is in, and Anywhere
  Anywhere   \* the scope of an agent-wide wait

VARIABLES
  known,     \* is the agent registered?
  state,     \* its state, pushed or derived
  pending,   \* the pushed state kept for the reconnect, "" for none
  age,       \* how long ago it was seen: see Ages
  openWaits, \* scope -> long polls open
  openWS,    \* sockets open
  serving,   \* request -> where its handler is
  sweep,     \* the liveness sweep
  shown,     \* scope -> does the interface show the agent as listening?
  prompt,    \* is the sweep interval shorter than the stale window?
  swept,     \* has the sweep run in this stretch of time?
  \* What the properties talk about; no step reads these.
  told,      \* what the rooms were last told of this incarnation: "here" or "gone"
  stirred,   \* has the agent shown itself since they were told it is gone?
  late,      \* requests whose broadcast is older than a wait that began or ended since
  crossed,   \* scopes whose last broadcast was late
  wide       \* rooms last shown by a fetch that counted an agent-wide wait

agent == <<known, state, pending, age>>
open == <<openWaits, openWS>>
history == <<told, stirred, late, crossed, wide>>
vars == <<agent, open, serving, sweep, shown, prompt, swept, history>>

-----------------------------------------------------------------------------
Fresh == 0
Stale == 1
Offline == 2
Forgotten == 3
Ages == Fresh..Forgotten
Activity == {"thinking", "tool_call"}
Lifecycle == {"respawning", "idle", "stopped"}
Idle == [pc |-> "idle"]
SweepIdle == [pc |-> "idle", active |-> FALSE]
Go(r, next) == serving' = [serving EXCEPT ![r] = next]
At(r, pc) == serving[r].pc = pc
\* Mutant: only agent-wide waits and sockets count.
ActiveAnywhere == openWS > 0 \/ openWaits[Anywhere] > 0
Active == openWS > 0 \/ \E s \in Scopes : openWaits[s] > 0

\* Has the request a broadcast of the scope to send, its value decided?
Telling(r, s) == serving[r].pc \in {"enter", "left", "tell", "view"} /\ serving[r].scope = s

Init ==
  /\ known = TRUE /\ state = "idle" /\ pending = "" /\ age = Fresh
  /\ openWaits = [s \in Scopes |-> 0] /\ openWS = 0
  /\ serving = [r \in Requests |-> Idle] /\ sweep = SweepIdle
  /\ shown = [s \in Scopes |-> FALSE]
  /\ prompt \in BOOLEAN /\ swept = FALSE
  /\ told = "here" /\ stirred = FALSE /\ late = {} /\ crossed = {} /\ wide = {}

TouchAgent ==
  /\ age' = IF known THEN Fresh ELSE age
  /\ swept' = (swept /\ ~known) /\ stirred' = (stirred \/ known)

-----------------------------------------------------------------------------
(* Signs of life. *)

\* A request that only touches the agent, the heartbeats of MCP shim and socket.
Heartbeat ==
  /\ known /\ TouchAgent
  /\ UNCHANGED <<known, state, pending, open, serving, sweep, shown, prompt, told, late, crossed, wide>>

\* Mutant: a pushed state brings an offline agent back at once.
SetAgentStateAtOnce(r, s) ==
  /\ At(r, "idle") /\ known
  /\ state' = s /\ UNCHANGED pending
  /\ Go(r, IF s \in Activity THEN [pc |-> "touch"] ELSE Idle)
  /\ UNCHANGED <<known, age, open, sweep, shown, prompt, swept, history>>

\* A state pushed by the wrapper: an offline agent stays offline for the sweep to
\* bring back, and only activity makes it remember what is pushed.
SetAgentState(r, s) ==
  /\ At(r, "idle") /\ known
  /\ IF state = "offline"
     THEN /\ pending' = IF s \in Activity \/ pending # "" THEN s ELSE pending
          /\ UNCHANGED state
     ELSE state' = s /\ UNCHANGED pending
  /\ Go(r, IF s \in Activity THEN [pc |-> "touch"] ELSE Idle)
  /\ UNCHANGED <<known, age, open, sweep, shown, prompt, swept, history>>

Touch(r) ==
  /\ At(r, "touch") /\ TouchAgent
  /\ Go(r, Idle)
  /\ UNCHANGED <<known, state, pending, open, sweep, shown, prompt, told, late, crossed, wide>>

\* A new name, or a reclaimed one that keeps its record.
Register ==
  /\ known' = TRUE /\ age' = Fresh /\ swept' = FALSE /\ stirred' = TRUE
  /\ IF known THEN UNCHANGED <<state, pending, told>>
     ELSE state' = "" /\ pending' = "" /\ told' = "here"
  /\ UNCHANGED <<open, serving, sweep, shown, prompt, late, crossed, wide>>

Deregister ==
  /\ known /\ known' = FALSE /\ state' = "" /\ pending' = "" /\ told' = "here"
  /\ UNCHANGED <<age, open, serving, sweep, shown, prompt, swept, stirred, late, crossed, wide>>

-----------------------------------------------------------------------------
(* Long polls. *)

Wait(r, s) ==
  /\ At(r, "idle") /\ TouchAgent
  /\ Go(r, [pc |-> "open", scope |-> s])
  /\ UNCHANGED <<known, state, pending, open, sweep, shown, prompt, told, late, crossed, wide>>

\* The counter moves under waitMu; the broadcasts still to come are then late.
Count(s, n) ==
  /\ openWaits' = [openWaits EXCEPT ![s] = @ + n]
  /\ late' = late \cup {r \in Requests : Telling(r, s) \/ At(r, "view")}

EnterWait(r) ==
  /\ At(r, "open") /\ Count(serving[r].scope, 1)
  /\ Go(r, [serving[r] EXCEPT !.pc = "enter"])
  /\ UNCHANGED <<agent, openWS, sweep, shown, prompt, swept, told, stirred, crossed, wide>>

\* The interface sets the scope's bucket to what it is told.
Show(r, waiting) ==
  LET s == serving[r].scope IN
  /\ shown' = [shown EXCEPT ![s] = waiting]
  /\ late' = late \ {r} /\ crossed' = IF r \in late THEN crossed \cup {s} ELSE crossed \ {s}
  /\ UNCHANGED <<agent, open, sweep, prompt, swept, told, stirred>>

BroadcastPresence(r, waiting) ==
  Show(r, waiting) /\ wide' = wide \ {serving[r].scope}

Entered(r) ==
  /\ At(r, "enter") /\ BroadcastPresence(r, TRUE)
  /\ Go(r, [serving[r] EXCEPT !.pc = "waiting"])

\* A message or the timeout touches the agent; a client that went away does not.
Woken(r) ==
  /\ At(r, "waiting") /\ TouchAgent
  /\ Go(r, [serving[r] EXCEPT !.pc = "leave"])
  /\ UNCHANGED <<known, state, pending, open, sweep, shown, prompt, told, late, crossed, wide>>

Abandoned(r) ==
  /\ At(r, "waiting")
  /\ Go(r, [serving[r] EXCEPT !.pc = "leave"])
  /\ UNCHANGED <<agent, open, sweep, shown, prompt, swept, history>>

\* Mutant: every wait that ends is announced as the last.
LeaveWaitTold(r) ==
  LET s == serving[r].scope IN
  /\ At(r, "leave") /\ Count(s, -1)
  /\ Go(r, [serving[r] EXCEPT !.pc = "left"])
  /\ UNCHANGED <<agent, openWS, sweep, shown, prompt, swept, told, stirred, crossed, wide>>

\* Only the last wait of the scope is announced.
LeaveWait(r) ==
  LET s == serving[r].scope IN
  /\ At(r, "leave") /\ Count(s, -1)
  /\ Go(r, IF openWaits[s] = 1 THEN [serving[r] EXCEPT !.pc = "left"] ELSE Idle)
  /\ UNCHANGED <<agent, openWS, sweep, shown, prompt, swept, told, stirred, crossed, wide>>

Left(r) ==
  /\ At(r, "left") /\ BroadcastPresence(r, FALSE)
  /\ Go(r, Idle)

\* The agent's cursor moved: the scope's waits are read, then broadcast.
ReadUpdate(r, s) ==
  /\ At(r, "idle") /\ s # Anywhere
  /\ Go(r, [pc |-> "tell", scope |-> s, waiting |-> openWaits[s] > 0])
  /\ UNCHANGED <<agent, open, sweep, shown, prompt, swept, history>>

Tell(r) ==
  /\ At(r, "tell") /\ BroadcastPresence(r, serving[r].waiting)
  /\ Go(r, Idle)

\* The interface opens a room: unlike an event, the snapshot it fetches counts
\* agent-wide waits, and goes into the bucket of the room.
RoomPresence(r, s) ==
  /\ At(r, "idle") /\ s # Anywhere
  /\ Go(r, [pc |-> "view", scope |-> s, wide |-> openWaits[s] = 0 /\ openWaits[Anywhere] > 0,
             waiting |-> openWaits[s] > 0 \/ openWaits[Anywhere] > 0])
  /\ UNCHANGED <<agent, open, sweep, shown, prompt, swept, history>>

MergeRoomPresence(r) ==
  LET s == serving[r].scope IN
  /\ At(r, "view") /\ Show(r, serving[r].waiting)
  /\ wide' = IF serving[r].wide THEN wide \cup {s} ELSE wide \ {s}
  /\ Go(r, Idle)

-----------------------------------------------------------------------------
(* Sockets. *)

\* hello: the socket counts before the agent is touched.
Hello(r) ==
  /\ At(r, "idle") /\ openWS' = openWS + 1 /\ stirred' = TRUE
  /\ Go(r, [pc |-> "hello"])
  /\ UNCHANGED <<agent, openWaits, sweep, shown, prompt, swept, told, late, crossed, wide>>

Greet(r) ==
  /\ At(r, "hello") /\ TouchAgent
  /\ Go(r, [pc |-> "socket"])
  /\ UNCHANGED <<known, state, pending, open, sweep, shown, prompt, told, late, crossed, wide>>

CloseWS(r) ==
  /\ At(r, "socket") /\ openWS' = openWS - 1
  /\ Go(r, Idle)
  /\ UNCHANGED <<agent, openWaits, sweep, shown, prompt, swept, history>>

-----------------------------------------------------------------------------
(* The sweep and the cleanup share a goroutine. *)

ActiveAgentIDs ==
  /\ sweep.pc = "idle"
  /\ sweep' = [pc |-> "look", active |-> Active]
  /\ UNCHANGED <<agent, open, serving, shown, prompt, swept, history>>

\* The next state of an agent the sweep found active, or not.
Derived ==
  IF sweep.active THEN IF state \in {"stale", "offline"} THEN "idle" ELSE state
  ELSE IF state \in {"stopped", "error"} THEN state
  ELSE IF age >= Offline THEN "offline"
  ELSE IF age = Stale THEN "stale"
  ELSE IF state \in {"stale", "offline"} THEN "idle" ELSE state

SweepAgentLiveness ==
  /\ sweep.pc = "look" /\ sweep' = SweepIdle /\ swept' = TRUE
  /\ IF ~known \/ Derived = state THEN UNCHANGED <<state, pending, told, stirred>>
     ELSE /\ state' = IF state = "offline" /\ Derived = "idle" /\ pending # "" THEN pending ELSE Derived
          /\ pending' = IF state = "offline" THEN "" ELSE pending
          /\ told' = IF Derived = "offline" THEN "gone"
                     ELSE IF state = "offline" /\ Derived = "idle" THEN "here" ELSE told
          /\ stirred' = IF Derived = "offline" THEN Active ELSE stirred
  /\ UNCHANGED <<known, age, open, serving, shown, prompt, late, crossed, wide>>

\* Open waits do not keep an agent from being forgotten.
CleanupStaleAgents ==
  /\ sweep.pc = "idle" /\ known /\ age = Forgotten
  /\ known' = FALSE /\ state' = "" /\ pending' = "" /\ told' = "here"
  /\ UNCHANGED <<age, open, serving, sweep, shown, prompt, swept, stirred, late, crossed, wide>>

\* The windows are long: the steps of a handler or of the sweep take no time.
Tick ==
  /\ age < Forgotten /\ sweep.pc = "idle" /\ (prompt => swept)
  /\ \A r \in Requests : serving[r].pc \in {"idle", "waiting", "socket"}
  /\ age' = age + 1 /\ swept' = FALSE
  /\ UNCHANGED <<known, state, pending, open, serving, sweep, shown, prompt, history>>

\* States, waits and sockets are not stored; the interface loads anew.
Restart ==
  /\ known' = (known /\ age # Forgotten) /\ state' = "" /\ pending' = "" /\ told' = "here"
  /\ openWaits' = [s \in Scopes |-> 0] /\ openWS' = 0
  /\ serving' = [r \in Requests |-> Idle] /\ sweep' = SweepIdle
  /\ shown' = [s \in Scopes |-> FALSE] /\ late' = {} /\ crossed' = {} /\ wide' = {}
  /\ UNCHANGED <<age, prompt, swept, stirred>>

Serve ==
  \E r \in Requests :
    \/ \E s \in Activity \cup Lifecycle : SetAgentState(r, s)
    \/ Touch(r)
    \/ \E s \in Scopes : Wait(r, s) \/ ReadUpdate(r, s) \/ RoomPresence(r, s)
    \/ EnterWait(r) \/ Entered(r) \/ Woken(r) \/ Abandoned(r) \/ LeaveWait(r) \/ Left(r)
    \/ Tell(r) \/ MergeRoomPresence(r) \/ Hello(r) \/ Greet(r) \/ CloseWS(r)

Next ==
  \/ Serve \/ Heartbeat \/ Register \/ Deregister
  \/ ActiveAgentIDs \/ SweepAgentLiveness \/ CleanupStaleAgents
  \/ Tick \/ Restart

Spec == Init /\ [][Next]_vars

-----------------------------------------------------------------------------
Gone == state # "offline" /\ state' = "offline"
Back == told = "gone" /\ told' = "here" /\ known' /\ state' # ""

\* "one room-local disconnect alert on that offline edge" (README.md:507) and
\* "an activity signal must arrive before the sweep emits a reconnect": the rooms of
\* a registered agent are told in turn that it went and that it came back, and the
\* second never without a sign of life.  Asked where sweeps are more frequent than
\* the stale window, and until the server restarts.
AlertsAlternate ==
  [][prompt => (Gone => told = "here") /\ (Back => stirred)]_vars

\* "Open bus_wait calls, web socket sessions ... count as active" (README.md:508):
\* an agent is not reported gone while it holds one open.  A socket counts once its
\* hello is complete: a sweep may have looked before it.
AlertsDeserved ==
  [][Gone => /\ \A s \in Scopes : openWaits[s] = 0
             /\ openWS = Cardinality({r \in Requests : At(r, "hello")})]_vars

\* Everything decided about the scope was sent, in order.
Told(s) == s \notin crossed /\ \A r \in Requests : ~Telling(r, s)

\* When no broadcast of a scope is on its way, the interface shows the agent as
\* listening there exactly if it is, unless the last broadcast was late or the room
\* was last filled by a fetch that counted an agent-wide wait.
ListeningShown ==
  \A s \in Scopes \ wide : Told(s) => (shown[s] <=> openWaits[s] > 0)

=============================================================================
