------------------------------- MODULE McpShim -------------------------------
(***************************************************************************)
(* The MCP shim: the process a harness starts to talk to the bus.  It reads  *)
(* requests from its harness one at a time and turns each into one call of   *)
(* the server; beside it a goroutine sends a heartbeat for the identity the  *)
(* last bus_register gave.  The server forgets an agent that it has not      *)
(* heard of for some time, open long polls or not, and gives its name away.  *)
(*                                                                         *)
(* A terminal runs one shim after the other; a wrapper gives them all its    *)
(* spawn tag.  Time is counted in ticks, and passes only when no heartbeat   *)
(* is due and no answer is under way: both take far less than a tick.        *)
(***************************************************************************)
EXTENDS Naturals, FiniteSets

CONSTANTS
  Terminals,  \* where shims run
  Wrapped,    \* terminals of a wrapper, with a spawn tag
  Pool,       \* names the server gives
  Nobody,
  Interval,   \* ticks between two heartbeats
  Window      \* ticks until an agent is forgotten

VARIABLES
  up,      \* does the server answer?
  owner,   \* name -> terminal whose tag and meta the agent has, Nobody if not registered
  age,     \* name -> ticks since the agent was seen
  alive,   \* terminal -> does its shim run?
  id,      \* terminal -> the identity the shim speaks with
  pulse,   \* terminal -> ticks until the next heartbeat
  job,     \* terminal -> the request being handled
  \* What the properties talk about; no step reads these.
  missed,  \* terminals whose last heartbeat did not arrive
  parted   \* names claimed by force, or lost, while a running shim spoke with them

server == <<up, owner, age>>
shim == <<alive, id, pulse, job>>
vars == <<server, shim, missed, parted>>

-----------------------------------------------------------------------------
Free == {n \in Pool : owner[n] = Nobody}
Idle == [pc |-> "idle"]
At(t, pc) == alive[t] /\ job[t].pc = pc
Go(t, next) == job' = [job EXCEPT ![t] = next]
\* The shims that speak with a name, or will as soon as the answer arrives.
Speaking(n) ==
  {t \in Terminals : alive[t] /\ (id[t] = n \/ job[t] = [pc |-> "registered", name |-> n])}
Touched(n) == IF n \in Pool \ Free THEN [age EXCEPT ![n] = 0] ELSE age

Init ==
  /\ up = TRUE /\ owner = [n \in Pool |-> Nobody] /\ age = [n \in Pool |-> 0]
  /\ alive = [t \in Terminals |-> FALSE] /\ id = [t \in Terminals |-> Nobody]
  /\ pulse = [t \in Terminals |-> Interval] /\ job = [t \in Terminals |-> Idle]
  /\ missed = {} /\ parted = {}

-----------------------------------------------------------------------------
(* The shim. *)

Run(t) ==
  /\ ~alive[t] /\ alive' = [alive EXCEPT ![t] = TRUE]
  /\ UNCHANGED <<server, id, pulse, job, missed, parted>>

\* The harness ends, and its shim with it, whatever it was doing.
Exit(t) ==
  /\ alive[t] /\ alive' = [alive EXCEPT ![t] = FALSE]
  /\ id' = [id EXCEPT ![t] = Nobody]
  /\ pulse' = [pulse EXCEPT ![t] = Interval]
  /\ Go(t, Idle)
  /\ missed' = missed \ {t} /\ parted' = parted \ (IF Speaking(id[t]) = {t} THEN {id[t]} ELSE {})
  /\ UNCHANGED server

\* Every tool but bus_register and bus_agents needs an identity; the server notes that
\* it has seen the agent when the call begins, and a bus_wait may then take minutes.
HandleToolCall(t) ==
  /\ At(t, "idle") /\ id[t] # Nobody /\ up
  /\ age' = Touched(id[t])
  /\ Go(t, [pc |-> "calling"])
  /\ UNCHANGED <<up, owner, alive, id, pulse, missed, parted>>

\* The answer, with the footer, or an error of the connection.
Return(t) ==
  /\ At(t, "calling") /\ Go(t, Idle)
  /\ UNCHANGED <<server, alive, id, pulse, missed, parted>>

\* bus_register, with the tag of the wrapper if there is one, or by force with a name.
AskRegister(t, n) ==
  /\ At(t, "idle") /\ up
  /\ Go(t, [pc |-> "register", force |-> n])
  /\ UNCHANGED <<server, alive, id, pulse, missed, parted>>

\* An error leaves the identity the shim has.
Registered(t) ==
  /\ At(t, "registered")
  /\ id' = [id EXCEPT ![t] = IF job[t].name = Nobody THEN @ ELSE job[t].name]
  /\ Go(t, Idle)
  /\ UNCHANGED <<server, alive, pulse, missed, parted>>

Unreachable(t) ==
  /\ job[t].pc \in {"register", "registered"} /\ ~up
  /\ Go(t, Idle)
  /\ UNCHANGED <<server, alive, id, pulse, missed, parted>>

Pulsed(t) ==
  /\ alive[t] /\ pulse[t] = 0
  /\ pulse' = [pulse EXCEPT ![t] = Interval]

\* Mutant: a shim that is busy with a call sends no heartbeat.
HeartbeatIdle(t) ==
  /\ Pulsed(t)
  /\ age' = IF up /\ job[t] = Idle THEN Touched(id[t]) ELSE age
  /\ missed' = IF up THEN missed \ {t} ELSE missed \cup {t}
  /\ UNCHANGED <<up, owner, alive, id, job, parted>>

\* Sent whatever the shim is doing; an error, such as an unknown agent, is ignored.
Heartbeat(t) ==
  /\ Pulsed(t)
  /\ age' = IF up THEN Touched(id[t]) ELSE age
  /\ missed' = IF up THEN missed \ {t} ELSE missed \cup {t}
  /\ UNCHANGED <<up, owner, alive, id, job, parted>>

-----------------------------------------------------------------------------
(* The server. *)

\* The agent is new, or has a new shim from now on.
Give(t, n) ==
  /\ owner' = [owner EXCEPT ![n] = t] /\ age' = [age EXCEPT ![n] = 0]
  /\ Go(t, [pc |-> "registered", name |-> n])

Tagged(t) == IF t \in Wrapped THEN {n \in Pool : owner[n] = t} ELSE {}

\* Mutant: a name is given although an agent has it.
RegisterTaken(t) ==
  /\ At(t, "register") /\ up
  /\ \E n \in Pool : Give(t, n)
  /\ UNCHANGED <<up, alive, id, pulse, missed, parted>>

\* The agent with the spawn tag, else a name nobody has.
Register(t) ==
  /\ At(t, "register") /\ up /\ job[t].force = Nobody
  /\ IF Tagged(t) # {}
     THEN \E n \in Tagged(t) : Give(t, n)
     ELSE \E n \in Free : Give(t, n)
  /\ UNCHANGED <<up, alive, id, pulse, missed, parted>>

\* No name is left, or the one claimed is reserved, a role, or held by an agent of
\* another kind.
RegisterRefused(t) ==
  /\ At(t, "register") /\ up
  /\ Go(t, [pc |-> "registered", name |-> Nobody])
  /\ UNCHANGED <<server, alive, id, pulse, missed, parted>>

\* A name claimed by force is given also when an agent of the same kind has it.
Claim(t) ==
  LET n == job[t].force IN
  /\ At(t, "register") /\ up /\ n # Nobody
  /\ Give(t, n)
  /\ parted' = IF Speaking(n) \ {t} = {} THEN parted ELSE parted \cup {n}
  /\ UNCHANGED <<up, alive, id, pulse, missed>>

Forget(ns) ==
  /\ owner' = [n \in Pool |-> IF n \in ns THEN Nobody ELSE owner[n]]
  /\ age' = [n \in Pool |-> IF n \in ns THEN 0 ELSE age[n]]
  /\ parted' = parted \cup {n \in ns : Speaking(n) # {}}

Overdue == {n \in Pool \ Free : age[n] > Window}

\* The sweep goes by the time an agent was seen, not by the long polls it has open.
CleanupStaleAgents ==
  /\ up /\ Overdue # {} /\ Forget(Overdue)
  /\ UNCHANGED <<up, shim, missed>>

\* A human or a wrapper removes an agent, or a prune all of them.
Deregister(ns) ==
  /\ up /\ ns # {} /\ ns \subseteq Pool \ Free /\ Forget(ns)
  /\ UNCHANGED <<up, shim, missed>>

Stop ==
  /\ up /\ up' = FALSE
  /\ UNCHANGED <<owner, age, shim, missed, parted>>

Start ==
  /\ ~up /\ up' = TRUE /\ Forget(Overdue)
  /\ UNCHANGED <<shim, missed>>

Tick ==
  /\ \A t \in Terminals : alive[t] => pulse[t] > 0 /\ job[t].pc # "registered"
  /\ pulse' = [t \in Terminals |-> IF alive[t] THEN pulse[t] - 1 ELSE pulse[t]]
  /\ age' = [n \in Pool |-> IF n \in Free \/ age[n] > Window THEN age[n] ELSE age[n] + 1]
  /\ UNCHANGED <<up, owner, alive, id, job, missed, parted>>

Next ==
  \/ \E t \in Terminals :
       \/ Run(t) \/ Exit(t) \/ HandleToolCall(t) \/ Return(t)
       \/ \E n \in Pool \cup {Nobody} : AskRegister(t, n)
       \/ Register(t) \/ RegisterRefused(t) \/ Claim(t) \/ Registered(t) \/ Unreachable(t) \/ Heartbeat(t)
  \/ CleanupStaleAgents \/ Stop \/ Start \/ Tick
  \/ \E n \in Pool : Deregister({n})
  \/ Deregister(Pool \ Free)

Spec == Init /\ [][Next]_vars

-----------------------------------------------------------------------------
\* "Open bus_wait calls ... and the per-session MCP heartbeat (every 45s) count as
\* active" (README.md:508): an agent whose shim runs is not forgotten, however long its
\* calls take and however often it registered before, unless a heartbeat failed.
OpenSessionsKept ==
  [][\A t \in Terminals :
       /\ alive[t] /\ id[t] \in Overdue
       => t \in missed \/ owner'[id[t]] = owner[id[t]]]_vars

\* Two running shims never speak as one agent, unless one claimed the name by force or
\* the server forgot the agent while its shim ran on (which the shim does not notice).
IdentitiesApart ==
  \A t, u \in Terminals : t # u /\ alive[t] /\ alive[u] /\ id[t] = id[u] /\ id[t] # Nobody =>
    id[t] \in parted
=============================================================================
