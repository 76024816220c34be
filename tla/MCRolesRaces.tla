---------------------------- MODULE MCRolesRaces ----------------------------
(***************************************************************************)
(* Requests that overtake each other, in three parts of the system, each   *)
(* in behaviours of its own: changes of roles, by one client and by        *)
(* several; switches of the account beside the usage poller; and MCP       *)
(* sessions that register and end.  mode says whose steps a behaviour      *)
(* takes; the variables of the others keep their first values.             *)
(***************************************************************************)
EXTENDS MCRoles

CONSTANTS
  Profiles, Ticker, Button, Webs, Clis, MaxEvents,  \* Polling
  Terminals, Wrapped, Pool, Interval, Window        \* McpShim

\* Nobody is neither a name nor a terminal.  A heartbeat goes out every 45 seconds
\* (mcp.go:1234), and the window is at least 60 (settings.go:153).
ASSUME ShimAssumption ==
  /\ Nobody \notin Pool \cup Terminals
  /\ Interval \in Nat /\ Window \in Nat /\ Interval <= Window

VARIABLES
  mode,
  active, live, version, switcher, generation, known, enabled, cache, todo, listed, fetch, events,
  up, owner, age, alive, id, pulse, job, missed, parted

pollVars == <<active, live, version, switcher, generation, known, enabled, cache, todo, listed,
              fetch, events>>
shimVars == <<up, owner, age, alive, id, pulse, job, missed, parted>>
racesVars == <<mode, vars, pollVars, shimVars>>

P == INSTANCE Polling
M == INSTANCE McpShim

\* One client: no two requests are in flight at a time.
Alone == mode = "one client"
RoleModes == {"one client", "clients"}

\* With several clients the writes and reads of the tables succeed: what is held does
\* not depend on them (LeaderIsAlone in RolesProofs is without this bound).
MayServe(h) == Alone => \A g \in Handlers \ {h} : serving[g].pc = "idle"
Change ==
  /\ \/ \E h \in Handlers : MayServe(h) /\ (Define(h) \/ Assign(h) \/ Enrol(h))
     \/ Restart
  /\ ~Alone => failed' = {}

\* The poller beside switches, with one refresher; and with both, beside one event.
PollModes == {"switches", "refreshers"}
Poll ==
  /\ P!Next
  /\ IF mode = "switches" THEN listed'[Button] = P!Idle
     ELSE events' <= 1 /\ \A s \in P!Switchers : switcher'[s] = P!Idle

RacesInit ==
  /\ mode \in RoleModes \cup PollModes \cup {"shims"}
  /\ Init /\ P!Init /\ M!Init
  /\ mode \notin PollModes => active = CHOOSE p \in Profiles : TRUE

RacesNext ==
  /\ \/ mode \in RoleModes /\ Change /\ UNCHANGED <<pollVars, shimVars>>
     \/ mode \in PollModes /\ Poll /\ UNCHANGED <<vars, shimVars>>
     \/ mode = "shims" /\ M!Next /\ UNCHANGED <<vars, pollVars>>
  /\ UNCHANGED mode

RacesSpec == RacesInit /\ [][RacesNext]_racesVars

MCSymmetry == Permutations(Handlers)

-----------------------------------------------------------------------------
\* One request at a time: "Removing an assigned custom role returns 409; add
\* ?force=true to cascade-unassign" (README.md:437), so nobody holds a role that is not
\* defined; and no agent is called like a role ("new collisions are rejected",
\* roles.go:358), or a mention of it would be taken for the role.  Custom roles that a
\* start after a failed write or read took away or brought back are excepted.
RolesFitForOne == Alone => AssignedRolesExist /\ NamesApart

\* One request at a time: when none is being served, each table whose last write and
\* read succeeded holds what the server uses, so a restart that can read both changes
\* nothing of it, whatever failed before (roles.go:200-218).
SavedForOne == Alone => SavedWhenQuiet

\* What Polling says of fetches that overlap (manager.go:1329-1388, 1420): the server's
\* switches never make a fetch file numbers under another account, and no request of the
\* ticker's goes out for numbers another fetch has just filed.
NumbersOwn == P!NumbersOwn
AskedOnce == P!AskedOnce

\* What McpShim says of sessions (mcp.go:1184, store_agents.go:229): a running shim's
\* agent is not forgotten, and no two running shims speak as one agent.
OpenSessionsKept == M!OpenSessionsKept
IdentitiesApart == M!IdentitiesApart
=============================================================================
