------------------------------ MODULE Polling ------------------------------
(***************************************************************************)
(* The usage poller: internal/usages/manager.go for one provider whose     *)
(* accounts are the profiles of the account switcher (Claude or Codex).    *)
(*                                                                         *)
(* The ticker and the "refresh now" button read the numbers of every       *)
(* profile and file them in one cache, an entry per profile.  The active   *)
(* profile is read with whatever credentials the LIVE file holds at that   *)
(* moment, while a request or the command line may switch the account at   *)
(* any time; nothing is locked while the provider answers.  So a fetch     *)
(* remembers the active profile, a fingerprint of its credentials and a    *)
(* generation that a switch through the server bumps, and drops its result *)
(* when any of them changed.                                               *)
(*                                                                         *)
(* Credentials are written <<profile, version>>: whose they are and how    *)
(* often they were rotated.  The active markers, e-mails and error texts   *)
(* of the entries are left out: every read of the cache recomputes them.   *)
(***************************************************************************)
EXTENDS Naturals, FiniteSets

CONSTANTS
    Profiles,      \* the profiles of the tool
    Nobody,        \* the owner of an entry without numbers
    Ticker, Button, \* the two refreshers: the server's ticker, POST /api/usages/refresh
    Webs,          \* requests that switch the account through the server
    Clis,          \* command lines that switch it without telling the server
    MaxEvents      \* bound on what happens around the poller, of all kinds together

VARIABLES
    active,     \* the active profile in the switcher's state file
    live,       \* the profile whose credentials the live file holds
    version,    \* rotations of each profile's credentials
    switcher,   \* what each switching process is doing
    generation, \* profileGeneration
    known,      \* activeFingerprints: the credentials last fetched with
    enabled,    \* the provider is switched on in the settings
    cache,      \* the cached entry of each profile
    todo,       \* the profiles a refresher still has to fetch
    listed,     \* what a refresher saw of the active profile when it began
    fetch,      \* the fetch of each refresher
    events      \* switches, rotations, settings changes and CLI reads so far

world == <<active, live, version, switcher, enabled, events>>
round == <<todo, listed>>
vars == <<world, generation, known, cache, fetch, round>>

Refreshers == {Ticker, Button}
Switchers == Webs \cup Clis

NoEntry == [whose |-> Nobody, fresh |-> FALSE, good |-> FALSE]
NoFetch == [pc |-> "none", outcome |-> "none"]
Idle == [pc |-> "idle"]

\* The fingerprint of the live file, and of the stored file of p.
LivePrint == <<live, version[live]>>
StoredPrint(p) == <<p, version[p]>>
CredentialsChanged == known # LivePrint

Init ==
    /\ \E p \in Profiles : active = p /\ live = p
    /\ version = [p \in Profiles |-> 0]
    /\ switcher = [s \in Switchers |-> Idle]
    /\ generation = 0
    /\ known = <<>>
    /\ enabled = TRUE
    /\ cache = [p \in Profiles |-> NoEntry]
    /\ todo = [r \in Refreshers |-> {}]
    /\ listed = [r \in Refreshers |-> Idle]
    /\ fetch = [r \in Refreshers |-> NoFetch]
    /\ events = 0

----------------------------------------------------------------------------
\* The world around the poller

Happens == events < MaxEvents /\ events' = events + 1

\* The handler reads the outgoing profile before the switch takes the switcher's lock.
AskSwitch(s, q) ==
    /\ switcher[s] = Idle /\ Happens
    /\ switcher' = [switcher EXCEPT ![s] = [pc |-> "asked", out |-> active, to |-> q]]
    /\ UNCHANGED <<active, live, version, enabled, generation, known, cache, fetch, round>>

\* A switch to the active profile changes nothing and invalidates nothing.
SwitchNoOp(s) ==
    /\ switcher[s].pc = "asked" /\ switcher[s].to = active
    /\ \A t \in Switchers : switcher[t].pc # "swapped"
    /\ switcher' = [switcher EXCEPT ![s] = Idle]
    /\ UNCHANGED <<active, live, version, enabled, events, generation, known, cache,
                   fetch, round>>

\* The switch swaps the live file and then writes the state file, under its own lock.
SwapLive(s) ==
    /\ switcher[s].pc = "asked" /\ switcher[s].to # active
    /\ \A t \in Switchers : switcher[t].pc # "swapped"
    /\ switcher' = [switcher EXCEPT ![s].pc = "swapped"]
    /\ live' = switcher[s].to
    /\ UNCHANGED <<active, version, enabled, events, generation, known, cache, fetch, round>>

\* Only a request to the server goes on to invalidate both profiles.
SaveActive(s) ==
    /\ switcher[s].pc = "swapped"
    /\ active' = switcher[s].to
    /\ switcher' = [switcher EXCEPT ![s] = IF s \in Clis THEN Idle ELSE [@ EXCEPT !.pc = "outgoing"]]
    /\ UNCHANGED <<live, version, enabled, events, generation, known, cache, fetch, round>>

\* profileMu is held from the last comparison of a fetch to the end of its save.
Unlocked == \A r \in Refreshers : ~(fetch[r].pc = "save" /\ fetch[r].own)

InvalidateProfileSnapshot(s) ==
    LET job == switcher[s]
        p == IF job.pc = "outgoing" THEN job.out ELSE job.to
    IN  /\ job.pc \in {"outgoing", "incoming"} /\ Unlocked
        /\ generation' = generation + 1
        /\ known' = <<>>
        /\ cache' = [cache EXCEPT ![p] = NoEntry]
        /\ switcher' = [switcher EXCEPT ![s] =
               IF job.pc = "outgoing" /\ job.to # job.out THEN [@ EXCEPT !.pc = "incoming"] ELSE Idle]
        /\ UNCHANGED <<active, live, version, enabled, events, fetch, round>>

\* The tool renews its own login, or a maintenance run renews a stored one.
Rotate(p) ==
    /\ Happens
    /\ version' = [version EXCEPT ![p] = @ + 1]
    /\ UNCHANGED <<active, live, switcher, enabled, generation, known, cache, fetch, round>>

SetProviderEnabled ==
    /\ Happens
    /\ enabled' = ~enabled
    /\ UNCHANGED <<active, live, version, switcher, generation, known, cache, fetch, round>>

\* The refresh interval goes by.
Elapse ==
    /\ \E p \in Profiles : cache[p].fresh
    /\ cache' = [p \in Profiles |-> [cache[p] EXCEPT !.fresh = FALSE]]
    /\ fetch' = [r \in Refreshers |->
                    IF fetch[r] = NoFetch THEN NoFetch
                    ELSE [fetch[r] EXCEPT !.fresh = FALSE, !.before.fresh = FALSE]]
    /\ UNCHANGED <<world, generation, known, round>>

\* "aimebu usages" reads the same cache file with a manager of its own, which knows of
\* no profiles: it keeps only the entry of "local" and saves the result.
UsagesCommand ==
    /\ Happens
    /\ cache' = [p \in Profiles |-> NoEntry]
    /\ UNCHANGED <<active, live, version, switcher, enabled, generation, known, fetch, round>>

----------------------------------------------------------------------------
\* One round of a refresher

Forced(r) == r = Button

\* The button's 15 seconds of rest are left out: any time may pass between two steps.
\* The profiles are listed, and the live credentials compared, before the store is locked.
BeginRound(r) ==
    /\ listed[r] = Idle
    /\ listed' = [listed EXCEPT ![r] =
           [pc |-> "listed", active |-> active, changed |-> CredentialsChanged]]
    /\ UNCHANGED <<world, generation, known, cache, fetch, todo>>

Due(p, force, changed) == force \/ ~cache[p].fresh \/ changed

PickProfiles(r) ==
    /\ listed[r].pc = "listed"
    /\ LET due == IF enabled
                  THEN {p \in Profiles :
                           Due(p, Forced(r), p = listed[r].active /\ listed[r].changed)}
                  ELSE {}
       IN  /\ todo' = [todo EXCEPT ![r] = due]
           /\ listed' = [listed EXCEPT ![r] =
                  IF due = {} THEN Idle ELSE [@ EXCEPT !.pc = "fetching"]]
    /\ UNCHANGED <<world, generation, known, cache, fetch>>

\* The answer is assembled from the cache once every fetch of the round has ended.
EndRound(r) ==
    /\ listed[r].pc = "fetching" /\ todo[r] = {}
    /\ fetch[r] = NoFetch
    /\ listed' = [listed EXCEPT ![r] = Idle]
    /\ UNCHANGED <<world, generation, known, cache, fetch, todo>>

----------------------------------------------------------------------------
\* One fetch, under the provider's file lock.  Of a fetch, seen is what the credentials
\* were when the decision was made: only the properties read it.

At(r, pc) == fetch[r].pc = pc
Go(r, next) == fetch' = [fetch EXCEPT ![r] = next]
Drop(r) == Go(r, NoFetch)

\* A profile listed as active must still be the active one.
Begin(r, p) ==
    /\ fetch[r] = NoFetch /\ p \in todo[r]
    /\ todo' = [todo EXCEPT ![r] = @ \ {p}]
    /\ LET own == p = listed[r].active
       IN  IF own /\ active # p THEN Drop(r)
           ELSE Go(r, [pc |-> IF own THEN "owner" ELSE "decide", profile |-> p, own |-> own,
                       print |-> <<>>, generation |-> 0, seen |-> <<>>, before |-> NoEntry,
                       fresh |-> FALSE, whose |-> Nobody, outcome |-> "none"])
    /\ UNCHANGED <<world, generation, known, cache, listed>>

\* A mutant: nobody waits for the lock.
AcquireUnlocked(r, p) == Begin(r, p)

AcquireProviderLock(r, p) ==
    /\ \A u \in Refreshers : fetch[u] = NoFetch
    /\ Begin(r, p)

ReadOwner(r) ==
    /\ At(r, "owner")
    /\ Go(r, [fetch[r] EXCEPT !.pc = "generation", !.print = LivePrint])
    /\ UNCHANGED <<world, generation, known, cache, round>>

ReadGeneration(r) ==
    /\ At(r, "generation")
    /\ Go(r, [fetch[r] EXCEPT !.pc = "decide", !.generation = generation])
    /\ UNCHANGED <<world, generation, known, cache, round>>

\* The need for the fetch is decided again under the lock: another refresher may have
\* fetched this profile while this one waited.
DecideAgain(r) ==
    /\ At(r, "decide")
    /\ LET p == fetch[r].profile
           own == fetch[r].own
       IN  IF enabled /\ Due(p, Forced(r), own /\ CredentialsChanged)
           THEN Go(r, [fetch[r] EXCEPT !.pc = "call", !.before = cache[p], !.fresh = TRUE,
                                       !.seen = LivePrint,
                                       !.print = IF own THEN @ ELSE StoredPrint(p)])
           ELSE Drop(r)
    /\ UNCHANGED <<world, generation, known, cache, round>>

\* The provider is asked with the credentials the file holds now: the live file for
\* the profile taken to be active, the stored file for any other.
SendRequest(r) ==
    /\ At(r, "call")
    /\ Go(r, [fetch[r] EXCEPT !.pc = "wait", !.seen = <<>>,
                              !.whose = IF fetch[r].own THEN live ELSE fetch[r].profile])
    /\ UNCHANGED <<world, generation, known, cache, round>>

\* Credentials known to have expired are not sent at all.
SkipExpired(r) ==
    /\ At(r, "call")
    /\ Go(r, [fetch[r] EXCEPT !.pc = "compare", !.seen = <<>>, !.outcome = "expired"])
    /\ UNCHANGED <<world, generation, known, cache, round>>

Answer(r, outcome) ==
    /\ At(r, "wait")
    /\ Go(r, [fetch[r] EXCEPT !.pc = "compare", !.outcome = outcome])
    /\ UNCHANGED <<world, generation, known, cache, round>>

\* A mutant: the generation is not compared.
CompareFingerprints(r) ==
    LET f == fetch[r] IN
    /\ At(r, "compare")
    /\ IF f.print = (IF f.own THEN LivePrint ELSE StoredPrint(f.profile)) /\ (f.own => active = f.profile)
       THEN Go(r, [f EXCEPT !.pc = "save"]) ELSE Drop(r)
    /\ UNCHANGED <<world, generation, known, cache, round>>

\* The result counts only while the credentials are the ones the fetch began with,
\* and for the active profile while it is active and no switch was announced.
CompareOwner(r) ==
    LET f == fetch[r] IN
    /\ At(r, "compare")
    /\ IF IF f.own THEN active = f.profile /\ f.print = LivePrint /\ f.generation = generation
          ELSE f.print = StoredPrint(f.profile)
       THEN Go(r, [f EXCEPT !.pc = "save"]) ELSE Drop(r)
    /\ UNCHANGED <<world, generation, known, cache, round>>

\* What is filed: new numbers; the previous ones after an expiry or a passing failure
\* that follows a good reading (with the time of that reading); or the failure alone.
Filed(f) ==
    LET own == [whose |-> f.whose, fresh |-> f.fresh, good |-> TRUE]
    IN  CASE f.outcome = "ok" -> own
          [] f.outcome = "transient" /\ f.before.good -> f.before
          [] f.outcome = "expired" -> [f.before EXCEPT !.good = FALSE]
          [] OTHER -> [own EXCEPT !.whose = Nobody, !.good = FALSE]

SaveSnapshot(r) ==
    LET f == fetch[r] IN
    /\ At(r, "save")
    /\ cache' = IF enabled THEN [cache EXCEPT ![f.profile] = Filed(f)] ELSE cache
    /\ known' = IF f.own THEN f.print ELSE known
    /\ Drop(r)
    /\ UNCHANGED <<world, generation, round>>

----------------------------------------------------------------------------

Next ==
    \/ \E s \in Switchers, q \in Profiles : AskSwitch(s, q)
    \/ \E s \in Switchers :
          SwitchNoOp(s) \/ SwapLive(s) \/ SaveActive(s) \/ InvalidateProfileSnapshot(s)
    \/ \E p \in Profiles : Rotate(p)
    \/ SetProviderEnabled \/ Elapse \/ UsagesCommand
    \/ \E r \in Refreshers : BeginRound(r) \/ PickProfiles(r) \/ EndRound(r)
    \/ \E r \in Refreshers, p \in Profiles : AcquireProviderLock(r, p)
    \/ \E r \in Refreshers :
          \/ ReadOwner(r) \/ ReadGeneration(r) \/ DecideAgain(r) \/ SendRequest(r) \/ SkipExpired(r)
          \/ \E outcome \in {"ok", "transient", "refused"} : Answer(r, outcome)
          \/ CompareOwner(r) \/ SaveSnapshot(r)

Spec == Init /\ [][Next]_vars

----------------------------------------------------------------------------
\* Properties

\* docs/usages.md:110-113: one account's numbers are never cached under another
\* profile, however the server switches accounts while the provider answers.  One window
\* is open: a request that has swapped the live file and has yet to make its
\* invalidations, which will remove the entry (manager.go:1420-1427, 1712-1733).  A
\* command line that switches there and back goes unnoticed: with Clis it does not hold.
NumbersOwn ==
    [][\A r \in Refreshers :
         At(r, "save") /\ fetch'[r].pc = "none" /\ fetch[r].outcome = "ok" /\ enabled
          => \/ cache'[fetch[r].profile].whose = fetch[r].profile
             \/ \E s \in Webs : switcher[s].pc \in {"swapped", "outgoing", "incoming"}]_vars

\* The ticker never asks the provider about a profile whose numbers another refresher
\* has just filed: when a request goes out, which may be long after it was decided on,
\* the numbers are older than the interval, or the credentials it was decided on are
\* still not the ones of the last fetch (manager.go:1329-1388).
AskedOnce ==
    [][\A r \in Refreshers :
         At(r, "call") /\ fetch'[r].pc = "wait" /\ ~Forced(r)
          => \/ ~cache[fetch[r].profile].fresh
             \/ fetch[r].own /\ known # fetch[r].seen]_vars

=============================================================================
