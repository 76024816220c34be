----------------------------- MODULE ReadLedger -----------------------------
(***************************************************************************)
(* What the bus promises about reading, with no handler, channel or        *)
(* restart in sight: a log of messages with distinct ids, and for every    *)
(* agent and room a cursor that only moves forward, to a message the bus   *)
(* has accounted for to that agent: handed to it, posted by it, or skipped *)
(* at its own request.                                                     *)
(***************************************************************************)
EXTENDS Integers

CONSTANTS Agents, RoomIDs, Unset

VARIABLES log, cursor, accounted

ledger == <<log, cursor, accounted>>

LoggedIn(r) == {m \in log : m.room = r}

LedgerInit ==
  /\ \A m, n \in log : m.id = n.id => m = n
  /\ cursor = [a \in Agents |-> [r \in RoomIDs |-> Unset]]
  /\ accounted = [a \in Agents |-> {}]

\* A message gets an id no other message of the log has.
Post ==
  /\ UNCHANGED <<cursor, accounted>>
  /\ \E m \in log' \ log : log' = log \cup {m} /\ \A other \in log : other.id # m.id

\* A deleted room takes its messages along and nothing else.
Drop ==
  /\ UNCHANGED <<cursor, accounted>>
  /\ \E r \in RoomIDs : log' = log \ LoggedIn(r)

\* Messages are handed to a, or passed over for it, perhaps after their room was
\* deleted; nothing is taken back.
Account(a) ==
  /\ accounted[a] \subseteq accounted'[a]
  /\ \A b \in Agents \ {a} : accounted'[b] = accounted[b]
  /\ UNCHANGED log

\* The cursors of a that move at all move forward.  The first move of a cursor
\* leaves out everything up to where it lands; a later one lands on a message
\* accounted for.
Move(a) ==
  /\ \A b \in Agents \ {a} : cursor'[b] = cursor[b]
  /\ \A r \in RoomIDs : cursor'[a][r] # cursor[a][r] =>
       /\ cursor'[a][r] > cursor[a][r]
       /\ \/ cursor'[a][r] \in accounted'[a]
          \/ /\ cursor[a][r] = Unset
             /\ \A m \in LoggedIn(r) : m.id <= cursor'[a][r] => m.id \in accounted'[a]

Next ==
  /\ ledger' # ledger
  /\ Post \/ Drop \/ \E a \in Agents : Account(a) /\ Move(a)

Spec == LedgerInit /\ [][Next]_ledger
=============================================================================
