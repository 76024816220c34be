--------------------------- MODULE MCTokenRefresh ---------------------------
(* Values for the constants of TokenRefresh.                               *)
EXTENDS TokenRefresh, TLC

CONSTANTS work, private

\* One account under every profile.
Shared == [p \in Profiles |-> 1]

\* The steps of Next an instance has in which only switches are called (Calls) and the
\* server does not stop (MaxStops): the others are not enabled there.
SwitchNext ==
  \/ \E j \in Jobs : Step(j)
  \/ \E p \in Profiles : Due(p) \/ Recover(p)
  \/ \E h \in Handlers, p \in Profiles : Incoming(h, p)
  \/ \E d \in Profiles \X Tokens : StrayEnds(d)
  \/ Bootstrap

SwitchSpec == Init /\ [][SwitchNext]_vars
=============================================================================
