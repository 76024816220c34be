------------------------------ MODULE MCRoles -------------------------------
(* Values for the constants of Roles.                                      *)
EXTENDS Roles, TLC

CONSTANTS leader, reviewer, specialist, zoe, ann, bob, room

Multi(base) == [cardinality |-> "multi", extends |-> base]
Singleton == [cardinality |-> "singleton", extends |-> NoKey]

MCDefault ==
  (leader :> Singleton @@ reviewer :> Multi(NoKey) @@ specialist :> Multi(reviewer))
MCName == [a \in Agents |-> IF a = ann THEN zoe ELSE a]

\* One custom role with the name an agent may have; overrides of two built-ins.
MCPayloads ==
  {Nothing, zoe :> Multi(NoKey), zoe :> Multi(reviewer) @@ leader :> Singleton}

\* The reviewer made to extend the specialist, with and without an entry for it.
MCCyclePayloads ==
  {reviewer :> Multi(specialist), specialist :> Multi(leader),
   reviewer :> Multi(specialist) @@ specialist :> Multi(NoKey)}
=============================================================================
