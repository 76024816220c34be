----------------------------- MODULE MCSwitcher -----------------------------
(***************************************************************************)
(* Constants for model checking Switcher.                                  *)
(***************************************************************************)
EXTENDS Switcher, TLC

MCSymmetry == Permutations(Profiles) \cup Permutations(Accounts)

\* Through every operation that is cut short (switch.go:204, 290) the newest login of
\* every account is kept, a profile keeps logins of its own account only, and only the
\* active one follows the live file.
LoginsKept == LoginKept /\ OwnAccountOnly /\ OnlyActiveLinked
=============================================================================
