----------------------------- MODULE DriverLease -----------------------------
(***************************************************************************)
(* What the operator stack promises about who drives the robot             *)
(* (docs/OPERATOR_SPEC.md, docs/OPERATOR.md): one holder at a time; a      *)
(* lease that has lapsed never comes back to life, only a new start gives  *)
(* a new lease, with a number of its own; motion is asked for only under a *)
(* living lease and never inherited by the next one.                       *)
(***************************************************************************)
EXTENDS Naturals

CONSTANTS Clients, Nobody

VARIABLES
  holder,    \* who was given the lease last, or Nobody
  term,      \* the number of that lease
  alive,     \* the lease still allows driving
  driving    \* a motion command is latched

vars == <<holder, term, alive, driving>>

Init ==
  /\ holder = Nobody
  /\ term = 1
  /\ alive = FALSE
  /\ driving = FALSE

Take ==
  /\ ~alive
  /\ holder' \in Clients
  /\ term' = term + 1
  /\ alive' = TRUE
  /\ driving' = FALSE

\* The holder, or whoever drives for it, asks for motion or for none.
Drive ==
  /\ alive
  /\ driving' \in BOOLEAN
  /\ UNCHANGED <<holder, term, alive>>

\* A timeout or a fault: what was latched may still stand for a moment.
Lapse ==
  /\ alive' = FALSE
  /\ driving' \in {driving, FALSE}
  /\ UNCHANGED <<holder, term>>

Release ==
  /\ holder' = Nobody
  /\ alive' = FALSE
  /\ driving' = FALSE
  /\ UNCHANGED term

Next == Take \/ Drive \/ Lapse \/ Release

Spec == Init /\ [][Next]_vars
=============================================================================
