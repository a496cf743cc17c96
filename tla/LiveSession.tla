----------------------------- MODULE LiveSession -----------------------------
(***************************************************************************)
(* What one live process promises about the robot (motion_control/         *)
(* RUNTIME.md, section 5): motion is permitted at most once, only while    *)
(* that permission lasts is a release offered to the wire, a revoked       *)
(* permission never comes back, and a zero is offered only to a robot      *)
(* that this process set in motion, until one is delivered.                *)
(***************************************************************************)

VARIABLES
  permit,   \* "never", then "granted" at most once, then "revoked" for good
  hand,     \* what is being handed to the wire: nothing, a release or a zero
  robot     \* the last command that reached the wire

vars == <<permit, hand, robot>>

Init ==
  /\ permit = "never"
  /\ hand = "nothing"
  /\ robot = "silent"

Grant ==
  /\ permit = "never"
  /\ permit' = "granted"
  /\ UNCHANGED <<hand, robot>>

Revoke ==
  /\ permit' = "revoked"
  /\ UNCHANGED <<hand, robot>>

OfferRelease ==
  /\ hand = "nothing"
  /\ permit = "granted"
  /\ robot # "stopped"
  /\ hand' = "release"
  /\ UNCHANGED <<permit, robot>>

OfferZero ==
  /\ hand = "nothing"
  /\ robot = "moving"
  /\ hand' = "zero"
  /\ permit' = "revoked"
  /\ UNCHANGED robot

Deliver ==
  /\ hand # "nothing"
  /\ robot' = IF hand = "release" THEN "moving" ELSE "stopped"
  /\ hand' = "nothing"
  /\ UNCHANGED permit

\* The command is lost on the way: a send that raises, or an interrupt.
Drop ==
  /\ hand # "nothing"
  /\ hand' = "nothing"
  /\ permit' \in {permit, "revoked"}
  /\ UNCHANGED robot

Next == Grant \/ Revoke \/ OfferRelease \/ OfferZero \/ Deliver \/ Drop

Spec == Init /\ [][Next]_vars
=============================================================================
