--------------------------- MODULE VelocityLimit ---------------------------
(***************************************************************************)
(* What the two limiters between a raw command and the robot do to it:     *)
(* _limit of motion_control/core.py, applied by the guard to what it       *)
(* releases, and the independent _limit of motion_control/nav_sender.py,   *)
(* applied again to what is published.  Speeds are integers (the code's    *)
(* m/s and rad/s in some small unit).                                      *)
(* A name that GuardedOutput has too carries the prefix Limit.             *)
(***************************************************************************)
EXTENDS Integers

CONSTANTS
  MaxVx, MaxYaw,             \* core.py: 0.3 and 0.6
  XDeadzone, YawDeadzone,    \* core.py: 0.2 and 0.5
  Speeds                     \* bound: the speeds raw commands ask for

ASSUME LimitAssumption ==
  /\ MaxVx \in Nat /\ MaxYaw \in Nat
  /\ XDeadzone \in 0 .. MaxVx /\ YawDeadzone \in 0 .. MaxYaw
  /\ Speeds \subseteq Int

Velocity == [x : Int, y : Int, yaw : Int]

Zero == [x |-> 0, y |-> 0, yaw |-> 0]

Clamp(v, lo, hi) == IF v < lo THEN lo ELSE IF v > hi THEN hi ELSE v

Magnitude(v) == IF v < 0 THEN -v ELSE v

\* A speed too small for the gait is dropped, never raised.
Effective(v, deadzone) == IF Magnitude(v) < deadzone THEN 0 ELSE v

\* core._limit: the sideways component is always dropped.
Limit(v) ==
  [x   |-> Effective(Clamp(v.x, 0, MaxVx), XDeadzone),
   y   |-> 0,
   yaw |-> Effective(Clamp(v.yaw, -MaxYaw, MaxYaw), YawDeadzone)]

MutantSenderDeadzoneClosed(x, yaw) ==
  LET cx == IF x < 0 THEN 0 ELSE IF x > MaxVx THEN MaxVx ELSE x
      cw == IF yaw < -MaxYaw THEN -MaxYaw ELSE IF yaw > MaxYaw THEN MaxYaw ELSE yaw
  IN  [x   |-> IF Magnitude(cx) <= XDeadzone THEN 0 ELSE cx,
       y   |-> 0,
       yaw |-> IF Magnitude(cw) <= YawDeadzone THEN 0 ELSE cw]

\* nav_sender._limit, which reads the same four constants but shares no code.
SenderLimit(x, yaw) ==
  LET cx == IF x < 0 THEN 0 ELSE IF x > MaxVx THEN MaxVx ELSE x
      cw == IF yaw < -MaxYaw THEN -MaxYaw ELSE IF yaw > MaxYaw THEN MaxYaw ELSE yaw
  IN  [x   |-> IF Magnitude(cx) < XDeadzone THEN 0 ELSE cx,
       y   |-> 0,
       yaw |-> IF Magnitude(cw) < YawDeadzone THEN 0 ELSE cw]

-----------------------------------------------------------------------------
VARIABLES
  command,   \* MotionGuard._command: the last finite raw command
  released,  \* the velocity of the last decision that allowed motion
  wire       \* the last velocity published on /NAV_CMD

limitVars == <<command, released, wire>>

LimitTypeOK == command \in Velocity /\ released \in Velocity /\ wire \in Velocity

LimitInit == command = Zero /\ released = Zero /\ wire = Zero

NewCommand ==
  /\ \E x, y, yaw \in Speeds : command' = [x |-> x, y |-> y, yaw |-> yaw]
  /\ UNCHANGED <<released, wire>>

\* A release that is published (MotionRuntime says when).
ReleaseCommand ==
  /\ released' = Limit(command)
  /\ wire' = SenderLimit(released'.x, released'.yaw)
  /\ UNCHANGED command

\* GuardedOutput's owed zero takes the same way through the sender.
SendZero ==
  /\ wire' = SenderLimit(0, 0)
  /\ UNCHANGED <<command, released>>

LimitNext == NewCommand \/ ReleaseCommand \/ SendZero

LimitSpec == LimitInit /\ [][LimitNext]_limitVars

-----------------------------------------------------------------------------
(* Properties                                                              *)

\* Whatever is asked for, the robot is told to stand still in an axis or to move
\* within the gait's effective range: forwards only, never sideways.
WireInRange ==
  /\ wire.x = 0 \/ wire.x \in XDeadzone .. MaxVx
  /\ wire.y = 0
  /\ wire.yaw = 0 \/ Magnitude(wire.yaw) \in YawDeadzone .. MaxYaw

\* The second limiter agrees with the first: what a decision reports as released
\* is what is published, unless a zero was sent since.
WireIsReleased == wire = released \/ wire = Zero
=============================================================================
