---------------------------- MODULE OperatorGuard ----------------------------
(***************************************************************************)
(* The velocity gate of m20_adapter/core.py (class Guard) as operators on  *)
(* a record, one per method.  It is used by one thread only, the bridge's  *)
(* executor.  Times are integers; the reason of a disarm is left out, it   *)
(* never changes a decision.                                               *)
(*                                                                         *)
(* A velocity is a set: empty for one that the gait's quantizer makes      *)
(* zero, and {m} for a motion, where m says who asked for it and when.     *)
(***************************************************************************)
EXTENDS Integers

CONSTANTS
  CommandTimeout, ScanTimeout, StatusTimeout,   \* Guard: 0.3, 0.5, 1.5
  StopHits                                      \* stop_hits_required

ASSUME OperatorGuardAssumption ==
  /\ CommandTimeout \in Nat /\ ScanTimeout \in Nat /\ StatusTimeout \in Nat
  /\ StopHits \in Nat \ {0}

Never == -1     \* -math.inf: older than any timeout

Stale(at, timeout, now) == at = Never \/ now - at > timeout

Zero == {}

\* selected: the usage mode selects a sub-command (command_kind is not None);
\* fit: nothing but age stands against the status.
NewOperatorGuard ==
  [armed |-> FALSE, selected |-> FALSE, fit |-> FALSE, statusAt |-> Never,
   scanClear |-> FALSE, scanAt |-> Never, streak |-> 0,
   command |-> Zero, commandAt |-> Never]

OperatorGuardRecord(Motion) ==
  [armed : BOOLEAN, selected : BOOLEAN, fit : BOOLEAN, statusAt : Int,
   scanClear : BOOLEAN, scanAt : Int, streak : 0 .. StopHits,
   command : SUBSET Motion, commandAt : Int]

-----------------------------------------------------------------------------
Disarm(g) == [g EXCEPT !.armed = FALSE, !.command = Zero, !.commandAt = Never]

\* What the robot may report: nothing usable, or a complete status.
Status == {[complete |-> FALSE, selected |-> FALSE, fit |-> FALSE]}
            \cup {s \in [complete : {TRUE}, selected : BOOLEAN, fit : BOOLEAN] :
                     s.fit => s.selected}

UpdateStatus(g, s, now) ==
  LET h == [g EXCEPT !.selected = s.selected, !.fit = s.fit,
                     !.statusAt = IF s.complete THEN now ELSE @]
  IN  IF s.fit THEN h ELSE Disarm(h)

StatusProblem(g, now) == ~g.fit \/ Stale(g.statusAt, StatusTimeout, now)

\* The streak is kept up to StopHits, above which it makes no difference.
UpdateScan(g, valid, clear, now) ==
  LET hit == valid /\ ~clear
      streak == IF ~hit THEN 0 ELSE IF g.streak < StopHits THEN g.streak + 1 ELSE StopHits
      h == [g EXCEPT !.scanClear = valid /\ clear,
                     !.scanAt = IF valid THEN now ELSE @,
                     !.streak = streak]
  IN  IF (valid /\ clear) \/ (hit /\ streak < StopHits) THEN h ELSE Disarm(h)

ScanProblem(g, now) == ~g.scanClear \/ Stale(g.scanAt, ScanTimeout, now)

\* A request is latched only while armed; its time is noted anyway.
UpdateCommand(g, velocity, now) ==
  [g EXCEPT !.commandAt = now, !.command = IF g.armed THEN velocity ELSE @]

CommandProblem(g, now) == Stale(g.commandAt, CommandTimeout, now)

ArmProblem(g, needCommand, now) ==
  StatusProblem(g, now) \/ ScanProblem(g, now) \/ (needCommand /\ CommandProblem(g, now))

Arm(g, needCommand, now) ==
  IF ArmProblem(g, needCommand, now) THEN Disarm(g)
  ELSE [g EXCEPT !.armed = TRUE, !.command = Zero, !.commandAt = now]

OutputProblem(g, now) ==
  StatusProblem(g, now) \/ ScanProblem(g, now) \/ CommandProblem(g, now)

\* output(): the velocity that passes, and the guard afterwards.
Passed(g, now) == IF g.armed /\ ~OutputProblem(g, now) THEN g.command ELSE Zero

Output(g, now) == IF g.armed /\ OutputProblem(g, now) THEN Disarm(g) ELSE g
=============================================================================
