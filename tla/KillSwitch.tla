----------------------------- MODULE KillSwitch -----------------------------
(***************************************************************************)
(* The persistent half of one group's killswitch (dubu-updater risk.rs):   *)
(* the latch, why it was set, and the gross trade loss that counts against *)
(* the budget. A latch is a record; each operator is one method of         *)
(* KillSwitch, giving the record it leaves in memory. Whether that record  *)
(* also reaches the disk is the caller's business.                         *)
(***************************************************************************)
EXTENDS Integers

CONSTANTS
  BleedLimit,     \* risk.bleed_limit, in quote units
  LossBudget,     \* risk.loss_budget, in quote units
  Shadow          \* risk.shadow: measure but never latch on a verdict

ASSUME LimitsAssumption ==
  /\ BleedLimit \in Nat \ {0}
  /\ LossBudget \in Nat \ {0}
  /\ Shadow \in BOOLEAN

\* What halt_reason says, as far as is_liveness_only tells reasons apart.
Causes == {"none", "bleed", "budget", "liveness"}

Latches == [halted : BOOLEAN, cause : Causes, loss : Nat]

FreshLatch == [halted |-> FALSE, cause |-> "none", loss |-> 0]

IsLivenessOnly(s) == s.halted /\ s.cause = "liveness"

\* The first halt wins: a latched switch keeps the reason it has.
Halted(s, cause) ==
  IF s.halted THEN s ELSE [s EXCEPT !.halted = TRUE, !.cause = cause]

(* Faulty: a resume starts over. *)
ResumedFresh(s) == FreshLatch

\* Clears the latch and its reason, never what was measured.
Resumed(s) == [s EXCEPT !.halted = FALSE, !.cause = "none"]

\* Gross: only a loss moves the total.
Accumulated(s, pnl) ==
  IF pnl < 0 THEN [s EXCEPT !.loss = @ - pnl] ELSE s

(* Faulty: the budget must be exceeded. *)
VerdictWhenExceeded(s, drawdown) ==
  IF drawdown >= BleedLimit THEN "bleed"
  ELSE IF s.loss > LossBudget THEN "budget"
  ELSE "none"

\* Bleed is looked at first.
Verdict(s, drawdown) ==
  IF drawdown >= BleedLimit THEN "bleed"
  ELSE IF s.loss >= LossBudget THEN "budget"
  ELSE "none"

\* observe: a latched switch's numbers stop moving; a seed attributes nothing;
\* a verdict latches unless the switch only shadows.
Observed(s, seeded, pnl, drawdown) ==
  IF s.halted THEN s
  ELSE LET counted == IF seeded THEN s ELSE Accumulated(s, pnl)
           verdict == Verdict(counted, drawdown)
       IN IF Shadow \/ verdict = "none" THEN counted ELSE Halted(counted, verdict)
=============================================================================
