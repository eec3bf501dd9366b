-------------------------- MODULE ResourceGovernor --------------------------
(***************************************************************************)
(* The resource governor of the failure explorer: each sample of the host  *)
(* and of the local activity moves the budget mode.  A sample is           *)
(* abstracted to what the thresholds make of it:                           *)
(*   "unknown"   no sample                                                 *)
(*   "critical"  memory or commit headroom almost gone; it is high as well *)
(*   "high"      pressure, or contention the host's own CPU confirms       *)
(*   "clear"     well below every threshold, with a known CPU load         *)
(*   "between"   none of these, such as a first sample without CPU load    *)
(***************************************************************************)
EXTENDS Naturals, Sequences

CONSTANTS
  HighLimit,   \* 3 high samples in a row reduce the budget
  ClearLimit,  \* 5 clear samples in a row restore it
  MaxSamples   \* bound of the exploration

ASSUME GovernorAssumption ==
  HighLimit \in Nat \ {0} /\ ClearLimit \in Nat \ {0} /\ MaxSamples \in Nat

Samples == {"unknown", "critical", "high", "clear", "between"}

VARIABLES mode, highSamples, clearSamples,
          history   \* the samples so far
governorVars == <<mode, highSamples, clearSamples, history>>

GovernorInit ==
  mode = "normal" /\ highSamples = 0 /\ clearSamples = 0 /\ history = <<>>

IsHigh(sample) == sample \in {"critical", "high"}

Count(sample) ==
  /\ highSamples' = IF IsHigh(sample) THEN highSamples + 1 ELSE 0
  /\ clearSamples' = IF sample = "clear" THEN clearSamples + 1 ELSE 0

(* choose.                                                                 *)
Choose(sample) ==
  /\ Len(history) < MaxSamples /\ history' = Append(history, sample)
  /\ Count(sample)
  /\ mode' = CASE sample = "unknown"                              -> "conservative_unknown"
               [] sample = "critical"                             -> "critical_pressure"
               [] sample = "high" /\ highSamples' >= HighLimit    -> "sustained_pressure"
               [] sample = "clear" /\ clearSamples' >= ClearLimit -> "normal"
               [] OTHER                                           -> mode

(* The budget: failure cases per batch and seconds between two batches.    *)
Cases(m) == IF m = "normal" THEN 16 ELSE 1
Pause(m) == CASE m = "normal" -> 1 [] m = "critical_pressure" -> 5 [] OTHER -> 3

GovernorNext == \E sample \in Samples : Choose(sample)
GovernorSpec == GovernorInit /\ [][GovernorNext]_governorVars

-----------------------------------------------------------------------------
RunOf(kinds, length, i) ==
  i >= length /\ \A k \in (i - length + 1)..i : history[k] \in kinds

(* What takes the full budget away at the i-th sample, and what gives it   *)
(* back.                                                                   *)
Reduces(i) ==
  history[i] \in {"unknown", "critical"} \/ RunOf({"critical", "high"}, HighLimit, i)
RestoresBudget(i) == RunOf({"clear"}, ClearLimit, i)

(* The full budget is in force exactly when no sample has taken it away    *)
(* since the start or since the last complete run of clear samples: no     *)
(* mixture of samples earns it earlier or loses it later.                  *)
FullBudgetEarned ==
  (Cases(mode) = 16) <=>
    \A i \in 1..Len(history) :
      Reduces(i) => \E k \in (i + 1)..Len(history) : RestoresBudget(k)

(* The longest pause answers a critical sample that nothing later changed. *)
LongestPauseIsCritical ==
  Pause(mode) = 5 =>
    \E i \in 1..Len(history) :
      /\ history[i] = "critical"
      /\ \A k \in (i + 1)..Len(history) : ~Reduces(k) /\ ~RestoresBudget(k)

GovernorHolds ==
  /\ highSamples \in 0..MaxSamples /\ clearSamples \in 0..MaxSamples
  /\ FullBudgetEarned /\ LongestPauseIsCritical
=============================================================================
