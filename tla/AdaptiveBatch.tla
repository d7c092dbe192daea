---- MODULE AdaptiveBatch ----
(***************************************************************************)
(* The adaptive batch size that every enrichment stage keeps               *)
(* (pipeline/src/enrichment/adaptive-batch.ts): it starts at the maximum,  *)
(* is halved by a server error and grows back by a quarter of the maximum  *)
(* after RecoveryThreshold successes in a row.                             *)
(***************************************************************************)
EXTENDS Naturals

CONSTANTS
  BatchMax,          \* the constructor's max: 60, 100 or 50 in the stages
  BatchMin,          \* the constructor's min: 5 in every stage
  RecoveryThreshold  \* successes in a row before the size grows: 3 by default

ASSUME BatchAssumption ==
  /\ BatchMax \in Nat \ {0} /\ BatchMin \in Nat \ {0} /\ BatchMin <= BatchMax
  /\ RecoveryThreshold \in Nat \ {0}

\* The reachable objects: a size between the bounds and a streak of successes
\* short of the threshold.
AdaptiveBatches == [size : BatchMin .. BatchMax, streak : 0 .. RecoveryThreshold - 1]

\* new AdaptiveBatch({ max, min })
Fresh == [size |-> BatchMax, streak |-> 0]

Lesser(a, b) == IF a < b THEN a ELSE b
Greater(a, b) == IF a > b THEN a ELSE b

\* Math.max(1, Math.ceil(max * 0.25))
GrowthStep == Greater(1, (BatchMax + 3) \div 4)

\* Mutant of OnSuccess: grows past the maximum.
OnSuccessUncapped(b) ==
  IF b.streak + 1 >= RecoveryThreshold
  THEN [size |-> b.size + GrowthStep, streak |-> 0]
  ELSE [b EXCEPT !.streak = b.streak + 1]

OnSuccess(b) ==
  IF b.size >= BatchMax THEN [b EXCEPT !.streak = 0]
  ELSE IF b.streak + 1 >= RecoveryThreshold
       THEN [size |-> Lesser(BatchMax, b.size + GrowthStep), streak |-> 0]
       ELSE [b EXCEPT !.streak = b.streak + 1]

OnServerError(b) == [size |-> Greater(BatchMin, b.size \div 2), streak |-> 0]

====
