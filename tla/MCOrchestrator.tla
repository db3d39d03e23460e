--------------------------- MODULE MCOrchestrator ----------------------------
(***************************************************************************)
(* Small plans for TLC.  Each plan is given by its step table; the action  *)
(* names are two, one of which lower-cases to a controlled action.         *)
(***************************************************************************)
EXTENDS OrchestratorInvariant, TLC

CONSTANTS m1, m2, a, b, c, d    \* model values

(* Workers are alike: sound for invariants and action properties, and used *)
(* by no run that checks liveness.                                         *)
AlikeWorkers == Permutations(Executors)

MCLowerCase == [n \in {"analysis", "Deploy"} |->
                   IF n = "Deploy" THEN "deploy" ELSE n]

(***************************************************************************)
(*     a (low, analysis) --> b (low, Deploy) --+                           *)
(*                                             +--> d (low, analysis)      *)
(*     c (medium, analysis) -------------------+                           *)
(* Runs take a subset of the steps, closed under dependencies.             *)
(***************************************************************************)
MCDependsOn == [s \in Steps |-> CASE s = b -> {a} [] s = d -> {b, c}
                                   [] OTHER -> {}]
MCPosition == [s \in Steps |-> CASE s = a -> 0 [] s = b -> 1
                                  [] s = c -> 2 [] s = d -> 3]
MCRisk == [s \in Steps |-> IF s = c THEN "medium" ELSE "low"]
MCAction == [s \in Steps |-> IF s = b THEN "Deploy" ELSE "analysis"]

(* All steps in one mission, or c in a mission of its own *)
OneMission == [s \in Steps |-> m1]
TwoMissions == [s \in Steps |-> IF s = c THEN m2 ELSE m1]
===============================================================================
