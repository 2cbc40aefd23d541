-------------------------- MODULE MCOptimizerHarness --------------------------
(***************************************************************************)
(* Six versions of the emitter: the first champion; one that lowers the     *)
(* train slice at the expense of the held-out slice; one that lowers the    *)
(* train slice alone; one that lowers both; one that silences the lints;    *)
(* and one the oracle refuses.                                             *)
(***************************************************************************)
EXTENDS OptimizerHarness

MCEmitter == {"first", "overfit", "better", "best", "silenced", "red"}
MCSound == MCEmitter \ {"red"}

(* The better one shifts a golden; the best one shifts it again.            *)
MCGolden == [e \in MCEmitter |-> IF e \in {"better", "best"} THEN e ELSE "first"]

MCAllow == [e \in MCEmitter |-> IF e = "silenced" THEN {"crate", "lint"} ELSE {"crate"}]

MCWarnings ==
  [e \in MCEmitter |->
     CASE e = "first" -> [train |-> 3, held |-> 2]
       [] e = "overfit" -> [train |-> 1, held |-> 3]
       [] e = "better" -> [train |-> 2, held |-> 2]
       [] e = "best" -> [train |-> 1, held |-> 1]
       [] OTHER -> [train |-> 0, held |-> 0]]
=============================================================================
