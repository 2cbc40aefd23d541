------------------------------ MODULE MCServices ------------------------------
(***************************************************************************)
(* Two services around the transpiler, the web compile service and the      *)
(* improvement loop.  They share no state: in every behavior one of them    *)
(* runs and the other one never starts.                                    *)
(***************************************************************************)
EXTENDS MCWebService, MCOptimizerHarness

VARIABLE running     \* the service that runs

ServicesInit == running \in {"web", "harness"} /\ Init /\ HarnessInit

ServicesNext ==
  \/ running = "web" /\ Next /\ UNCHANGED <<running, harnessVars>>
  \/ running = "harness" /\ HarnessNext /\ UNCHANGED <<running, vars>>

(* The event loop is fair; nothing makes the improvement loop go on.        *)
ServicesSpec ==
  /\ ServicesInit /\ [][ServicesNext]_<<running, vars, harnessVars>>
  /\ Fairness
=============================================================================
