--------------------------- MODULE ColoringPromise ---------------------------
(***************************************************************************)
(* What computeColoring promises its callers (ItemColoring.h,              *)
(* "Determinism"): one answer per graph and set of seeds, the least sets   *)
(* the two poison rules admit, given once and never revised.  How many     *)
(* passes it takes and in which order it looks at the edges is not part of *)
(* the promise.                                                            *)
(***************************************************************************)
EXTENDS PoisonRules

VARIABLES
  edges,      \* the graph's edges
  rejected,   \* <<item, tag, signature level>> for every construct rejected
  answer      \* the pair of sets, once they are decided

vars == <<edges, rejected, answer>>

Undecided == [decided |-> FALSE, red |-> {}, unsignable |-> {}]

Seeds   == {n \in Item : \E r \in rejected : r[1] = n}
BadSigs == {n \in Item : \E r \in rejected : r[1] = n /\ r[3]}

Init == answer = Undecided

Decide ==
  /\ answer = Undecided
  /\ answer' = [decided    |-> TRUE,
                red        |-> LeastRed(edges, Seeds, BadSigs),
                unsignable |-> LeastUnsignable(edges, Seeds, BadSigs)]
  /\ UNCHANGED <<edges, rejected>>

Spec == Init /\ [][Decide]_vars
=============================================================================
