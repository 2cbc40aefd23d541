---------------------------- MODULE SearchPromise ----------------------------
(***************************************************************************)
(* What `emitrust-cc --search` promises (FR-43, FR-50), free of frontiers, *)
(* repairs and colorings: partial ports are tried, each at most once, and  *)
(* the answer is one that no tried port beats; the port that admits every  *)
(* item, which is the plain incremental compile, is always tried.          *)
(***************************************************************************)
EXTENDS SearchScore

CONSTANT Item

VARIABLES
  tried,     \* the ports tried so far, each with its score
  answer     \* the set of the ports returned: none, then one

Init == tried = {} /\ answer = {}

Try ==
  /\ answer = {}
  /\ \E t \in tried' \ tried :
        /\ t \in [state : SUBSET Item, score : Score]
        /\ \A u \in tried : u.state # t.state
        /\ tried' = tried \union {t}
  /\ UNCHANGED answer

Answer ==
  /\ answer = {}
  /\ \E t \in tried : t.state = Item
  /\ \E t \in tried :
        /\ \A u \in tried : ~IsBetterThan(u.score, t.score)
        /\ answer' = {t.state}
  /\ UNCHANGED tried

Next == Try \/ Answer

vars == <<tried, answer>>

Spec == Init /\ [][Next]_vars
=============================================================================
