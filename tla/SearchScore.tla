----------------------------- MODULE SearchScore -----------------------------
(***************************************************************************)
(* SearchScore and its comparison (FrontierSearch.h, FR-43).  The third    *)
(* key, the representation cost, is left out: enumerateRepresentations     *)
(* knows one choice per item and its cost is zero.                         *)
(***************************************************************************)
EXTENDS Naturals

Score == [imported : BOOLEAN, ported : Nat, stubbed : Nat]

(* A state that does not import loses to one that does, at any counts.     *)
IsBetterThan(a, b) ==
  IF a.imported # b.imported THEN a.imported
  ELSE \/ a.ported > b.ported
       \/ a.ported = b.ported /\ a.stubbed < b.stubbed
=============================================================================
