----------------------------- MODULE PoisonRules -----------------------------
(***************************************************************************)
(* The poison rules of the item coloring (lib/Project/ItemColoring.cpp) as *)
(* plain operators over an item graph: which edges carry poison, which Red *)
(* items a stub can stand in for, what it means for a pair of sets to be   *)
(* closed under the two rules of runColorFixpoint, and the least such      *)
(* pair.  ItemColoring computes that pair step by step; FrontierSearch     *)
(* recolors with it.                                                       *)
(*                                                                         *)
(* An item is a natural number: its place in the order of the symbols, the *)
(* only thing the analysis ever asks of a symbol.                          *)
(***************************************************************************)
EXTENDS Integers

CONSTANTS
  Item,          \* the nodes of the item graph
  KindOf         \* the kind of each item

ItemKind == {"function", "record", "enum", "global"}

ASSUME ItemAssumption ==
  /\ Item \subseteq Nat \ {0}
  /\ KindOf \in [Item -> ItemKind]

NoTarget == 0    \* the empty target of a CallsIndirect edge

-----------------------------------------------------------------------------
(* Edge kinds, with the enumerator value the successor order compares.     *)

KindValue ==
  [Calls |-> 0, CallsIndirect |-> 1, SigType |-> 2, BodyType |-> 3,
   Field |-> 4, Base |-> 5, ReadsGlobal |-> 6, WritesGlobal |-> 7,
   TakesAddressOf |-> 8, FieldIndirect |-> 9, AddressOfGlobal |-> 10]

EdgeKind == DOMAIN KindValue

CallKinds   == {"Calls", "TakesAddressOf"}
TypeKinds   == {"SigType", "BodyType", "Field", "Base", "FieldIndirect"}
GlobalKinds == {"ReadsGlobal", "WritesGlobal", "AddressOfGlobal"}

(* What a graph edge may look like: CallsIndirect has no target, and every *)
(* other kind points at an item of the kind its name says.                 *)
WellFormedEdge(e) ==
  /\ e \in [from : Item, kind : EdgeKind, to : Item \union {NoTarget}]
  /\ (e.to = NoTarget) <=> (e.kind = "CallsIndirect")
  /\ e.kind \in CallKinds => KindOf[e.to] = "function"
  /\ e.kind \in TypeKinds => KindOf[e.to] \in {"record", "enum"}
  /\ e.kind \in GlobalKinds => KindOf[e.to] = "global"

(* The edges that resolve to a successor; the untargeted ones are dropped. *)
Resolved(edges) == {e \in edges : e.to # NoTarget}

PoisonBearing(kind) == kind # "FieldIndirect"

(* A mistake: taking a dropped type or global for something stubbed.       *)
StubReplaceableAnyKind(n, unsignable) == n \notin unsignable

StubReplaceable(n, unsignable) ==
  KindOf[n] = "function" /\ n \notin unsignable

(* Whether n poisons its dependents Red: Red, and no stub can replace it.  *)
Unstubbed(n, red, unsignable) ==
  n \in red /\ ~StubReplaceable(n, unsignable)

PoisonsRed(e, red, unsignable) ==
  PoisonBearing(e.kind) /\ Unstubbed(e.to, red, unsignable)

RedReasonFor(kind) ==
  CASE kind \in CallKinds \union {"CallsIndirect"} -> "red-callee"
    [] kind \in TypeKinds   -> "red-type"
    [] kind \in GlobalKinds -> "red-global"

-----------------------------------------------------------------------------
(* The fixpoint the two rules define.                                      *)

(* R and B contain the seeds and neither rule can add to them.             *)
Closed(edges, seeds, badSigs, R, B) ==
  /\ seeds \subseteq R
  /\ badSigs \subseteq B
  /\ \A e \in Resolved(edges) :
        /\ PoisonsRed(e, R, B) => e.from \in R
        /\ (e.kind = "SigType" /\ e.to \in R) => e.from \in B

LeastRed(edges, seeds, badSigs) ==
  {n \in Item : \A R, B \in SUBSET Item :
                   Closed(edges, seeds, badSigs, R, B) => n \in R}

LeastUnsignable(edges, seeds, badSigs) ==
  {n \in Item : \A R, B \in SUBSET Item :
                   Closed(edges, seeds, badSigs, R, B) => n \in B}
=============================================================================
