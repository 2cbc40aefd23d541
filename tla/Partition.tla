------------------------------- MODULE Partition -------------------------------
(***************************************************************************)
(* planPartition (tools/emitrust-cc/Partition.cpp): which unit goes to     *)
(* which crate of the Cargo workspace.  The code keeps a union-find over   *)
(* seeds whose root is the earliest seed; here a seed is its first unit,   *)
(* and crateOf maps every unit straight to its root.                       *)
(*                                                                         *)
(* The order of the forced condensations, the cycle a round finds and the  *)
(* order of the units are left open.                                       *)
(***************************************************************************)
EXTENDS LinkUnits

VARIABLES
  stage,      \* "forced", "condense" or "planned"
  forced,     \* the forced pairs of units not looked at yet
  crateOf     \* the root of each unit's seed

partitionVars == <<stage, forced, crateOf>>

Seed(u) == CHOOSE v \in Units : line[v].dir = line[u].dir /\ \A w \in Units : line[w].dir = line[u].dir => v <= w

(* Globals are never exported (FR-51), and an impl block lives in its      *)
(* type's crate; addresses are covered by their read.                      *)
ForcedPairs ==
  UNION {{<<u, FirstDef(e.to)>> : e \in {f \in Resolved(u) : f.kind \in {"ReadsGlobal", "WritesGlobal"}}}
           \union {<<u, FirstDef(r)>> : r \in line[u].impls \intersect Indexed} : u \in Units}

(* References between units, as the planner reads them off the texts, and  *)
(* between crates.                                                         *)
UnitRefs == UNION {{<<u, FirstDef(e.to)>> : e \in {f \in Resolved(u) : f.to \in Indexed}} : u \in Units}

Across(refs, at) == {<<at[r[1]], at[r[2]]>> : r \in {s \in refs : at[s[1]] # at[s[2]]}}

CrateEdges == Across(UnitRefs, crateOf)

(* The unit whose crate is the binary, if there is one.                    *)
BinUnits == {u \in Units : Main \in Indexed /\ u = FirstDef(Main)}

PartitionInit ==
  /\ stage = "forced" /\ forced = ForcedPairs
  /\ crateOf = [u \in Units |-> Seed(u)]

(* unite: the earliest root survives.                                      *)
Condensed(crates) ==
  [u \in Units |-> IF crateOf[u] \in crates THEN CHOOSE c \in crates : \A d \in crates : c <= d ELSE crateOf[u]]

Condense(crates) == crateOf' = Condensed(crates)

CondensePair ==
  /\ stage = "forced"
  /\ \E p \in forced :
       /\ Condense({crateOf[p[1]], crateOf[p[2]]})
       /\ forced' = forced \ {p}
  /\ stage' = stage

EndForced ==
  /\ stage = "forced" /\ forced = {}
  /\ stage' = "condense"
  /\ UNCHANGED <<forced, crateOf>>

(* A mistake: the whole path of the search, not its suffix from the target *)
(* of the back edge.                                                       *)
PathsIntoACycle ==
  {Range(c) : c \in {d \in UNION {Injection(1..n, Units) : n \in 2..Len(line)} :
                 /\ \A i \in 1..(Len(d) - 1) : <<d[i], d[i + 1]>> \in CrateEdges
                 /\ \E i \in 1..(Len(d) - 1) : <<d[Len(d)], d[i]>> \in CrateEdges}}

Cycles ==
  {Range(c) : c \in {d \in UNION {Injection(1..n, Units) : n \in 2..Len(line)} :
                 \A i \in 1..Len(d) : <<d[i], d[IF i = Len(d) THEN 1 ELSE i + 1]>> \in CrateEdges}}

CondenseCycle ==
  /\ stage = "condense"
  /\ \E c \in Cycles : Condense(c)
  /\ UNCHANGED <<stage, forced>>

BinInbound == {e[1] : e \in {d \in CrateEdges : \E b \in BinUnits : d[2] = crateOf[b]}}

(* A mistake: one round is taken for enough.                               *)
CondenseIntoBinOnce ==
  /\ stage = "condense" /\ Cycles = {} /\ BinInbound # {}
  /\ Condense(BinInbound \union {crateOf[b] : b \in BinUnits})
  /\ stage' = "planned"
  /\ UNCHANGED forced

(* Cargo cannot depend on a binary: whoever references it joins it.        *)
CondenseIntoBin ==
  /\ stage = "condense" /\ Cycles = {} /\ BinInbound # {}
  /\ Condense(BinInbound \union {crateOf[b] : b \in BinUnits})
  /\ UNCHANGED <<stage, forced>>

EndPartition ==
  /\ stage = "condense" /\ Cycles = {} /\ BinInbound = {}
  /\ stage' = "planned"
  /\ UNCHANGED <<forced, crateOf>>

PartitionNext == CondensePair \/ EndForced \/ CondenseCycle \/ CondenseIntoBin \/ EndPartition

-----------------------------------------------------------------------------
(* A workspace cargo accepts, over an assignment of the units and the      *)
(* references the linked program really makes.                             *)

RealRefs ==
  UNION {{<<u, Definer(u, e.to)>> : e \in {f \in Resolved(u) : f.to \in Indexed}} : u \in Units}

Splits(at) ==
  \E u \in Units :
    \/ \E e \in Text(u) : e.kind \in DataKinds /\ at[u] # at[Definer(u, e.to)]
    \/ \E r \in line[u].impls \intersect Indexed : at[u] # at[FirstDef(r)]

(* Every set of nodes has one without an edge into the set.                *)
Acyclic(nodes, edges) ==
  \A S \in SUBSET nodes : S # {} => \E n \in S : \A m \in S : <<n, m>> \notin edges

Buildable(refs, at) ==
  /\ Acyclic(Range(at), Across(refs, at))
  /\ \A e \in Across(refs, at), b \in BinUnits : e[2] # at[b]

(* FR-59: the planned crates form a DAG, none depends on the binary, no    *)
(* global and no impl block is cut off, whatever the program refers to.    *)
CargoCanBuild ==
  stage = "planned" => Buildable(RealRefs, crateOf) /\ ~Splits(crateOf)

Coarsenings ==
  {at \in [Units -> Units] :
     /\ \A u \in Units : at[u] <= u /\ at[at[u]] = at[u]
     /\ \A u, v \in Units : line[u].dir = line[v].dir => at[u] = at[v]}

(* Whatever other grouping of the directories the linked program could be  *)
(* built as keeps together all that the crates keep together.              *)
Needed ==
  \A at \in Coarsenings :
    Buildable(RealRefs, at) /\ ~Splits(at) => \A u, v \in Units : crateOf[u] = crateOf[v] => at[u] = at[v]

(* The texts tell the statics of two units apart.                          *)
StaticsSpelledApart ==
  \A u, v \in Units : u # v => line[u].defs \intersect line[v].defs \intersect Static = {}

(* FR-59: condensation, not failure, and no more of it than the program    *)
(* asks for, where no two units have statics of one spelling.              *)
CondensesNoMore == stage = "planned" /\ StaticsSpelledApart => Needed

(* Partition.h: "an internal-linkage symbol and its users can never face a *)
(* crate boundary".  So no condensation is for a static's sake, and the    *)
(* plan is as fine as the program allows whatever its statics are called.  *)
(* The code takes two statics of one spelling for one global that crosses. *)
StaticsFaceNoBoundary == stage = "planned" => Needed
=============================================================================
