---------------------------- MODULE FrontierSearch ----------------------------
(***************************************************************************)
(* The best-first search over admitted item sets of                        *)
(* lib/Project/FrontierSearch.cpp.  A state is the set of the admitted     *)
(* items.  One step probes the first pending state; the steps after it try *)
(* the repairs that probe suggested, one at a time: drop, recolor, prune   *)
(* or queue.                                                               *)
(*                                                                         *)
(* The probe is the injected ProbeFn, and ANY outcome may come back from   *)
(* it: no state is probed twice, so an outcome per probe is an outcome per *)
(* state.                                                                  *)
(***************************************************************************)
EXTENDS PoisonRules, SearchScore, FiniteSets, Sequences

CONSTANTS
  Edges,            \* the edges of the item graph
  Defined,          \* the items some translation unit defines
  External,         \* the items with external linkage, and main
  FileOf, LineOf,   \* where each item is declared
  MaxNodes,         \* --max-search-nodes
  PossibleSeeds,    \* what the coloring probe may have rejected
  Outcomes          \* what an import attempt may report

NoSymbol == 0       \* a failure that names no symbol
Foreign  == -1      \* a failure that names a symbol the graph does not know

Outcome ==
  [imported : BOOLEAN, ported : Nat, stubbed : Nat, rejected : SUBSET Item,
   symbol : Item \union {NoSymbol, Foreign}, file : Nat, line : Nat]

ASSUME GraphAssumption ==
  /\ IsFiniteSet(Item)
  /\ \A e \in Edges : WellFormedEdge(e)
  /\ Defined \subseteq Item /\ External \subseteq Item
  /\ FileOf \in [Item -> Nat] /\ LineOf \in [Item -> Nat]
  /\ MaxNodes \in Nat
  /\ PossibleSeeds \subseteq Item
  /\ Outcomes \subseteq Outcome

VARIABLES
  seeds, badSigs,    \* the input: inadmissible items, at signature level
  phase,             \* "probe", "expand" or "done"
  nodes,             \* the probed states, in probe order; ids count from 0
  frontier,          \* the states waiting to be probed
  seen,              \* the states ever queued
  todo,              \* the repairs of the last node not tried yet
  best,              \* the winner so far
  baseline,          \* the score and the id of the admit-everything probe
  generated, pruned, \* how many states were made, how many thrown away
  stopReason

vars == <<seeds, badSigs, phase, nodes, frontier, seen, todo, best, baseline,
          generated, pruned, stopReason>>

-----------------------------------------------------------------------------
(* States.                                                                 *)

(* computeColoring's verdict for every set of seeds.                       *)
Coloring ==
  [s \in SUBSET Item |->
     [b \in SUBSET Item |-> Item \ LeastRed(Edges, s, b)]]

(* A mistake: a dropped function loses its stub as well.                   *)
StateFromColoringStubless(drops) == Coloring[seeds \union drops][badSigs \union drops]

(* Every item that stays Green or Yellow when `drops` are seeds as well;   *)
(* a drop is not a signature-level rejection, so a function keeps its stub.*)
StateFromColoring(drops) == Coloring[seeds \union drops][badSigs]

RootState == StateFromColoring({})
BaselineState == Item
BaselineIsRoot == RootState = BaselineState

Budget ==
  LET floor == IF BaselineIsRoot THEN 1 ELSE 2
  IN IF MaxNodes < floor THEN floor ELSE MaxNodes

SearchRoots == Defined \intersect External

(* The items a path of at most k edges leads to from a root.               *)
Within[k \in Nat] ==
  IF k = 0 THEN SearchRoots
  ELSE Within[k - 1] \union
       {e.to : e \in {f \in Resolved(Edges) : f.from \in Within[k - 1]}}

Far == Cardinality(Item)      \* no root reaches it: beyond every distance

RootDistances ==
  [n \in Item |->
     LET ks == {k \in 0 .. Far - 1 : n \in Within[k]}
     IN IF ks = {} THEN Far ELSE CHOOSE k \in ks : \A j \in ks : k <= j]

-----------------------------------------------------------------------------
(* Repairs.                                                                *)

Repair(drops, why, rank) == [drops |-> drops, why |-> why, rank |-> rank]

(* A multi-item repair is as load-bearing as its most load-bearing member. *)
CandidateDistance(c) ==
  LET ds == {RootDistances[n] : n \in c.drops}
  IN CHOOSE d \in ds : \A x \in ds : d <= x

(* The order of the labels "<first>" and "<first>+<k>".                    *)
LabelBefore(s, t) ==
  LET first(u) == CHOOSE n \in u : \A m \in u : n <= m
  IN \/ first(s) < first(t)
     \/ first(s) = first(t) /\ Cardinality(s) < Cardinality(t)

CandidateBefore(c, d) ==
  IF c.rank # d.rank THEN c.rank < d.rank
  ELSE IF CandidateDistance(c) # CandidateDistance(d)
       THEN CandidateDistance(c) > CandidateDistance(d)
       ELSE LabelBefore(c.drops, d.drops)

(* One repair per set of drops: the one that comes first.                  *)
Unique(repairs) ==
  {c \in repairs : \A d \in repairs : d.drops = c.drops => ~CandidateBefore(d, c)}

Undefined(admitted) == admitted \ Defined

(* The failure names a symbol: drop every admitted declaration without a   *)
(* definition, or the named definition, or one referrer of any of them.    *)
BlameSymbol(admitted, symbol) ==
  LET named  == {symbol} \intersect (admitted \intersect Defined)
      blamed == Undefined(admitted) \union named
      referrers == {e.from : e \in {f \in Edges : f.to \in blamed /\ f.from \in admitted}}
  IN {Repair({n}, "blamed", 1) : n \in named \union referrers}
     \union {Repair(u, "blamed", 0) : u \in {Undefined(admitted)} \ {{}}}

(* The failure only has a location: drop the item declared last before it. *)
BlamePlace(admitted, file, line) ==
  LET before == {n \in admitted : FileOf[n] = file /\ LineOf[n] <= line}
      enclosing == {n \in before : \A m \in before :
                      LineOf[m] < LineOf[n] \/ (LineOf[m] = LineOf[n] /\ n <= m)}
  IN IF file # 0 /\ line # 0 THEN {Repair({n}, "blamed", 1) : n \in enclosing} ELSE {}

BlameCandidates(admitted, o) ==
  IF o.symbol # NoSymbol /\ BlameSymbol(admitted, o.symbol) # {}
  THEN BlameSymbol(admitted, o.symbol)
  ELSE BlamePlace(admitted, o.file, o.line)

(* A mistake: act on every rejection, on items already given up as well.   *)
CandidatesOfAll(admitted, o) ==
  Unique(IF o.imported THEN {Repair({n}, "learned", 1) : n \in o.rejected}
         ELSE BlameCandidates(admitted, o))

(* A successful import teaches its rejections, a failed one is blamed.     *)
Candidates(admitted, o) ==
  Unique(IF o.imported
         THEN {Repair({n}, "learned", 1) : n \in o.rejected \intersect admitted}
         ELSE BlameCandidates(admitted, o))

-----------------------------------------------------------------------------
(* The frontier.                                                           *)

SetBefore(s, t) == \E n \in s \ t : \A m \in t \ s : n < m

(* Best parent, complete repair, most items, furthest drop, signature.     *)
PendingBefore(p, q) ==
  IF IsBetterThan(p.parentScore, q.parentScore) THEN TRUE
  ELSE IF IsBetterThan(q.parentScore, p.parentScore) THEN FALSE
  ELSE IF p.rank # q.rank THEN p.rank < q.rank
  ELSE IF Cardinality(p.admitted) # Cardinality(q.admitted)
       THEN Cardinality(p.admitted) > Cardinality(q.admitted)
  ELSE IF p.distance # q.distance THEN p.distance > q.distance
  ELSE SetBefore(p.admitted, q.admitted)

NoScore == [imported |-> FALSE, ported |-> 0, stubbed |-> 0]

Pending(score, parent, why, rank, distance, drops, admitted) ==
  [parentScore |-> score, parent |-> parent, why |-> why, rank |-> rank,
   distance |-> distance, drops |-> drops, admitted |-> admitted]

(* A mere declaration has no body: what is wrong with it is its signature. *)
Init ==
  /\ seeds \in SUBSET PossibleSeeds
  /\ badSigs \in SUBSET seeds /\ seeds \ Defined \subseteq badSigs
  /\ phase = "probe"
  /\ nodes = <<>>
  /\ frontier = {Pending(NoScore, 0, "", 0, Far, {}, RootState)}
  /\ seen = {RootState}
  /\ todo = {}
  /\ best = [admitted |-> {}, score |-> NoScore, node |-> 0]
  /\ baseline = [score |-> NoScore, node |-> 0]
  /\ generated = 1 /\ pruned = 0
  /\ stopReason = ""

-----------------------------------------------------------------------------
(* One turn of the loop: probe, keep the best, queue the baseline.         *)

ScoreOf(o) == [imported |-> o.imported, ported |-> o.ported, stubbed |-> o.stubbed]

(* A mistake: only the ported items are compared.                          *)
KeepBestByPorted(id, p, score) ==
  IF id = 0 \/ score.ported > best.score.ported
  THEN best' = [admitted |-> p.admitted, score |-> score, node |-> id]
  ELSE UNCHANGED best

KeepBest(id, p, score) ==
  IF id = 0 \/ IsBetterThan(score, best.score)
  THEN best' = [admitted |-> p.admitted, score |-> score, node |-> id]
  ELSE UNCHANGED best

(* A mistake: only a baseline probed on its own is remembered.             *)
KeepBaselineAlone(id, p, score) ==
  IF p.why = "baseline"
  THEN baseline' = [score |-> score, node |-> id]
  ELSE UNCHANGED baseline

KeepBaseline(id, p, score) ==
  IF p.why = "baseline" \/ (id = 0 /\ BaselineIsRoot)
  THEN baseline' = [score |-> score, node |-> id]
  ELSE UNCHANGED baseline

QueueBaseline(id, score, rest) ==
  IF id = 0 /\ ~BaselineIsRoot
  THEN /\ frontier' = rest \union
            {Pending(score, 0, "baseline", 0, Far, {}, BaselineState)}
       /\ seen' = seen \union {BaselineState}
       /\ generated' = generated + 1
  ELSE frontier' = rest /\ UNCHANGED <<seen, generated>>

Probe(p, o) ==
  LET id == Len(nodes)
      score == ScoreOf(o)
  IN /\ phase = "probe" /\ id < Budget
     /\ p \in frontier /\ \A q \in frontier : ~PendingBefore(q, p)
     /\ nodes' = Append(nodes, [pending |-> p, outcome |-> o, score |-> score])
     /\ KeepBest(id, p, score)
     /\ KeepBaseline(id, p, score)
     /\ QueueBaseline(id, score, frontier \ {p})
     /\ todo' = Candidates(p.admitted, o)
     /\ phase' = "expand"
     /\ UNCHANGED <<seeds, badSigs, pruned, stopReason>>

-----------------------------------------------------------------------------
(* The repairs of the node just probed, in order.                          *)

Last == nodes[Len(nodes)]

ChildDrops(c) == Last.pending.drops \union c.drops

(* Pruned as "empty" or as "memoized".                                     *)
Known(child) == child = Last.pending.admitted \/ child \in seen

TryCandidate(c) ==
  LET drops == ChildDrops(c)
      child == StateFromColoring(drops)
  IN /\ phase = "expand"
     /\ c \in todo /\ \A d \in todo : ~CandidateBefore(d, c)
     /\ todo' = todo \ {c}
     /\ IF c.drops \subseteq Last.pending.drops
        THEN UNCHANGED <<generated, pruned, seen, frontier>>
        ELSE /\ generated' = generated + 1
             /\ IF Known(child)
                THEN pruned' = pruned + 1 /\ UNCHANGED <<seen, frontier>>
                ELSE /\ seen' = seen \union {child}
                     /\ frontier' = frontier \union
                          {Pending(Last.score, Len(nodes) - 1, c.why, c.rank,
                                   CandidateDistance(c), drops, child)}
                     /\ UNCHANGED pruned
     /\ UNCHANGED <<seeds, badSigs, phase, nodes, best, baseline, stopReason>>

EndExpansion ==
  /\ phase = "expand" /\ todo = {}
  /\ phase' = "probe"
  /\ UNCHANGED <<seeds, badSigs, nodes, frontier, seen, todo, best, baseline,
                 generated, pruned, stopReason>>

(* The two ways out of the loop.                                           *)
Stop ==
  /\ phase = "probe"
  /\ \/ frontier = {} /\ stopReason' = "exhausted"
     \/ frontier # {} /\ Len(nodes) >= Budget /\ stopReason' = "node-budget"
  /\ phase' = "done"
  /\ UNCHANGED <<seeds, badSigs, nodes, frontier, seen, todo, best, baseline,
                 generated, pruned>>

Next ==
  \/ \E p \in frontier, o \in Outcomes : Probe(p, o)
  \/ \E c \in todo : TryCandidate(c)
  \/ EndExpansion
  \/ Stop

Spec == Init /\ [][Next]_vars

-----------------------------------------------------------------------------
(* Properties.                                                             *)

Why == {"", "baseline", "learned", "blamed"}

PendingState ==
  [parentScore : Score, parent : Nat, why : Why, rank : {0, 1},
   distance : 0 .. Far, drops : SUBSET Item, admitted : SUBSET Item]

Node == [pending : PendingState, outcome : Outcome, score : Score]

(* Every variable keeps its type.                                          *)
TypeOK ==
  /\ seeds \subseteq Item /\ badSigs \subseteq Item
  /\ phase \in {"probe", "expand", "done"}
  /\ nodes \in Seq(Node)
  /\ frontier \subseteq PendingState
  /\ seen \subseteq SUBSET Item
  /\ todo \subseteq [drops : SUBSET Item, why : Why, rank : {0, 1}]
  /\ best \in [admitted : SUBSET Item, score : Score, node : Nat]
  /\ baseline \in [score : Score, node : Nat]
  /\ generated \in Nat /\ pruned \in Nat
  /\ stopReason \in {"", "node-budget", "exhausted"}

Admitted(i) == nodes[i].pending.admitted

(* The bound on imports: no state is probed twice, however many repairs    *)
(* lead to it, and --max-search-nodes is kept, up to the two probes FR-50  *)
(* insists on ("memoization stops the same set from ever being probed      *)
(* twice").                                                                *)
NoStateProbedTwice ==
  /\ \A i, j \in DOMAIN nodes : Admitted(i) = Admitted(j) => i = j
  /\ \A i \in DOMAIN nodes, p \in frontier : Admitted(i) # p.admitted
  /\ Len(nodes) <= Budget

(* The admit-everything state, when it is not the root, is node 1, whatever*)
(* repairs the root's probe put in the frontier beside it.                 *)
BaselineIsNodeOne ==
  (Len(nodes) >= 2 /\ ~BaselineIsRoot) =>
     nodes[2].pending.why = "baseline" /\ Admitted(2) = BaselineState

(* FR-50, SearchResult::atLeastBaseline, for ANY probe: the unrestricted   *)
(* import was measured, its score is the one published as the witness, and *)
(* the winner is no worse.                                                 *)
NeverWorseThanBaseline ==
  phase = "done" =>
    /\ baseline.node < Len(nodes)
    /\ Admitted(baseline.node + 1) = BaselineState
    /\ baseline.score = nodes[baseline.node + 1].score
    /\ ~IsBetterThan(baseline.score, best.score)

(* The winner is the FIRST of the best probed states, with its own score.  *)
BestIsFirstMaximum ==
  nodes # <<>> =>
    /\ best.node < Len(nodes)
    /\ best.admitted = Admitted(best.node + 1)
    /\ best.score = nodes[best.node + 1].score
    /\ \A i \in DOMAIN nodes :
         /\ ~IsBetterThan(nodes[i].score, best.score)
         /\ i <= best.node => IsBetterThan(best.score, nodes[i].score)

(* "Every child of a state ADMITS STRICTLY LESS than its parent": each     *)
(* repair gives something up, so the search cannot loop and the guards     *)
(* "already dropped on this path" and "empty" never fire.                  *)
RepairsGiveUpItems ==
  \A c \in todo :
    /\ ~(c.drops \subseteq Last.pending.drops)
    /\ StateFromColoring(ChildDrops(c)) \subseteq Last.pending.admitted
    /\ StateFromColoring(ChildDrops(c)) # Last.pending.admitted

(* Memoizing on the admitted set loses nothing: what a further drop leaves *)
(* depends on the items the drops so far have left, and not on which drops *)
(* they were.  (The input does not change: the first state speaks for all.)*)
MemoIsSound ==
  nodes = <<>> => \A d, c \in SUBSET Item :
    StateFromColoring(d \union c)
      = StateFromColoring((Item \ StateFromColoring(d)) \union c)

(* The search keeps its promise.                                           *)
Promise == INSTANCE SearchPromise WITH
  tried  <- {[state |-> Admitted(i), score |-> nodes[i].score] : i \in DOMAIN nodes},
  answer <- IF phase = "done" THEN {best.admitted} ELSE {}
KeepsPromise == Promise!Spec
=============================================================================
