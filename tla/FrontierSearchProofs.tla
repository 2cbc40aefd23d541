------------------------- MODULE FrontierSearchProofs -------------------------
(***************************************************************************)
(* Proofs about FrontierSearch, for every item graph, every coloring of it,*)
(* every budget and every probe.                                           *)
(***************************************************************************)
EXTENDS FrontierSearch, FiniteSetTheorems, SequenceTheorems, WellFoundedInduction, TLAPS

-----------------------------------------------------------------------------
(* States.                                                                 *)

InputOK == seeds \subseteq Item /\ badSigs \subseteq Item

LEMMA StateIs ==
  ASSUME InputOK, NEW d \in SUBSET Item
  PROVE  StateFromColoring(d) = Item \ LeastRed(Edges, seeds \union d, badSigs)
<1>1. seeds \union d \in SUBSET Item /\ badSigs \in SUBSET Item
  BY DEF InputOK
<1>2. QED
  BY <1>1 DEF StateFromColoring, Coloring

(* A further drop only takes items away.                                   *)
LEMMA DropsShrink ==
  ASSUME InputOK, NEW d \in SUBSET Item, NEW c \in SUBSET Item
  PROVE  StateFromColoring(d \union c) \subseteq StateFromColoring(d)
<1>1. \A R, B \in SUBSET Item :
         Closed(Edges, seeds \union (d \union c), badSigs, R, B)
           => Closed(Edges, seeds \union d, badSigs, R, B)
  BY DEF Closed
<1>2. LeastRed(Edges, seeds \union d, badSigs)
        \subseteq LeastRed(Edges, seeds \union (d \union c), badSigs)
  BY <1>1 DEF LeastRed
<1>3. d \union c \in SUBSET Item
  OBVIOUS
<1>4. QED
  BY <1>2, <1>3, StateIs

(* What was dropped is out.                                                *)
LEMMA DropsAreOut ==
  ASSUME InputOK, NEW d \in SUBSET Item
  PROVE  /\ StateFromColoring(d) \subseteq Item
         /\ StateFromColoring(d) \intersect d = {}
<1>1. \A n \in d : n \in LeastRed(Edges, seeds \union d, badSigs)
  BY DEF LeastRed, Closed
<1>2. QED
  BY <1>1, StateIs

(* Memoization: the drops so far matter only through the items they left.  *)
LEMMA OnlyTheStateMatters ==
  ASSUME InputOK, NEW d \in SUBSET Item, NEW c \in SUBSET Item
  PROVE  StateFromColoring(d \union c)
           = StateFromColoring((Item \ StateFromColoring(d)) \union c)
<1> DEFINE s == seeds \union d
           L == LeastRed(Edges, s, badSigs)
<1>1. Item \ StateFromColoring(d) = L
  BY StateIs DEF LeastRed
<1>2. L \subseteq Item /\ d \subseteq L
  BY DropsAreOut, <1>1
<1>3. ASSUME NEW R \in SUBSET Item, NEW B \in SUBSET Item
      PROVE  Closed(Edges, seeds \union (d \union c), badSigs, R, B)
               <=> Closed(Edges, seeds \union (L \union c), badSigs, R, B)
  <2>1. ASSUME Closed(Edges, seeds \union (d \union c), badSigs, R, B)
        PROVE  Closed(Edges, seeds \union (L \union c), badSigs, R, B)
    <3>1. Closed(Edges, s, badSigs, R, B)
      BY <2>1 DEF Closed
    <3>2. L \subseteq R
      BY <3>1 DEF LeastRed
    <3>3. QED
      BY <2>1, <3>2 DEF Closed
  <2>2. ASSUME Closed(Edges, seeds \union (L \union c), badSigs, R, B)
        PROVE  Closed(Edges, seeds \union (d \union c), badSigs, R, B)
    BY <1>2, <2>2 DEF Closed
  <2>3. QED
    BY <2>1, <2>2
<1>4. LeastRed(Edges, seeds \union (d \union c), badSigs)
        = LeastRed(Edges, seeds \union (L \union c), badSigs)
  BY <1>3 DEF LeastRed
<1>5. d \union c \in SUBSET Item /\ L \union c \in SUBSET Item
  BY <1>2
<1>6. QED
  BY <1>1, <1>4, <1>5, StateIs

-----------------------------------------------------------------------------
(* Distances: the least elements the definitions choose exist.             *)

LEMMA LeastExists ==
  ASSUME NEW S \in SUBSET Nat, S # {}
  PROVE  \E x \in S : \A y \in S : x <= y
<1> DEFINE below(x) == {y \in S : y <= x}
           F == {below(x) : x \in S}
<1>1. \A x \in S : below(x) \in FiniteSubsetsOf(Nat)
  BY FS_BoundedSetOfNaturals DEF FiniteSubsetsOf
<1>2. F \subseteq FiniteSubsetsOf(Nat) /\ F # {}
  BY <1>1
<1>3. IsWellFoundedOn(StrictSubsetOrdering(Nat), FiniteSubsetsOf(Nat))
  BY FS_StrictSubsetOrderingWellFounded
<1>4. PICK m \in F : \A t \in F : ~(<<t, m>> \in StrictSubsetOrdering(Nat))
  BY <1>2, <1>3, WFMin
<1>5. PICK x \in S : m = below(x)
  BY <1>4
<1>6. ASSUME NEW y \in S, ~(x <= y)
      PROVE  FALSE
  <2>0. x \in Nat /\ y \in Nat /\ y < x
    BY <1>6
  <2>1. /\ below(y) \in F
        /\ below(y) \subseteq below(x)
        /\ x \in below(x) /\ x \notin below(y)
    <3>1. below(y) \in F
      OBVIOUS
    <3>2. \A z \in below(y) : z \in S /\ z <= x
      BY <2>0
    <3>3. x \in below(x) /\ x \notin below(y)
      BY <2>0
    <3>4. QED
      BY <3>1, <3>2, <3>3
  <2>2. below(y) \subseteq Nat /\ below(x) \subseteq Nat
    OBVIOUS
  <2>3. <<below(y), below(x)>> \in StrictSubsetOrdering(Nat)
    BY <2>1, <2>2 DEF StrictSubsetOrdering
  <2>4. QED
    BY <1>4, <1>5, <2>1, <2>3
<1>7. QED
  BY <1>6

LEMMA FarIsNatural == Far \in Nat
BY GraphAssumption, FS_CardinalityType DEF Far

LEMMA DistancesInRange == \A n \in Item : RootDistances[n] \in 0 .. Far
<1> SUFFICES ASSUME NEW n \in Item PROVE RootDistances[n] \in 0 .. Far
  OBVIOUS
<1> DEFINE ks == {k \in 0 .. Far - 1 : n \in Within[k]}
<1>1. RootDistances[n] = IF ks = {} THEN Far ELSE CHOOSE k \in ks : \A j \in ks : k <= j
  BY DEF RootDistances
<1>2. ks \in SUBSET Nat /\ \A k \in ks : k \in 0 .. Far
  BY FarIsNatural
<1>3. CASE ks = {}
  BY <1>1, <1>3, FarIsNatural
<1>4. CASE ks # {}
  <2>1. \E k \in ks : \A j \in ks : k <= j
    BY <1>2, <1>4, LeastExists
  <2>2. (CHOOSE k \in ks : \A j \in ks : k <= j) \in ks
    BY <2>1
  <2>3. QED
    BY <1>1, <1>2, <1>4, <2>2
<1>5. QED
  BY <1>3, <1>4

LEMMA CandidateDistanceInRange ==
  ASSUME NEW c, c.drops \subseteq Item, c.drops # {}
  PROVE  CandidateDistance(c) \in 0 .. Far
<1> DEFINE ds == {RootDistances[n] : n \in c.drops}
<1>1. ds \in SUBSET Nat /\ ds # {} /\ \A x \in ds : x \in 0 .. Far
  BY DistancesInRange, FarIsNatural
<1>2. \E d \in ds : \A x \in ds : d <= x
  BY <1>1, LeastExists
<1>3. (CHOOSE d \in ds : \A x \in ds : d <= x) \in ds
  BY <1>2
<1>4. QED
  BY <1>1, <1>3 DEF CandidateDistance

-----------------------------------------------------------------------------
(* Type correctness.                                                       *)

CandidateOK(c, admitted) ==
  /\ c \in [drops : SUBSET Item, why : {"learned", "blamed"}, rank : {0, 1}]
  /\ c.drops \subseteq admitted /\ c.drops # {}

LEMMA RepairOK ==
  ASSUME NEW admitted \in SUBSET Item, NEW u \in SUBSET admitted, u # {},
         NEW w \in {"learned", "blamed"}, NEW r \in {0, 1}
  PROVE  CandidateOK(Repair(u, w, r), admitted)
BY DEF CandidateOK, Repair

(* Every repair gives up admitted items, and at least one.                 *)
LEMMA CandidatesAreRepairs ==
  ASSUME NEW admitted \in SUBSET Item, NEW o \in Outcome,
         NEW c \in Candidates(admitted, o)
  PROVE  CandidateOK(c, admitted)
<1>1. CASE o.imported
  <2>1. PICK n \in o.rejected \intersect admitted : c = Repair({n}, "learned", 1)
    BY <1>1 DEF Candidates, Unique
  <2>2. QED
    BY <2>1, RepairOK
<1>2. CASE ~o.imported
  <2>1. c \in BlameCandidates(admitted, o)
    BY <1>2 DEF Candidates, Unique
  <2>2. CASE c \in BlameSymbol(admitted, o.symbol)
    <3>1. \/ \E n \in admitted : c = Repair({n}, "blamed", 1)
          \/ \E u \in {Undefined(admitted)} \ {{}} : c = Repair(u, "blamed", 0)
      BY <2>2 DEF BlameSymbol
    <3>2. QED
      BY <3>1, RepairOK DEF Undefined
  <2>3. CASE c \in BlamePlace(admitted, o.file, o.line)
    <3>1. \E n \in admitted : c = Repair({n}, "blamed", 1)
      BY <2>3 DEF BlamePlace
    <3>2. QED
      BY <3>1, RepairOK
  <2>4. QED
    BY <2>1, <2>2, <2>3 DEF BlameCandidates
<1>3. QED
  BY <1>1, <1>2

(* The types, and where the repairs on the list come from.                 *)
Typed ==
  /\ TypeOK
  /\ phase = "expand" => nodes # <<>>
  /\ \A c \in todo : phase = "expand" /\ CandidateOK(c, Last.pending.admitted)

LEMMA InputIsTyped == TypeOK => InputOK
BY DEF TypeOK, InputOK

LEMMA RootIsTyped ==
  ASSUME InputOK
  PROVE  RootState \subseteq Item
BY DropsAreOut DEF RootState

LEMMA TypedInit == Init => Typed
<1> SUFFICES ASSUME Init PROVE Typed
  OBVIOUS
<1>1. InputOK
  BY GraphAssumption DEF Init, InputOK
<1>2. Pending(NoScore, 0, "", 0, Far, {}, RootState) \in PendingState
  BY <1>1, RootIsTyped, FarIsNatural DEF Pending, PendingState, NoScore, Score, Why
<1>3. nodes \in Seq(Node) /\ seen \subseteq SUBSET Item
  <2>1. nodes = <<>> /\ seen = {RootState}
    BY DEF Init
  <2>2. QED
    BY <1>1, <2>1, RootIsTyped, EmptySeq
<1>4. TypeOK
  BY <1>1, <1>2, <1>3 DEF Init, TypeOK, InputOK, NoScore, Score
<1>5. QED
  BY <1>4 DEF Init, Typed

LEMMA LastIsNode ==
  ASSUME TypeOK, nodes # <<>>
  PROVE  /\ Len(nodes) \in Nat \ {0}
         /\ DOMAIN nodes = 1 .. Len(nodes)
         /\ Last \in Node
<1>1. nodes \in Seq(Node)
  BY DEF TypeOK
<1>2. Len(nodes) \in Nat \ {0} /\ DOMAIN nodes = 1 .. Len(nodes)
  BY <1>1, EmptySeq, LenProperties
<1>3. QED
  BY <1>1, <1>2, ElementOfSeq DEF Last

LEMMA NodesGrow ==
  ASSUME TypeOK, NEW n \in Node, nodes' = Append(nodes, n)
  PROVE  /\ Len(nodes) \in Nat
         /\ nodes' \in Seq(Node) /\ nodes' # <<>>
         /\ Len(nodes') = Len(nodes) + 1
         /\ DOMAIN nodes = 1 .. Len(nodes)
         /\ DOMAIN nodes' = 1 .. Len(nodes) + 1
         /\ \A i \in DOMAIN nodes : nodes'[i] = nodes[i]
         /\ nodes'[Len(nodes) + 1] = n
         /\ Last' = n
<1>1. nodes \in Seq(Node)
  BY DEF TypeOK
<1>2. Len(nodes) \in Nat /\ DOMAIN nodes = 1 .. Len(nodes)
  BY <1>1, LenProperties
<1>3. /\ nodes' \in Seq(Node) /\ nodes' # <<>>
      /\ Len(nodes') = Len(nodes) + 1
      /\ \A i \in 1 .. Len(nodes) : nodes'[i] = nodes[i]
      /\ nodes'[Len(nodes) + 1] = n
  BY <1>1, AppendProperties
<1>4. DOMAIN nodes' = 1 .. Len(nodes')
  BY <1>3, LenProperties
<1>5. QED
  BY <1>2, <1>3, <1>4 DEF Last

LEMMA TypedProbe ==
  ASSUME Typed, NEW p \in frontier, NEW o \in Outcomes, Probe(p, o)
  PROVE  Typed'
<1> DEFINE n == [pending |-> p, outcome |-> o, score |-> ScoreOf(o)]
<1>1. p \in PendingState /\ o \in Outcome
  BY GraphAssumption DEF Typed, TypeOK
<1>2. ScoreOf(o) \in Score
  BY <1>1 DEF ScoreOf, Outcome, Score
<1>3. n \in Node
  BY <1>1, <1>2 DEF Node
<1>4. nodes' = Append(nodes, n)
  BY DEF Probe
<1>5. TypeOK
  BY DEF Typed
<1>6. /\ Len(nodes) \in Nat /\ nodes' \in Seq(Node)
      /\ nodes' # <<>> /\ Last' = n
  BY <1>3, <1>4, <1>5, NodesGrow
<1>7. best' \in [admitted : SUBSET Item, score : Score, node : Nat]
  <2>1. KeepBest(Len(nodes), p, ScoreOf(o))
    BY DEF Probe
  <2>2. best' \in {best, [admitted |-> p.admitted, score |-> ScoreOf(o), node |-> Len(nodes)]}
    BY <2>1 DEF KeepBest
  <2>3. QED
    <3>1. p.admitted \in SUBSET Item
      BY <1>1 DEF PendingState
    <3>2. best \in [admitted : SUBSET Item, score : Score, node : Nat]
      BY <1>5 DEF TypeOK
    <3>3. QED
      BY <1>2, <1>6, <2>2, <3>1, <3>2
<1>8. baseline' \in [score : Score, node : Nat]
  <2>1. KeepBaseline(Len(nodes), p, ScoreOf(o))
    BY DEF Probe
  <2>2. baseline' \in {baseline, [score |-> ScoreOf(o), node |-> Len(nodes)]}
    BY <2>1 DEF KeepBaseline
  <2>3. QED
    <3>1. baseline \in [score : Score, node : Nat]
      BY <1>5 DEF TypeOK
    <3>2. QED
      BY <1>2, <1>6, <2>2, <3>1
<1>9. /\ frontier' \subseteq PendingState
      /\ seen' \subseteq SUBSET Item /\ generated' \in Nat
  <2>1. Pending(ScoreOf(o), 0, "baseline", 0, Far, {}, BaselineState) \in PendingState
    BY <1>2, FarIsNatural DEF Pending, PendingState, Why, BaselineState
  <2>2. frontier \ {p} \subseteq PendingState /\ generated \in Nat /\ seen \subseteq SUBSET Item
    BY DEF Typed, TypeOK
  <2>3. CASE Len(nodes) = 0 /\ ~BaselineIsRoot
    BY <2>1, <2>2, <2>3 DEF Probe, QueueBaseline, BaselineState
  <2>4. CASE ~(Len(nodes) = 0 /\ ~BaselineIsRoot)
    BY <2>2, <2>4 DEF Probe, QueueBaseline
  <2>5. QED
    BY <2>3, <2>4
<1>10. \A c \in todo' : CandidateOK(c, p.admitted)
  BY <1>1, CandidatesAreRepairs DEF Probe, PendingState
<1>11. todo' \subseteq [drops : SUBSET Item, why : Why, rank : {0, 1}]
  BY <1>10 DEF CandidateOK, Why
<1>12. TypeOK'
  BY <1>6, <1>7, <1>8, <1>9, <1>11 DEF Probe, Typed, TypeOK
<1>13. QED
  BY <1>6, <1>10, <1>12 DEF Probe, Typed, CandidateOK

Child(c) == StateFromColoring(ChildDrops(c))

Queued(c) ==
  Pending(Last.score, Len(nodes) - 1, c.why, c.rank, CandidateDistance(c),
          ChildDrops(c), Child(c))

(* A repair is skipped or pruned, or it queues a state nobody has seen.    *)
LEMMA TryEffect ==
  ASSUME NEW c, TryCandidate(c)
  PROVE  /\ \/ UNCHANGED <<seen, frontier>>
            \/ /\ Child(c) \notin seen
               /\ seen' = seen \union {Child(c)}
               /\ frontier' = frontier \union {Queued(c)}
         /\ \/ UNCHANGED <<generated, pruned>>
            \/ generated' = generated + 1 /\ UNCHANGED pruned
            \/ generated' = generated + 1 /\ pruned' = pruned + 1
BY DEF TryCandidate, Known, Child, Queued

LEMMA TypedTry ==
  ASSUME Typed, NEW c \in todo, TryCandidate(c)
  PROVE  Typed'
<1>1. Last \in Node /\ Len(nodes) \in Nat \ {0} /\ CandidateOK(c, Last.pending.admitted)
  BY LastIsNode DEF Typed
<1>2. ChildDrops(c) \in SUBSET Item
  BY <1>1 DEF ChildDrops, CandidateOK, Node, PendingState
<1>3. Child(c) \in SUBSET Item
  BY <1>2, DropsAreOut, InputIsTyped DEF Typed, Child
<1>4. CandidateDistance(c) \in 0 .. Far
  BY <1>1, CandidateDistanceInRange DEF CandidateOK
<1>5. Queued(c) \in PendingState
  <2>1. Last.score \in Score /\ Len(nodes) - 1 \in Nat
    BY <1>1 DEF Node
  <2>2. c.why \in Why /\ c.rank \in {0, 1}
    BY <1>1 DEF CandidateOK, Why
  <2>3. QED
    BY <1>2, <1>3, <1>4, <2>1, <2>2 DEF Queued, Pending, PendingState
<1>6. frontier' \subseteq PendingState /\ seen' \subseteq SUBSET Item
  <2>1. \/ seen' = seen /\ frontier' = frontier
        \/ seen' = seen \union {Child(c)} /\ frontier' = frontier \union {Queued(c)}
    BY TryEffect
  <2>2. frontier \subseteq PendingState /\ seen \subseteq SUBSET Item
    BY DEF Typed, TypeOK
  <2>3. QED
    BY <1>3, <1>5, <2>1, <2>2
<1>7. generated' \in Nat /\ pruned' \in Nat
  <2>1. generated' \in {generated, generated + 1} /\ pruned' \in {pruned, pruned + 1}
    BY TryEffect
  <2>2. generated \in Nat /\ pruned \in Nat
    BY DEF Typed, TypeOK
  <2>3. QED
    BY <2>1, <2>2
<1>8. TypeOK'
  BY <1>6, <1>7 DEF TryCandidate, Typed, TypeOK
<1>9. QED
  BY <1>8 DEF TryCandidate, Typed, Last, CandidateOK

LEMMA TypedStep ==
  ASSUME Typed, [Next]_vars
  PROVE  Typed'
<1>1. ASSUME NEW p \in frontier, NEW o \in Outcomes, Probe(p, o)
      PROVE  Typed'
  BY <1>1, TypedProbe
<1>2. ASSUME NEW c \in todo, TryCandidate(c)
      PROVE  Typed'
  BY <1>2, TypedTry
<1>3. CASE EndExpansion
  BY <1>3 DEF EndExpansion, Typed, TypeOK
<1>4. CASE Stop
  BY <1>4 DEF Stop, Typed, TypeOK
<1>5. CASE UNCHANGED vars
  BY <1>5 DEF vars, Typed, TypeOK, Last
<1>6. QED
  BY <1>1, <1>2, <1>3, <1>4, <1>5 DEF Next

(* Every variable of the search keeps its type; the hard part is the       *)
(* distance of a queued repair, chosen as a least element that must exist. *)
THEOREM SearchTypeCorrect == Spec => []TypeOK
<1>1. Init => Typed
  BY TypedInit
<1>2. Typed /\ [Next]_vars => Typed'
  BY TypedStep
<1>3. Typed => TypeOK
  BY DEF Typed
<1>4. QED
  BY <1>1, <1>2, <1>3, PTL DEF Spec

-----------------------------------------------------------------------------
(* The inductive invariant.                                                *)

(* Queued once, probed once.                                               *)
Distinct ==
  /\ \A i, j \in DOMAIN nodes : Admitted(i) = Admitted(j) => i = j
  /\ \A i \in DOMAIN nodes, p \in frontier : Admitted(i) # p.admitted
  /\ \A p, q \in frontier : p.admitted = q.admitted => p = q
  /\ \A i \in DOMAIN nodes : Admitted(i) \in seen
  /\ \A p \in frontier : p.admitted \in seen

RootPending == Pending(NoScore, 0, "", 0, Far, {}, RootState)

BaselinePending(score) == Pending(score, 0, "baseline", 0, Far, {}, BaselineState)

(* Before the first probe there is the root and nothing else.              *)
AtTheRoot ==
  nodes = <<>> => phase = "probe" /\ frontier = {RootPending}

(* After it the baseline waits, and all that waits with it is smaller.     *)
AtTheBaseline ==
  (Len(nodes) = 1 /\ ~BaselineIsRoot) =>
    /\ BaselinePending(nodes[1].score) \in frontier
    /\ \A p \in frontier :
         \/ p = BaselinePending(nodes[1].score)
         \/ p.parentScore = nodes[1].score /\ p.admitted \subseteq RootState

(* From then on its score is on record.                                    *)
BaselineOnRecord ==
  /\ nodes # <<>> => Admitted(1) = RootState
  /\ (nodes # <<>> /\ BaselineIsRoot) =>
        baseline = [score |-> nodes[1].score, node |-> 0]
  /\ (Len(nodes) >= 2 /\ ~BaselineIsRoot) =>
        /\ nodes[2].pending.why = "baseline"
        /\ Admitted(2) = BaselineState
        /\ baseline = [score |-> nodes[2].score, node |-> 1]

(* No other state is taken for the baseline.                               *)
OneBaseline ==
  \A p \in frontier : p.why = "baseline" => Len(nodes) = 1 /\ ~BaselineIsRoot

(* A state is the coloring of its drops; the baseline drops nothing.       *)
ColoredPending(p) ==
  IF p.why = "baseline"
  THEN p.drops = {} /\ p.admitted = BaselineState
  ELSE p.admitted = StateFromColoring(p.drops)

Colored ==
  /\ \A p \in frontier : ColoredPending(p)
  /\ \A i \in DOMAIN nodes : ColoredPending(nodes[i].pending)

(* The loop keeps to its budget and does not end before the baseline.      *)
Bounded ==
  /\ Len(nodes) <= Budget
  /\ phase = "done" => nodes # <<>> /\ (BaselineIsRoot \/ Len(nodes) >= 2)

IInv ==
  /\ Typed /\ Distinct /\ AtTheRoot /\ AtTheBaseline /\ BaselineOnRecord
  /\ OneBaseline /\ Colored /\ Bounded /\ BestIsFirstMaximum

(* A better score than b beats whatever does not beat b.                   *)
LEMMA BetterIsTransitive ==
  ASSUME NEW a \in Score, NEW b \in Score, NEW c \in Score,
         ~IsBetterThan(a, b), IsBetterThan(c, b)
  PROVE  IsBetterThan(c, a) /\ ~IsBetterThan(a, c)
<1>1. /\ a.imported \in BOOLEAN /\ b.imported \in BOOLEAN /\ c.imported \in BOOLEAN
      /\ a.ported \in Nat /\ b.ported \in Nat /\ c.ported \in Nat
      /\ a.stubbed \in Nat /\ b.stubbed \in Nat /\ c.stubbed \in Nat
  BY DEF Score
<1>2. QED
  BY <1>1 DEF IsBetterThan

LEMMA NeverBetterThanItself ==
  ASSUME NEW a \in Score
  PROVE  ~IsBetterThan(a, a)
BY DEF IsBetterThan, Score

(* The input does not change, so nothing computed from it does.            *)
LEMMA InputStable ==
  ASSUME seeds' = seeds, badSigs' = badSigs
  PROVE  /\ RootState' = RootState
         /\ BaselineIsRoot' = BaselineIsRoot
         /\ Budget' = Budget
         /\ \A d : StateFromColoring(d)' = StateFromColoring(d)
         /\ \A p : ColoredPending(p)' = ColoredPending(p)
<1>1. \A d : StateFromColoring(d)' = StateFromColoring(d)
  BY DEF StateFromColoring
<1>2. RootState' = RootState
  BY <1>1 DEF RootState
<1>3. BaselineIsRoot' = BaselineIsRoot
  BY <1>2 DEF BaselineIsRoot, BaselineState
<1>4. Budget' = Budget
  BY <1>3 DEF Budget
<1>5. \A p : ColoredPending(p)' = ColoredPending(p)
  BY <1>1 DEF ColoredPending, BaselineState
<1>6. QED
  BY <1>1, <1>2, <1>3, <1>4, <1>5

LEMMA BudgetCoversBaseline ==
  /\ Budget \in Nat /\ Budget >= 1
  /\ ~BaselineIsRoot => Budget >= 2
BY GraphAssumption DEF Budget

(* What a probe does to the nodes and the frontier.                        *)
LEMMA ProbeEffect ==
  ASSUME Typed, NEW p \in frontier, NEW o \in Outcomes, Probe(p, o)
  PROVE  /\ UNCHANGED <<seeds, badSigs>>
         /\ ScoreOf(o) \in Score
         /\ Len(nodes) \in Nat /\ Len(nodes) < Budget
         /\ Len(nodes') = Len(nodes) + 1 /\ nodes' # <<>>
         /\ DOMAIN nodes = 1 .. Len(nodes) /\ DOMAIN nodes' = 1 .. Len(nodes) + 1
         /\ \A i \in DOMAIN nodes : nodes'[i] = nodes[i]
         /\ nodes'[Len(nodes) + 1].pending = p
         /\ nodes'[Len(nodes) + 1].score = ScoreOf(o)
         /\ frontier' = (frontier \ {p}) \union
              (IF Len(nodes) = 0 /\ ~BaselineIsRoot
               THEN {BaselinePending(ScoreOf(o))} ELSE {})
         /\ seen' = seen \union
              (IF Len(nodes) = 0 /\ ~BaselineIsRoot THEN {BaselineState} ELSE {})
<1> DEFINE n == [pending |-> p, outcome |-> o, score |-> ScoreOf(o)]
<1>1. p \in PendingState /\ o \in Outcome
  BY GraphAssumption DEF Typed, TypeOK
<1>2. ScoreOf(o) \in Score
  BY <1>1 DEF ScoreOf, Outcome, Score
<1>3. n \in Node
  BY <1>1, <1>2 DEF Node
<1>4. nodes' = Append(nodes, n) /\ Len(nodes) < Budget /\ UNCHANGED <<seeds, badSigs>>
  BY DEF Probe
<1>5. /\ Len(nodes) \in Nat
      /\ Len(nodes') = Len(nodes) + 1 /\ nodes' # <<>>
      /\ DOMAIN nodes = 1 .. Len(nodes) /\ DOMAIN nodes' = 1 .. Len(nodes) + 1
      /\ \A i \in DOMAIN nodes : nodes'[i] = nodes[i]
      /\ nodes'[Len(nodes) + 1] = n
  BY <1>3, <1>4, NodesGrow DEF Typed
<1>6. QueueBaseline(Len(nodes), ScoreOf(o), frontier \ {p})
  BY DEF Probe
<1>7. /\ frontier' = (frontier \ {p}) \union
           (IF Len(nodes) = 0 /\ ~BaselineIsRoot
            THEN {BaselinePending(ScoreOf(o))} ELSE {})
      /\ seen' = seen \union
           (IF Len(nodes) = 0 /\ ~BaselineIsRoot THEN {BaselineState} ELSE {})
  BY <1>6 DEF QueueBaseline, BaselinePending
<1>8. QED
  BY <1>2, <1>4, <1>5, <1>7

LEMMA NoNodes ==
  ASSUME TypeOK
  PROVE  /\ Len(nodes) \in Nat /\ DOMAIN nodes = 1 .. Len(nodes)
         /\ nodes = <<>> <=> Len(nodes) = 0
<1>1. nodes \in Seq(Node)
  BY DEF TypeOK
<1>2. QED
  BY <1>1, EmptySeq, LenProperties

LEMMA IInvInit == Init => IInv
<1> SUFFICES ASSUME Init PROVE IInv
  OBVIOUS
<1>1. Typed
  BY TypedInit
<1>2. nodes = <<>> /\ Len(nodes) = 0 /\ DOMAIN nodes = {} /\ phase = "probe"
  <2>1. nodes = <<>> /\ phase = "probe"
    BY DEF Init
  <2>2. QED
    BY <1>1, <2>1, NoNodes DEF Typed
<1>3. frontier = {RootPending} /\ seen = {RootState}
  BY DEF Init, RootPending
<1>4. RootPending.admitted = RootState /\ RootPending.why = "" /\ RootPending.drops = {}
  BY DEF RootPending, Pending
<1>5. Distinct /\ AtTheRoot /\ AtTheBaseline /\ BaselineOnRecord /\ BestIsFirstMaximum
  <2>1. Distinct
    BY <1>2, <1>3, <1>4 DEF Distinct
  <2>2. AtTheRoot /\ AtTheBaseline /\ BaselineOnRecord /\ BestIsFirstMaximum
    BY <1>2, <1>3 DEF AtTheRoot, AtTheBaseline, BaselineOnRecord, BestIsFirstMaximum
  <2>3. QED
    BY <2>1, <2>2
<1>6. OneBaseline /\ Colored
  BY <1>2, <1>3, <1>4 DEF OneBaseline, Colored, ColoredPending, RootState
<1>7. Bounded
  BY <1>2, BudgetCoversBaseline DEF Bounded
<1>8. QED
  BY <1>1, <1>5, <1>6, <1>7 DEF IInv

-----------------------------------------------------------------------------
(* A probe preserves the invariant.                                        *)

(* The second probe, when there is a second state to probe: the baseline   *)
(* beats every child of the root on the size of its admitted set.          *)
LEMMA BaselineComesFirst ==
  ASSUME IInv, NEW p \in frontier, NEW o \in Outcomes, Probe(p, o),
         Len(nodes) = 1, ~BaselineIsRoot
  PROVE  p = BaselinePending(nodes[1].score)
<1> DEFINE s == nodes[1].score
           b == BaselinePending(s)
<1>1. b \in frontier
  BY DEF IInv, AtTheBaseline
<1>2. ~PendingBefore(b, p)
  BY <1>1 DEF Probe
<1>3. SUFFICES ASSUME p # b PROVE FALSE
  OBVIOUS
<1>4. p.parentScore = s /\ p.admitted \subseteq RootState
  BY <1>3 DEF IInv, AtTheBaseline
<1>5. p.rank \in {0, 1} /\ s \in Score
  BY <1>4 DEF IInv, Typed, TypeOK, PendingState
<1>6. RootState \subseteq Item /\ RootState # Item
  BY RootIsTyped, InputIsTyped DEF IInv, Typed, BaselineIsRoot, BaselineState
<1>7. p.admitted \in SUBSET Item /\ p.admitted # Item
  BY <1>4, <1>6
<1>8. /\ Cardinality(p.admitted) \in Nat /\ Cardinality(Item) \in Nat
      /\ Cardinality(p.admitted) < Cardinality(Item)
  <2>1. /\ IsFiniteSet(p.admitted) /\ Cardinality(p.admitted) <= Cardinality(Item)
        /\ Cardinality(Item) # Cardinality(p.admitted)
    BY <1>7, FS_Subset, GraphAssumption
  <2>2. Cardinality(p.admitted) \in Nat /\ Cardinality(Item) \in Nat
    BY <2>1, FS_CardinalityType, GraphAssumption
  <2>3. QED
    BY <2>1, <2>2
<1>9. b.parentScore = s /\ b.rank = 0 /\ b.admitted = Item
  BY DEF BaselinePending, Pending, BaselineState
<1>10. ~IsBetterThan(s, s)
  BY <1>5, NeverBetterThanItself
<1>11. PendingBefore(b, p)
  BY <1>4, <1>5, <1>8, <1>9, <1>10 DEF PendingBefore
<1>12. QED
  BY <1>2, <1>11

LEMMA ProbeKeepsDistinct ==
  ASSUME IInv, NEW p \in frontier, NEW o \in Outcomes, Probe(p, o)
  PROVE  Distinct'
<1> USE DEF Admitted
<1>1. Typed /\ Distinct
  BY DEF IInv
<1>2. /\ \A i, j \in DOMAIN nodes' : Admitted(i)' = Admitted(j)' => i = j
      /\ \A i \in DOMAIN nodes' : Admitted(i)' \in seen'
      /\ \A i \in DOMAIN nodes', q \in frontier \ {p} : Admitted(i)' # q.admitted
      /\ \A q \in frontier \ {p} : q.admitted \in seen'
  BY <1>1, ProbeEffect DEF Distinct
<1>3. CASE Len(nodes) = 0 /\ ~BaselineIsRoot
  <2>1. frontier = {RootPending} /\ p = RootPending
    BY <1>1, <1>3, NoNodes DEF IInv, AtTheRoot, Typed
  <2>2. frontier' = {BaselinePending(ScoreOf(o))}
    BY <1>1, <1>3, <2>1, ProbeEffect
  <2>3. BaselinePending(ScoreOf(o)).admitted = BaselineState /\ RootPending.admitted = RootState
    BY DEF BaselinePending, RootPending, Pending
  <2>4. RootState # BaselineState
    BY <1>3 DEF BaselineIsRoot
  <2>5. BaselineState \in seen'
    BY <1>1, <1>3, ProbeEffect
  <2>6. \A i \in DOMAIN nodes' : Admitted(i)' = RootState
    BY <1>1, <1>3, <2>1, <2>3, ProbeEffect
  <2>7. QED
    BY <1>2, <2>2, <2>3, <2>4, <2>5, <2>6 DEF Distinct
<1>4. CASE ~(Len(nodes) = 0 /\ ~BaselineIsRoot)
  <2>1. frontier' = frontier \ {p}
    BY <1>1, <1>4, ProbeEffect
  <2>2. QED
    BY <1>1, <1>2, <2>1 DEF Distinct
<1>5. QED
  BY <1>3, <1>4

LEMMA ProbeKeepsBaseline ==
  ASSUME IInv, NEW p \in frontier, NEW o \in Outcomes, Probe(p, o)
  PROVE  AtTheRoot' /\ AtTheBaseline' /\ BaselineOnRecord' /\ OneBaseline'
<1> USE DEF Admitted
<1>1. Typed
  BY DEF IInv
<1> DEFINE k == Len(nodes)
           kk == Len(nodes')
<1>0. k \in Nat /\ kk = k + 1
  BY <1>1, ProbeEffect
<1>2. /\ RootState' = RootState /\ BaselineState' = BaselineState
      /\ BaselineIsRoot' = BaselineIsRoot
  BY <1>1, ProbeEffect, InputStable DEF BaselineState
<1>3. AtTheRoot'
  BY <1>1, ProbeEffect DEF AtTheRoot
<1>4. Len(nodes) = 0 => frontier = {RootPending} /\ p = RootPending
  BY <1>1, NoNodes DEF IInv, AtTheRoot, Typed
<1>5. RootPending.why = "" /\ RootPending.admitted = RootState
  BY DEF RootPending, Pending
<1>6. AtTheBaseline'
  <2> SUFFICES ASSUME Len(nodes') = 1, ~BaselineIsRoot
               PROVE  frontier' = {BaselinePending(nodes'[1].score)}
    BY <1>2 DEF AtTheBaseline, BaselinePending, BaselineState
  <2>1. Len(nodes) = 0
    BY <1>1, ProbeEffect
  <2>2. QED
    BY <1>1, <1>4, <2>1, ProbeEffect
<1>7. KeepBaseline(Len(nodes), p, ScoreOf(o))
  BY DEF Probe
<1>8. BaselineOnRecord'
  <2>1. Admitted(1)' = RootState
    <3>1. CASE Len(nodes) = 0
      <4>1. nodes'[1].pending = p
        BY <1>1, <3>1, ProbeEffect
      <4>2. nodes'[1].pending.admitted = RootState
        BY <1>4, <1>5, <3>1, <4>1
      <4>3. QED
        BY <4>2
    <3>2. CASE Len(nodes) # 0
      <4>0. nodes # <<>> /\ 1 \in DOMAIN nodes
        BY <1>1, <1>0, <3>2, NoNodes DEF Typed
      <4>1. nodes # <<>> /\ nodes'[1] = nodes[1]
        BY <1>1, <4>0, ProbeEffect
      <4>2. nodes[1].pending.admitted = RootState
        BY <4>1 DEF IInv, BaselineOnRecord
      <4>3. nodes'[1].pending.admitted = RootState
        BY <4>1, <4>2
      <4>4. QED
        BY <4>3
    <3>3. QED
      BY <3>1, <3>2
  <2>2. ASSUME BaselineIsRoot
        PROVE  baseline' = [score |-> nodes'[1].score, node |-> 0]
    <3>1. CASE Len(nodes) = 0
      BY <1>1, <1>7, <2>2, <3>1, ProbeEffect DEF KeepBaseline
    <3>2. CASE Len(nodes) # 0
      <4>1. nodes # <<>> /\ nodes'[1] = nodes[1]
        BY <1>1, <3>2, ProbeEffect, NoNodes DEF Typed
      <4>2. p.why # "baseline"
        BY <2>2 DEF IInv, OneBaseline
      <4>3. baseline' = baseline
        BY <1>7, <3>2, <4>2 DEF KeepBaseline
      <4>4. QED
        BY <2>2, <4>1, <4>3 DEF IInv, BaselineOnRecord
    <3>3. QED
      BY <3>1, <3>2
  <2>3. ASSUME Len(nodes') >= 2, ~BaselineIsRoot
        PROVE  /\ nodes'[2].pending.why = "baseline"
               /\ Admitted(2)' = BaselineState
               /\ baseline' = [score |-> nodes'[2].score, node |-> 1]
    <3>1. CASE Len(nodes) = 1
      <4>1. p = BaselinePending(nodes[1].score)
        BY <2>3, <3>1, BaselineComesFirst
      <4>2. p.why = "baseline" /\ p.admitted = BaselineState
        BY <4>1 DEF BaselinePending, Pending
      <4>3. nodes'[2].pending = p /\ nodes'[2].score = ScoreOf(o)
        BY <1>1, <3>1, ProbeEffect
      <4>4. baseline' = [score |-> ScoreOf(o), node |-> 1]
        BY <1>7, <3>1, <4>2 DEF KeepBaseline
      <4>5. QED
        BY <4>2, <4>3, <4>4
    <3>2. CASE Len(nodes) >= 2
      <4>1. nodes'[2] = nodes[2]
        BY <1>1, <3>2, ProbeEffect
      <4>2. Len(nodes) # 0 /\ Len(nodes) # 1
        <5> HIDE DEF k, kk
        <5>1. k \in Nat /\ k >= 2 => k # 0 /\ k # 1
          OBVIOUS
        <5>2. QED
          BY <1>0, <3>2, <5>1 DEF k
      <4>3. p.why # "baseline"
        BY <4>2 DEF IInv, OneBaseline
      <4>4. baseline' = baseline
        BY <1>7, <4>2, <4>3 DEF KeepBaseline
      <4>5. /\ nodes[2].pending.why = "baseline"
            /\ nodes[2].pending.admitted = BaselineState
            /\ baseline = [score |-> nodes[2].score, node |-> 1]
        BY <2>3, <3>2 DEF IInv, BaselineOnRecord
      <4>6. nodes'[2].pending.admitted = BaselineState
        BY <4>1, <4>5
      <4>7. QED
        BY <4>1, <4>4, <4>5, <4>6
    <3>3. Len(nodes) = 1 \/ Len(nodes) >= 2
      <4> HIDE DEF k, kk
      <4>1. k \in Nat /\ kk = k + 1 /\ kk >= 2 => k = 1 \/ k >= 2
        OBVIOUS
      <4>2. QED
        BY <1>0, <2>3, <4>1 DEF k, kk
    <3>4. QED
      BY <3>1, <3>2, <3>3
  <2>4. QED
    BY <1>2, <2>1, <2>2, <2>3 DEF BaselineOnRecord
<1>9. OneBaseline'
  <2> SUFFICES ASSUME NEW q \in frontier', q.why = "baseline"
               PROVE  Len(nodes') = 1 /\ ~BaselineIsRoot
    BY <1>2 DEF OneBaseline
  <2>1. CASE Len(nodes) = 0
    BY <1>1, <1>4, <2>1, ProbeEffect
  <2>2. CASE Len(nodes) # 0
    <3>1. q \in frontier \ {p}
      BY <1>1, <2>2, ProbeEffect
    <3>2. Len(nodes) = 1 /\ ~BaselineIsRoot
      BY <3>1 DEF IInv, OneBaseline
    <3>3. p = BaselinePending(nodes[1].score)
      BY <3>2, BaselineComesFirst
    <3>4. p.admitted = BaselineState /\ q.admitted = BaselineState
      BY <3>1, <3>3 DEF BaselinePending, Pending, IInv, Colored, ColoredPending
    <3>5. QED
      BY <3>1, <3>4 DEF IInv, Distinct
  <2>3. QED
    BY <2>1, <2>2
<1>10. QED
  BY <1>3, <1>6, <1>8, <1>9

LEMMA ProbeKeepsColored ==
  ASSUME IInv, NEW p \in frontier, NEW o \in Outcomes, Probe(p, o)
  PROVE  Colored' /\ Bounded'
<1>1. Typed
  BY DEF IInv
<1>2. \A q : ColoredPending(q)' = ColoredPending(q)
  BY <1>1, ProbeEffect, InputStable
<1>3. ColoredPending(BaselinePending(ScoreOf(o)))
  BY DEF ColoredPending, BaselinePending, Pending
<1>4. \A q \in frontier : ColoredPending(q)
  BY DEF IInv, Colored
<1>5. \A q \in frontier' : ColoredPending(q)
  BY <1>1, <1>3, <1>4, ProbeEffect
<1>6. ASSUME NEW i \in DOMAIN nodes'
      PROVE  ColoredPending(nodes'[i].pending)
  <2>1. CASE i \in DOMAIN nodes
    <3>1. nodes'[i] = nodes[i]
      BY <1>1, <2>1, ProbeEffect
    <3>2. QED
      BY <2>1, <3>1 DEF IInv, Colored
  <2>2. CASE i \notin DOMAIN nodes
    <3>1. i = Len(nodes) + 1
      BY <1>1, <2>2, ProbeEffect
    <3>2. QED
      BY <1>1, <1>4, <3>1, ProbeEffect
  <2>3. QED
    BY <2>1, <2>2
<1>7. Colored'
  BY <1>2, <1>5, <1>6 DEF Colored
<1>8. Bounded'
  <2>1. Budget' = Budget /\ Budget \in Nat
    BY <1>1, ProbeEffect, InputStable, BudgetCoversBaseline
  <2>2. Len(nodes) \in Nat /\ Len(nodes') = Len(nodes) + 1 /\ Len(nodes) < Budget
    BY <1>1, ProbeEffect
  <2>3. Len(nodes') <= Budget'
    BY <2>1, <2>2
  <2>4. phase' # "done"
    BY DEF Probe
  <2>5. QED
    BY <2>3, <2>4 DEF Bounded
<1>9. QED
  BY <1>7, <1>8

LEMMA ProbeKeepsBest ==
  ASSUME IInv, NEW p \in frontier, NEW o \in Outcomes, Probe(p, o)
  PROVE  BestIsFirstMaximum'
<1> DEFINE k == Len(nodes)
           s == ScoreOf(o)
<1>1. Typed
  BY DEF IInv
<1>2. /\ k \in Nat /\ Len(nodes') = k + 1 /\ s \in Score
      /\ DOMAIN nodes = 1 .. k /\ DOMAIN nodes' = 1 .. k + 1
      /\ \A i \in DOMAIN nodes : nodes'[i] = nodes[i]
      /\ nodes'[k + 1].pending = p /\ nodes'[k + 1].score = s
  BY <1>1, ProbeEffect
<1>3. KeepBest(k, p, s)
  BY DEF Probe
<1>4. \A i \in DOMAIN nodes : nodes[i].score \in Score
  <2>1. nodes \in Seq(Node)
    BY <1>1 DEF Typed, TypeOK
  <2>2. \A i \in 1 .. Len(nodes) : nodes[i] \in Node
    BY <2>1, ElementOfSeq
  <2>3. QED
    BY <1>2, <2>2 DEF Node
<1>5. best \in [admitted : SUBSET Item, score : Score, node : Nat]
  BY <1>1 DEF Typed, TypeOK
<1>6. k # 0 => /\ best.node < k
               /\ best.admitted = nodes[best.node + 1].pending.admitted
               /\ best.score = nodes[best.node + 1].score
               /\ \A i \in DOMAIN nodes :
                    /\ ~IsBetterThan(nodes[i].score, best.score)
                    /\ i <= best.node => IsBetterThan(best.score, nodes[i].score)
  <2>1. k # 0 => nodes # <<>>
    BY <1>1, NoNodes DEF Typed
  <2>2. QED
    BY <2>1 DEF IInv, BestIsFirstMaximum, Admitted
<1>7. CASE k = 0 \/ IsBetterThan(s, best.score)
  <2>1. best' = [admitted |-> p.admitted, score |-> s, node |-> k]
    BY <1>3, <1>7 DEF KeepBest
  <2>2. ASSUME NEW i \in DOMAIN nodes
        PROVE  IsBetterThan(s, nodes[i].score) /\ ~IsBetterThan(nodes[i].score, s)
    <3>1. k # 0
      BY <1>2
    <3>2. ~IsBetterThan(nodes[i].score, best.score) /\ IsBetterThan(s, best.score)
      BY <1>6, <1>7, <3>1
    <3>3. nodes[i].score \in Score /\ best.score \in Score
      BY <1>4, <1>5
    <3>4. QED
      BY <1>2, <3>2, <3>3, BetterIsTransitive
  <2>3. ASSUME NEW i \in DOMAIN nodes'
        PROVE  /\ ~IsBetterThan(nodes'[i].score, s)
               /\ i <= k => IsBetterThan(s, nodes'[i].score)
    <3>1. CASE i \in DOMAIN nodes
      <4>1. nodes'[i].score = nodes[i].score
        BY <1>2, <3>1
      <4>2. QED
        BY <2>2, <3>1, <4>1
    <3>2. CASE i \notin DOMAIN nodes
      <4>1. i = k + 1 /\ ~(i <= k)
        BY <1>2, <3>2
      <4>2. nodes'[i].score = s
        BY <1>2, <4>1
      <4>3. QED
        BY <1>2, <4>1, <4>2, NeverBetterThanItself
    <3>3. QED
      BY <3>1, <3>2
  <2>4. /\ best'.node = k /\ best'.score = s /\ best'.admitted = p.admitted
        /\ best'.node < Len(nodes')
    BY <1>2, <2>1
  <2>5. /\ best'.admitted = nodes'[best'.node + 1].pending.admitted
        /\ best'.score = nodes'[best'.node + 1].score
    BY <1>2, <2>4
  <2>6. QED
    BY <2>3, <2>4, <2>5 DEF BestIsFirstMaximum, Admitted
<1>8. CASE k # 0 /\ ~IsBetterThan(s, best.score)
  <2>1. best' = best
    BY <1>3, <1>8 DEF KeepBest
  <2>2. best.node + 1 \in DOMAIN nodes /\ best.node < k + 1 /\ best.node \in Nat
    BY <1>2, <1>5, <1>6, <1>8
  <2>3. nodes'[best.node + 1] = nodes[best.node + 1]
    BY <1>2, <2>2
  <2>4. ASSUME NEW i \in DOMAIN nodes'
        PROVE  /\ ~IsBetterThan(nodes'[i].score, best.score)
               /\ i <= best.node => IsBetterThan(best.score, nodes'[i].score)
    <3>1. CASE i \in DOMAIN nodes
      <4>1. nodes'[i].score = nodes[i].score
        BY <1>2, <3>1
      <4>2. QED
        BY <1>6, <1>8, <3>1, <4>1
    <3>2. CASE i \notin DOMAIN nodes
      <4>1. i = k + 1
        BY <1>2, <3>2
      <4>2. ~(i <= best.node)
        BY <1>2, <2>2, <4>1
      <4>3. nodes'[i].score = s
        BY <1>2, <4>1
      <4>4. QED
        BY <1>8, <4>2, <4>3
    <3>3. QED
      BY <3>1, <3>2
  <2>5. best.node < Len(nodes')
    BY <1>2, <2>2
  <2>6. /\ best.admitted = nodes'[best.node + 1].pending.admitted
        /\ best.score = nodes'[best.node + 1].score
    BY <1>6, <1>8, <2>3
  <2>7. QED
    BY <2>1, <2>4, <2>5, <2>6 DEF BestIsFirstMaximum, Admitted
<1>9. QED
  BY <1>7, <1>8

LEMMA IInvProbe ==
  ASSUME IInv, NEW p \in frontier, NEW o \in Outcomes, Probe(p, o)
  PROVE  IInv'
<1>1. Typed'
  BY TypedProbe DEF IInv
<1>2. Distinct'
  BY ProbeKeepsDistinct
<1>3. AtTheRoot' /\ AtTheBaseline' /\ BaselineOnRecord' /\ OneBaseline'
  BY ProbeKeepsBaseline
<1>4. Colored' /\ Bounded'
  BY ProbeKeepsColored
<1>5. BestIsFirstMaximum'
  BY ProbeKeepsBest
<1>6. QED
  BY <1>1, <1>2, <1>3, <1>4, <1>5 DEF IInv

-----------------------------------------------------------------------------
(* So do the other steps.                                                  *)

LEMMA IInvTry ==
  ASSUME IInv, NEW c \in todo, TryCandidate(c)
  PROVE  IInv'
<1> DEFINE q == Queued(c)
<1>1. Typed /\ Typed' /\ InputOK
  BY TypedTry, InputIsTyped DEF IInv, Typed
<1>2. /\ nodes' = nodes /\ best' = best /\ baseline' = baseline
      /\ seeds' = seeds /\ badSigs' = badSigs /\ phase' = "expand"
  BY DEF TryCandidate
<1>3. nodes # <<>> /\ Len(nodes) \in Nat \ {0} /\ Last \in Node
      /\ CandidateOK(c, Last.pending.admitted)
  BY <1>1, LastIsNode DEF Typed
<1>4. /\ RootState' = RootState /\ BaselineState' = BaselineState
      /\ BaselineIsRoot' = BaselineIsRoot /\ Budget' = Budget
      /\ \A p : ColoredPending(p)' = ColoredPending(p)
  BY <1>2, InputStable DEF BaselineState
<1>5. /\ q.admitted = Child(c) /\ q.parentScore = Last.score
      /\ q.why = c.why /\ q.drops = ChildDrops(c)
  BY DEF Queued, Pending
<1>6. q.why # "baseline"
  BY <1>3, <1>5 DEF CandidateOK
<1>7. \/ frontier' = frontier /\ seen' = seen
      \/ /\ q.admitted \notin seen
         /\ seen' = seen \union {q.admitted}
         /\ frontier' = frontier \union {q}
  BY <1>5, TryEffect
<1>8. Distinct'
  <2>1. Distinct
    BY DEF IInv
  <2>2. CASE frontier' = frontier /\ seen' = seen
    BY <1>2, <2>1, <2>2 DEF Distinct, Admitted
  <2>3. CASE /\ q.admitted \notin seen
             /\ seen' = seen \union {q.admitted}
             /\ frontier' = frontier \union {q}
    <3> HIDE DEF q
    <3>1. \A i \in DOMAIN nodes : Admitted(i) # q.admitted
      BY <2>1, <2>3 DEF Distinct
    <3>2. \A p \in frontier : p.admitted # q.admitted
      BY <2>1, <2>3 DEF Distinct
    <3>3. QED
      BY <1>2, <2>1, <2>3, <3>1, <3>2 DEF Distinct, Admitted
  <2>4. QED
    BY <1>7, <2>2, <2>3
<1>9. AtTheRoot' /\ BaselineOnRecord' /\ BestIsFirstMaximum' /\ Bounded'
  <2>1. AtTheRoot' /\ BaselineOnRecord'
    BY <1>2, <1>3, <1>4 DEF IInv, AtTheRoot, BaselineOnRecord, Admitted
  <2>2. BestIsFirstMaximum'
    BY <1>2 DEF IInv, BestIsFirstMaximum, Admitted
  <2>3. Bounded'
    BY <1>2, <1>4 DEF IInv, Bounded
  <2>4. QED
    BY <2>1, <2>2, <2>3
<1>10. AtTheBaseline'
  <2> SUFFICES ASSUME Len(nodes) = 1, ~BaselineIsRoot
               PROVE  /\ BaselinePending(nodes[1].score) \in frontier'
                      /\ \A p \in frontier' :
                           \/ p = BaselinePending(nodes[1].score)
                           \/ /\ p.parentScore = nodes[1].score
                              /\ p.admitted \subseteq RootState
    BY <1>2, <1>4 DEF AtTheBaseline, BaselinePending, BaselineState
  <2>1. /\ BaselinePending(nodes[1].score) \in frontier
        /\ \A p \in frontier :
             \/ p = BaselinePending(nodes[1].score)
             \/ /\ p.parentScore = nodes[1].score
                /\ p.admitted \subseteq RootState
    BY DEF IInv, AtTheBaseline
  <2>2. q.parentScore = nodes[1].score
    BY <1>5 DEF Last
  <2>3. q.admitted \subseteq RootState
    <3>1. ChildDrops(c) \in SUBSET Item /\ {} \union ChildDrops(c) = ChildDrops(c)
      BY <1>3 DEF ChildDrops, CandidateOK, Node, PendingState
    <3>2. StateFromColoring({} \union ChildDrops(c)) \subseteq StateFromColoring({})
      BY <1>1, <3>1, DropsShrink
    <3>3. QED
      BY <1>5, <3>1, <3>2 DEF Child, RootState
  <2>4. frontier \subseteq frontier' /\ frontier' \subseteq frontier \union {q}
    BY <1>7
  <2> HIDE DEF q
  <2>5. QED
    BY <2>1, <2>2, <2>3, <2>4
<1>11. frontier' \subseteq frontier \union {q}
  BY <1>7
<1>12. OneBaseline' /\ Colored'
  <2>1. ColoredPending(q)
    BY <1>5, <1>6 DEF ColoredPending, Child
  <2> HIDE DEF q
  <2>2. OneBaseline'
    BY <1>2, <1>4, <1>6, <1>11 DEF IInv, OneBaseline
  <2>3. Colored'
    BY <1>2, <1>4, <1>11, <2>1 DEF IInv, Colored
  <2>4. QED
    BY <2>2, <2>3
<1>13. QED
  BY <1>1, <1>8, <1>9, <1>10, <1>12 DEF IInv

(* The loop does not end before the baseline: it waits in the frontier,    *)
(* and the budget leaves room for it.                                      *)
LEMMA NoEarlyStop ==
  ASSUME IInv, Stop
  PROVE  nodes # <<>> /\ (BaselineIsRoot \/ Len(nodes) >= 2)
<1>1. Len(nodes) \in Nat /\ (nodes = <<>> <=> Len(nodes) = 0)
  BY NoNodes DEF IInv, Typed
<1>2. frontier = {} \/ Len(nodes) >= Budget
  BY DEF Stop
<1>3. Budget \in Nat /\ Budget >= 1 /\ (~BaselineIsRoot => Budget >= 2)
  BY BudgetCoversBaseline
<1>4. nodes = <<>> => frontier # {}
  BY DEF IInv, AtTheRoot
<1>5. nodes # <<>>
  BY <1>1, <1>2, <1>3, <1>4
<1>6. Len(nodes) = 1 /\ ~BaselineIsRoot => frontier # {}
  BY DEF IInv, AtTheBaseline
<1>7. ASSUME ~BaselineIsRoot
      PROVE  Len(nodes) >= 2
  <2>1. Len(nodes) # 0
    BY <1>1, <1>5
  <2>2. Len(nodes) = 1 => Len(nodes) >= Budget
    BY <1>2, <1>6, <1>7
  <2>3. Budget \in Nat /\ Budget >= 2
    BY <1>3, <1>7
  <2>4. \A k, b \in Nat : k # 0 /\ (k = 1 => k >= b) /\ b >= 2 => k >= 2
    OBVIOUS
  <2>5. QED
    BY <1>1, <2>1, <2>2, <2>3, <2>4
<1>8. QED
  BY <1>5, <1>7

LEMMA IInvStep ==
  ASSUME IInv, [Next]_vars
  PROVE  IInv'
<1> USE DEF Admitted
<1>1. ASSUME NEW p \in frontier, NEW o \in Outcomes, Probe(p, o)
      PROVE  IInv'
  BY <1>1, IInvProbe
<1>2. ASSUME NEW c \in todo, TryCandidate(c)
      PROVE  IInv'
  BY <1>2, IInvTry
<1>3. ASSUME UNCHANGED <<seeds, badSigs, nodes, frontier, seen, best, baseline>>,
             nodes # <<>> \/ phase' = phase,
             phase' = "done" => nodes # <<>> /\ (BaselineIsRoot \/ Len(nodes) >= 2)
      PROVE  IInv'
  <2>1. Typed'
    BY TypedStep DEF IInv
  <2>2. /\ RootState' = RootState /\ BaselineState' = BaselineState
        /\ BaselineIsRoot' = BaselineIsRoot /\ Budget' = Budget
        /\ \A p : ColoredPending(p)' = ColoredPending(p)
    BY <1>3, InputStable DEF BaselineState
  <2>3. Distinct'
    BY <1>3 DEF IInv, Distinct
  <2>4. AtTheRoot' /\ BaselineOnRecord'
    BY <1>3, <2>2 DEF IInv, AtTheRoot, BaselineOnRecord, RootPending
  <2>5. AtTheBaseline'
    BY <1>3, <2>2 DEF IInv, AtTheBaseline, BaselinePending
  <2>6. OneBaseline' /\ Colored'
    BY <1>3, <2>2 DEF IInv, OneBaseline, Colored
  <2>7. Bounded' /\ BestIsFirstMaximum'
    BY <1>3, <2>2 DEF IInv, Bounded, BestIsFirstMaximum
  <2>8. QED
    BY <2>1, <2>3, <2>4, <2>5, <2>6, <2>7 DEF IInv
<1>4. CASE EndExpansion
  <2>1. nodes # <<>>
    BY <1>4 DEF EndExpansion, IInv, Typed
  <2>2. QED
    BY <1>3, <1>4, <2>1 DEF EndExpansion
<1>5. CASE Stop
  BY <1>3, <1>5, NoEarlyStop DEF Stop
<1>6. CASE UNCHANGED vars
  BY <1>3, <1>6 DEF vars, IInv, Bounded
<1>7. QED
  BY <1>1, <1>2, <1>4, <1>5, <1>6 DEF Next

LEMMA SearchInvariant == Spec => []IInv
BY IInvInit, IInvStep, PTL DEF Spec

-----------------------------------------------------------------------------
(* Theorems.                                                               *)

(* However many repairs lead to it, a state is probed once, and the budget *)
(* of --max-search-nodes is kept.                                          *)
THEOREM SearchProbesOnce == Spec => []NoStateProbedTwice
<1>1. IInv => NoStateProbedTwice
  BY DEF IInv, Distinct, Bounded, NoStateProbedTwice
<1>2. QED
  BY <1>1, SearchInvariant, PTL

(* The admit-everything state is the second one probed, when it is not the *)
(* first: it beats every child of the root on size.                        *)
THEOREM SearchProbesBaseline == Spec => []BaselineIsNodeOne
<1>1. IInv => BaselineIsNodeOne
  BY DEF IInv, BaselineOnRecord, BaselineIsNodeOne
<1>2. QED
  BY <1>1, SearchInvariant, PTL

(* The winner is the first of the best states probed.                      *)
THEOREM SearchKeepsFirstBest == Spec => []BestIsFirstMaximum
<1>1. IInv => BestIsFirstMaximum
  BY DEF IInv
<1>2. QED
  BY <1>1, SearchInvariant, PTL

LEMMA BaselineRecorded ==
  ASSUME IInv, nodes # <<>>, BaselineIsRoot \/ Len(nodes) >= 2
  PROVE  /\ baseline.node + 1 \in DOMAIN nodes
         /\ baseline.node < Len(nodes)
         /\ Admitted(baseline.node + 1) = BaselineState
         /\ baseline.score = nodes[baseline.node + 1].score
<1>1. /\ Len(nodes) \in Nat /\ DOMAIN nodes = 1 .. Len(nodes)
      /\ (nodes = <<>> <=> Len(nodes) = 0)
  BY NoNodes DEF IInv, Typed
<1>3. Len(nodes) # 0
  BY <1>1
<1>4. CASE BaselineIsRoot
  <2>1. Admitted(1) = BaselineState /\ baseline = [score |-> nodes[1].score, node |-> 0]
    BY <1>4 DEF IInv, BaselineOnRecord, BaselineIsRoot
  <2>2. 1 \in DOMAIN nodes /\ 0 < Len(nodes)
    BY <1>1, <1>3
  <2>3. baseline.node = 0 /\ baseline.score = nodes[1].score
    BY <2>1
  <2>4. QED
    BY <2>1, <2>2, <2>3
<1>5. CASE ~BaselineIsRoot
  <2>1. Len(nodes) >= 2
    BY <1>5
  <2>2. Admitted(2) = BaselineState /\ baseline = [score |-> nodes[2].score, node |-> 1]
    BY <1>5, <2>1 DEF IInv, BaselineOnRecord
  <2>3. 2 \in DOMAIN nodes /\ 1 < Len(nodes)
    BY <1>1, <2>1
  <2>4. baseline.node = 1 /\ baseline.score = nodes[2].score
    BY <2>2
  <2>5. QED
    BY <2>2, <2>3, <2>4
<1>6. QED
  BY <1>4, <1>5

(* FR-50, for any probe: when the search ends the unrestricted import has  *)
(* been measured, and the winner is no worse.                              *)
THEOREM SearchNeverWorse == Spec => []NeverWorseThanBaseline
<1>1. ASSUME IInv, phase = "done"
      PROVE  ~IsBetterThan(baseline.score, best.score)
  <2>1. nodes # <<>> /\ (BaselineIsRoot \/ Len(nodes) >= 2)
    BY <1>1 DEF IInv, Bounded
  <2>2. \A i \in DOMAIN nodes : ~IsBetterThan(nodes[i].score, best.score)
    BY <1>1, <2>1 DEF IInv, BestIsFirstMaximum
  <2>3. QED
    BY <1>1, <2>1, <2>2, BaselineRecorded
<1>2. IInv => NeverWorseThanBaseline
  BY <1>1, BaselineRecorded DEF NeverWorseThanBaseline, IInv, Bounded
<1>3. QED
  BY <1>2, SearchInvariant, PTL

(* Every repair gives something up, so every path of the search is finite: *)
(* what it drops was admitted, and what was admitted had not been dropped. *)
THEOREM SearchGivesUpItems == Spec => []RepairsGiveUpItems
<1>1. ASSUME IInv, NEW c \in todo
      PROVE  /\ ~(c.drops \subseteq Last.pending.drops)
             /\ StateFromColoring(ChildDrops(c)) \subseteq Last.pending.admitted
             /\ StateFromColoring(ChildDrops(c)) # Last.pending.admitted
  <2> DEFINE p == Last.pending
  <2>1. Typed /\ TypeOK /\ nodes # <<>> /\ CandidateOK(c, p.admitted) /\ InputOK
    BY <1>1, InputIsTyped DEF IInv, Typed
  <2>2. Len(nodes) \in DOMAIN nodes /\ Last \in Node
    BY <2>1, LastIsNode
  <2>3. p.drops \in SUBSET Item /\ p.admitted \in SUBSET Item
        /\ c.drops \in SUBSET Item /\ c.drops \subseteq p.admitted /\ c.drops # {}
    BY <2>1, <2>2 DEF CandidateOK, Node, PendingState
  <2>4. ColoredPending(p)
    BY <1>1, <2>2 DEF IInv, Colored, Last
  <2>5. ChildDrops(c) = p.drops \union c.drops
    BY DEF ChildDrops
  <2> HIDE DEF p
  <2>6. p.admitted \intersect p.drops = {}
    BY <2>1, <2>3, <2>4, DropsAreOut DEF ColoredPending
  <2>7. ~(c.drops \subseteq p.drops)
    BY <2>3, <2>6
  <2>8. StateFromColoring(p.drops \union c.drops) \subseteq p.admitted
    <3>0. p.drops \union c.drops \in SUBSET Item
      BY <2>3
    <3>1. CASE p.why = "baseline"
      <4>1. p.admitted = Item
        BY <2>4, <3>1 DEF ColoredPending, BaselineState
      <4>2. StateFromColoring(p.drops \union c.drops) \subseteq Item
        BY <2>1, <3>0, DropsAreOut
      <4>3. QED
        BY <4>1, <4>2
    <3>2. CASE p.why # "baseline"
      <4>1. p.admitted = StateFromColoring(p.drops)
        BY <2>4, <3>2 DEF ColoredPending
      <4>2. StateFromColoring(p.drops \union c.drops) \subseteq StateFromColoring(p.drops)
        BY <2>1, <2>3, DropsShrink
      <4>3. QED
        BY <4>1, <4>2
    <3>3. QED
      BY <3>1, <3>2
  <2>9. StateFromColoring(p.drops \union c.drops) \intersect c.drops = {}
    <3>1. p.drops \union c.drops \in SUBSET Item
      BY <2>3
    <3>2. StateFromColoring(p.drops \union c.drops) \intersect (p.drops \union c.drops) = {}
      BY <2>1, <3>1, DropsAreOut
    <3>3. QED
      BY <3>2
  <2>10. QED
    BY <2>3, <2>5, <2>7, <2>8, <2>9 DEF p
<1>2. IInv => RepairsGiveUpItems
  BY <1>1 DEF RepairsGiveUpItems
<1>3. QED
  BY <1>2, SearchInvariant, PTL

(* Memoizing on the admitted set is sound: two paths of drops that leave   *)
(* the same items have the same children.                                  *)
THEOREM SearchMemoIsSound == Spec => []MemoIsSound
<1>1. IInv => MemoIsSound
  BY OnlyTheStateMatters, InputIsTyped DEF IInv, Typed, MemoIsSound
<1>2. QED
  BY <1>1, SearchInvariant, PTL

-----------------------------------------------------------------------------
(* The search implements its promise.                                      *)

Tried == {[state |-> Admitted(i), score |-> nodes[i].score] : i \in DOMAIN nodes}

LEMMA NodesAreTyped ==
  ASSUME TypeOK, NEW i \in DOMAIN nodes
  PROVE  Admitted(i) \in SUBSET Item /\ nodes[i].score \in Score
<1>1. nodes \in Seq(Node) /\ i \in 1 .. Len(nodes)
  BY NoNodes DEF TypeOK
<1>2. nodes[i] \in Node
  BY <1>1, ElementOfSeq
<1>3. QED
  BY <1>2 DEF Node, PendingState, Admitted

(* A probe tries one more port, one never tried before.                    *)
LEMMA ProbeTries ==
  ASSUME IInv, NEW p \in frontier, NEW o \in Outcomes, Probe(p, o)
  PROVE  Promise!Try
<1> DEFINE t == [state |-> p.admitted, score |-> ScoreOf(o)]
           k == Len(nodes)
<1>1. Typed
  BY DEF IInv
<1>2. /\ k \in Nat /\ ScoreOf(o) \in Score
      /\ DOMAIN nodes = 1 .. k /\ DOMAIN nodes' = 1 .. k + 1
      /\ \A i \in DOMAIN nodes : nodes'[i] = nodes[i]
      /\ nodes'[k + 1].pending = p /\ nodes'[k + 1].score = ScoreOf(o)
  BY <1>1, ProbeEffect
<1>3. p.admitted \in SUBSET Item
  BY <1>1 DEF Typed, TypeOK, PendingState
<1>4. t \in [state : SUBSET Item, score : Promise!Score]
  BY <1>2, <1>3 DEF Promise!Score, Score
<1>5. \A u \in Tried : u.state # t.state
  BY DEF IInv, Distinct, Tried
<1>6. Tried' = Tried \union {t}
  <2>1. /\ nodes'[k + 1].pending.admitted = p.admitted
        /\ nodes'[k + 1].score = ScoreOf(o)
    BY <1>2
  <2>2. DOMAIN nodes' = DOMAIN nodes \union {k + 1}
    BY <1>2
  <2>3. Tried' = {[state |-> nodes'[i].pending.admitted, score |-> nodes'[i].score] :
                    i \in DOMAIN nodes'}
    BY DEF Tried, Admitted
  <2>4. \A i \in DOMAIN nodes :
          [state |-> nodes'[i].pending.admitted, score |-> nodes'[i].score]
            = [state |-> Admitted(i), score |-> nodes[i].score]
    BY <1>2 DEF Admitted
  <2> DEFINE R(i) == [state |-> nodes'[i].pending.admitted, score |-> nodes'[i].score]
             S(i) == [state |-> Admitted(i), score |-> nodes[i].score]
             D == DOMAIN nodes
             E == DOMAIN nodes'
             m == k + 1
  <2>5. R(m) = t /\ E = D \union {m} /\ \A i \in D : R(i) = S(i)
    BY <2>1, <2>2, <2>4
  <2>6. Tried' = {R(i) : i \in E} /\ Tried = {S(i) : i \in D}
    BY <2>3 DEF Tried
  <2> HIDE DEF R, S, D, E, m, t
  <2>7. {R(i) : i \in E} = {S(i) : i \in D} \union {t}
    BY <2>5
  <2>8. QED
    BY <2>6, <2>7
<1>7. t \in Tried' \ Tried
  BY <1>5, <1>6
<1>8. phase # "done" /\ phase' # "done"
  BY DEF Probe
<1>9. QED
  BY <1>4, <1>5, <1>6, <1>7, <1>8 DEF Promise!Try, Tried

(* The end of the loop answers with a port that no tried port beats.       *)
LEMMA StopAnswers ==
  ASSUME IInv, Stop
  PROVE  Promise!Answer
<1>1. Typed /\ TypeOK /\ nodes # <<>> /\ (BaselineIsRoot \/ Len(nodes) >= 2)
  BY NoEarlyStop DEF IInv, Typed
<1>2. /\ baseline.node + 1 \in DOMAIN nodes
      /\ Admitted(baseline.node + 1) = BaselineState
  BY <1>1, BaselineRecorded
<1>3. \E t \in Tried : t.state = Item
  <2> DEFINE m == baseline.node + 1
             u == [state |-> Admitted(m), score |-> nodes[m].score]
  <2>1. m \in DOMAIN nodes /\ Admitted(m) = Item
    BY <1>2 DEF BaselineState
  <2>2. u.state = Item
    BY <2>1
  <2> HIDE DEF m
  <2>3. u \in Tried
    BY <2>1 DEF Tried
  <2>4. QED
    BY <2>2, <2>3
<1> DEFINE b == [state |-> best.admitted, score |-> best.score]
<1>4. best.node + 1 \in DOMAIN nodes
  <2>1. best.node \in Nat /\ best.node < Len(nodes)
    BY <1>1 DEF TypeOK, IInv, BestIsFirstMaximum
  <2>2. QED
    BY <1>1, <2>1, NoNodes
<1>5. b \in Tried /\ \A u \in Tried : ~IsBetterThan(u.score, b.score)
  BY <1>1, <1>4 DEF Tried, IInv, BestIsFirstMaximum
<1>6. \A u \in Tried : ~Promise!IsBetterThan(u.score, b.score)
  BY <1>5 DEF Promise!IsBetterThan, IsBetterThan
<1>7. phase # "done" /\ phase' = "done" /\ best' = best /\ nodes' = nodes
  BY DEF Stop
<1>8. Tried' = Tried
  BY <1>7 DEF Tried, Admitted
<1>9. QED
  BY <1>3, <1>5, <1>6, <1>7, <1>8 DEF Promise!Answer, Tried

(* The search keeps its promise: frontier, repairs, colorings and budget   *)
(* are ways to try ports, and its answer is one nothing it tried beats,    *)
(* the plain incremental compile included.                                 *)
THEOREM SearchKeepsPromise == Spec => KeepsPromise
<1>1. Init => Promise!Init
  <2> SUFFICES ASSUME Init PROVE Promise!Init
    OBVIOUS
  <2>1. DOMAIN nodes = {} /\ phase # "done"
    <3>1. TypeOK /\ nodes = <<>> /\ phase = "probe"
      BY TypedInit DEF Init, Typed
    <3>2. Len(nodes) = 0 /\ DOMAIN nodes = 1 .. Len(nodes)
      BY <3>1, NoNodes
    <3>3. DOMAIN nodes = 1 .. 0
      BY <3>2
    <3>4. QED
      BY <3>1, <3>3
  <2>2. QED
    BY <2>1 DEF Promise!Init
<1>2. ASSUME IInv, [Next]_vars
      PROVE  Promise!Next \/ (Tried' = Tried /\ phase' = phase /\ best' = best)
                          \/ (Tried' = Tried /\ phase # "done" /\ phase' # "done")
  <2>1. ASSUME NEW p \in frontier, NEW o \in Outcomes, Probe(p, o)
        PROVE  Promise!Next
    BY <1>2, <2>1, ProbeTries DEF Promise!Next
  <2>2. CASE Stop
    BY <1>2, <2>2, StopAnswers DEF Promise!Next
  <2>3. CASE (\E c \in todo : TryCandidate(c)) \/ EndExpansion
    BY <2>3 DEF TryCandidate, EndExpansion, Tried, Admitted
  <2>4. CASE UNCHANGED vars
    BY <2>4 DEF vars, Tried, Admitted
  <2>5. QED
    BY <1>2, <2>1, <2>2, <2>3, <2>4 DEF Next
<1>3. IInv /\ [Next]_vars => [Promise!Next]_(Promise!vars)
  BY <1>2 DEF Promise!vars, Tried
<1>4. QED
  BY <1>1, <1>3, SearchInvariant, PTL DEF Spec, KeepsPromise, Promise!Spec
=============================================================================
