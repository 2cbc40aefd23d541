----------------------------- MODULE ItemColoring -----------------------------
(***************************************************************************)
(* The three-color analysis of lib/Project/ItemColoring.cpp, from the      *)
(* probe's verdict table to the published blame chains:                    *)
(*                                                                         *)
(*   probe   AdmissibilityProbe meets the rejections in declaration order  *)
(*           and ItemAdmissibility::reject merges them into verdicts;      *)
(*   color   runColorFixpoint sweeps the successors until a pass changes   *)
(*           nothing;                                                      *)
(*   rank    runRankFixpoint sweeps the items until a pass changes nothing;*)
(*   red     solve blames the Red items in (rank, symbol) order;           *)
(*   rest    solve colors every other item Yellow or leaves it Green.      *)
(*                                                                         *)
(* Declarations, edges and items are visited in ANY order: the code's      *)
(* order is that of its input vectors, and the header promises the answer  *)
(* does not depend on it.                                                  *)
(***************************************************************************)
EXTENDS PoisonRules, Sequences

CONSTANTS
  AdmittedBase,        \* records whose base the importer takes as a field
  Tag,                 \* construct tags; their numbers are the string order
  PossibleEdges,       \* the edges a graph may have
  PossibleRejections   \* what the probe may find: <<item, tag, signature?>>

ASSUME InputAssumption ==
  /\ AdmittedBase \subseteq Item
  /\ Tag \subseteq Nat \ {0}
  /\ \A e \in PossibleEdges : WellFormedEdge(e)
  /\ PossibleRejections \subseteq Item \X Tag \X BOOLEAN

NoTag   == 0
NoRank  == -1      \* the sentinel kNoRank, above every real rank
NoVia   == [to |-> NoTarget, kind |-> "none"]

VARIABLES
  edges, rejected,     \* the input: graph edges and the probe's findings
  phase,               \* which loop is running
  toReject,            \* findings not merged into the verdicts yet
  construct,           \* the tag of each verdict
  inadmissible,        \* items with an inadmissible verdict
  red, unsignable,     \* the growing sets red and signatureBroken
  rank,                \* poison steps to the nearest seed
  sweep, changed,      \* what this pass has still to visit; did it change?
  item                 \* the published items: color, reason, via, chain, tag

vars == <<edges, rejected, phase, toReject, construct, inadmissible, red,
          unsignable, rank, sweep, changed, item>>

Succ(n) == {e \in Resolved(edges) : e.from = n}

(* What buildItemGraph guarantees of the edges: taking the address of a    *)
(* global also counts as reading it.                                       *)
AddressesAreReads ==
  \A e \in edges : e.kind = "AddressOfGlobal" =>
    \E f \in edges : f.from = e.from /\ f.kind = "ReadsGlobal" /\ f.to = e.to

(* probeRecord rejects a record with bases, unless it has a single one the *)
(* importer admits as its first field.                                     *)
BasesScreened ==
  \A e \in edges : e.kind = "Base" =>
    \/ e.from \in AdmittedBase /\ \A f \in Succ(e.from) : f.kind = "Base" => f = e
    \/ \E r \in rejected : r[1] = e.from

Unvisited ==
  [color |-> "green", reason |-> "admissible", via |-> NoVia,
   chain |-> <<>>, tag |-> NoTag]

Init ==
  /\ edges \in SUBSET PossibleEdges
  /\ rejected \in SUBSET PossibleRejections
  /\ AddressesAreReads /\ BasesScreened
  /\ phase = "probe"
  /\ toReject = rejected
  /\ construct = [n \in Item |-> NoTag]
  /\ inadmissible = {}
  /\ red = {} /\ unsignable = {}
  /\ rank = [n \in Item |-> NoRank]
  /\ sweep = {} /\ changed = FALSE
  /\ item = [n \in Item |-> Unvisited]

-----------------------------------------------------------------------------
(* The verdict table.                                                      *)

(* A mistake in reject: the last level wins.                              *)
RejectKeepsLastLevel(n, tag, signatureLevel) ==
  /\ inadmissible' = inadmissible \union {n}
  /\ unsignable' = IF signatureLevel THEN unsignable \union {n} ELSE unsignable \ {n}
  /\ construct' = [construct EXCEPT
                     ![n] = IF @ = NoTag \/ tag < @ THEN tag ELSE @]

Reject(n, tag, signatureLevel) ==
  /\ inadmissible' = inadmissible \union {n}
  /\ unsignable' = IF signatureLevel THEN unsignable \union {n} ELSE unsignable
  /\ construct' = [construct EXCEPT
                     ![n] = IF @ = NoTag \/ tag < @ THEN tag ELSE @]

ProbeDeclaration ==
  /\ phase = "probe"
  /\ \E r \in toReject :
        /\ Reject(r[1], r[2], r[3])
        /\ toReject' = toReject \ {r}
  /\ UNCHANGED <<edges, rejected, phase, red, rank, sweep, changed, item>>

Build ==
  /\ phase = "probe" /\ toReject = {}
  /\ red' = inadmissible
  /\ rank' = [n \in Item |-> IF n \in inadmissible THEN 0 ELSE NoRank]
  /\ phase' = "color"
  /\ sweep' = Resolved(edges)
  /\ changed' = FALSE
  /\ UNCHANGED <<edges, rejected, toReject, construct, inadmissible,
                 unsignable, item>>

-----------------------------------------------------------------------------
(* The color fixpoint.                                                     *)

VisitSuccessor(e) ==
  /\ phase = "color" /\ e \in sweep
  /\ red' = IF PoisonsRed(e, red, unsignable) THEN red \union {e.from} ELSE red
  /\ unsignable' = IF e.kind = "SigType" /\ e.to \in red'
                   THEN unsignable \union {e.from} ELSE unsignable
  /\ changed' = (changed \/ red' # red \/ unsignable' # unsignable)
  /\ sweep' = sweep \ {e}
  /\ UNCHANGED <<edges, rejected, phase, toReject, construct, inadmissible,
                 rank, item>>

(* A mistake: one pass only.                                               *)
EndColorPassOnce ==
  /\ phase = "color" /\ sweep = {}
  /\ changed' = FALSE /\ phase' = "rank" /\ sweep' = red
  /\ UNCHANGED <<edges, rejected, toReject, construct, inadmissible, red,
                 unsignable, rank, item>>

EndColorPass ==
  /\ phase = "color" /\ sweep = {}
  /\ changed' = FALSE
  /\ IF changed THEN phase' = "color" /\ sweep' = Resolved(edges)
                ELSE phase' = "rank" /\ sweep' = red
  /\ UNCHANGED <<edges, rejected, toReject, construct, inadmissible, red,
                 unsignable, rank, item>>

-----------------------------------------------------------------------------
(* The rank fixpoint.                                                      *)

Closer(r, s) == r # NoRank /\ (s = NoRank \/ r < s)

(* The rank n has and those its successors that poison it Red offer it.    *)
OfferedRanks(n) ==
  {rank[n]} \union
  {rank[e.to] + 1 :
     e \in {f \in Succ(n) : PoisonsRed(f, red, unsignable) /\ rank[f.to] # NoRank}}

VisitRank(n) ==
  /\ phase = "rank" /\ n \in sweep
  /\ \E best \in OfferedRanks(n) :
        /\ \A r \in OfferedRanks(n) : ~Closer(r, best)
        /\ rank' = [rank EXCEPT ![n] = best]
        /\ changed' = (changed \/ best # rank[n])
  /\ sweep' = sweep \ {n}
  /\ UNCHANGED <<edges, rejected, phase, toReject, construct, inadmissible,
                 red, unsignable, item>>

EndRankPass ==
  /\ phase = "rank" /\ sweep = {}
  /\ changed' = FALSE
  /\ phase' = IF changed THEN "rank" ELSE "red"
  /\ sweep' = red
  /\ UNCHANGED <<edges, rejected, toReject, construct, inadmissible, red,
                 unsignable, rank, item>>

-----------------------------------------------------------------------------
(* Blame.                                                                  *)

SuccessorBefore(e, f) ==
  \/ KindValue[e.kind] < KindValue[f.kind]
  \/ e.kind = f.kind /\ e.to < f.to

IsFirst(e, es) == \A f \in es \ {e} : SuccessorBefore(e, f)

BlockerItself(n) ==
  [color |-> "red", reason |-> "inadmissible", via |-> NoVia,
   chain |-> <<n>>, tag |-> construct[n]]

(* A mistake: any poisoning neighbor will do.                              *)
HardNeighborsAnyRank(n) == {e \in Succ(n) : PoisonsRed(e, red, unsignable)}

HardNeighbors(n) ==
  {e \in Succ(n) : /\ PoisonsRed(e, red, unsignable)
                   /\ rank[e.to] = rank[n] - 1}

RedNeighbors(n) == {e \in Succ(n) : PoisonBearing(e.kind) /\ e.to \in red}

(* Publish n, blaming the first of its candidate edges (if there is one)   *)
(* and splicing the chain of that edge's target.                           *)
Blame(n, hardOnly) ==
  LET candidates == IF hardOnly THEN HardNeighbors(n) ELSE RedNeighbors(n)
      color      == IF hardOnly THEN "red" ELSE "yellow"
  IN  \/ /\ candidates = {}
         /\ item' = [item EXCEPT ![n] = [Unvisited EXCEPT !.color = color]]
      \/ \E e \in candidates :
            /\ IsFirst(e, candidates)
            /\ item' = [item EXCEPT ![n] =
                 [color  |-> color,
                  reason |-> IF hardOnly THEN RedReasonFor(e.kind) ELSE "stub-callee",
                  via    |-> [to |-> e.to, kind |-> e.kind],
                  chain  |-> <<n>> \o item[e.to].chain,
                  tag    |-> item[e.to].tag]]

EarlierInRedOrder(m, n) ==
  Closer(rank[m], rank[n]) \/ (rank[m] = rank[n] /\ m < n)

SolveRed(n) ==
  /\ phase = "red" /\ n \in sweep
  /\ \A m \in sweep \ {n} : ~EarlierInRedOrder(m, n)
  /\ IF n \in inadmissible THEN item' = [item EXCEPT ![n] = BlockerItself(n)]
     ELSE Blame(n, TRUE)
  /\ sweep' = sweep \ {n}
  /\ UNCHANGED <<edges, rejected, phase, toReject, construct, inadmissible,
                 red, unsignable, rank, changed>>

EndRed ==
  /\ phase = "red" /\ sweep = {}
  /\ phase' = "rest" /\ sweep' = Item \ red
  /\ UNCHANGED <<edges, rejected, toReject, construct, inadmissible, red,
                 unsignable, rank, changed, item>>

SolveRest(n) ==
  /\ phase = "rest" /\ n \in sweep
  /\ IF RedNeighbors(n) = {} THEN UNCHANGED item
     ELSE Blame(n, FALSE)
  /\ sweep' = sweep \ {n}
  /\ UNCHANGED <<edges, rejected, phase, toReject, construct, inadmissible,
                 red, unsignable, rank, changed>>

Publish ==
  /\ phase = "rest" /\ sweep = {}
  /\ phase' = "done"
  /\ UNCHANGED <<edges, rejected, toReject, construct, inadmissible, red,
                 unsignable, rank, sweep, changed, item>>

-----------------------------------------------------------------------------
Next ==
  \/ ProbeDeclaration
  \/ Build
  \/ \E e \in Resolved(edges) : VisitSuccessor(e)
  \/ EndColorPass
  \/ \E n \in Item : VisitRank(n)
  \/ EndRankPass
  \/ \E n \in Item : SolveRed(n)
  \/ EndRed
  \/ \E n \in Item : SolveRest(n)
  \/ Publish

Spec == Init /\ [][Next]_vars

Decided == phase \notin {"probe", "color"}
Ranked  == phase \in {"red", "rest", "done"}

-----------------------------------------------------------------------------
(* Properties.                                                             *)

Seeds   == {n \in Item : \E r \in rejected : r[1] = n}
BadSigs == {n \in Item : \E r \in rejected : r[1] = n /\ r[3]}

ItemRecord ==
  [color : {"green", "yellow", "red"},
   reason : {"admissible", "inadmissible", "red-type", "red-global",
             "red-callee", "stub-callee"},
   via : [to : Item, kind : EdgeKind] \union {NoVia},
   chain : Seq(Item), tag : Tag \union {NoTag}]

(* Every variable keeps its type. *)
TypeOK ==
  /\ edges \subseteq PossibleEdges /\ rejected \subseteq PossibleRejections
  /\ phase \in {"probe", "color", "rank", "red", "rest", "done"}
  /\ toReject \subseteq rejected
  /\ construct \in [Item -> Tag \union {NoTag}]
  /\ inadmissible \subseteq Item /\ red \subseteq Item /\ unsignable \subseteq Item
  /\ rank \in [Item -> Nat \union {NoRank}]
  /\ changed \in BOOLEAN
  /\ IF phase = "color" THEN sweep \subseteq Resolved(edges) ELSE sweep \subseteq Item
  /\ item \in [Item -> ItemRecord]

(* runColorFixpoint stops at the LEAST fixpoint of its two rules, so an    *)
(* item is Red only when it must be and the result owes nothing to the     *)
(* order of the sweep ("a false Red costs items, permanently").            *)
LeastFixpoint ==
  Decided => /\ red = LeastRed(edges, Seeds, BadSigs)
             /\ unsignable = LeastUnsignable(edges, Seeds, BadSigs)

(* What is emitted compiles: a Green or Yellow item names nothing that is  *)
(* dropped.  The only Red things it depends on are functions whose         *)
(* signature can still be written, reached by a call or an address.        *)
EmittedItemsCompile ==
  Ranked => \A e \in Resolved(edges) :
    (e.from \notin red /\ PoisonBearing(e.kind) /\ e.to \in red)
      => e.kind \in CallKinds /\ StubReplaceable(e.to, unsignable)

(* Poisoned(k): the items that reach an inadmissible one by at most k      *)
(* edges that poison Red.                                                  *)
Poisoned[k \in Nat] ==
  IF k = 0 THEN inadmissible
  ELSE Poisoned[k - 1] \union
       {e.from : e \in {f \in Resolved(edges) :
                          PoisonBearing(f.kind) /\ f.to \in Poisoned[k - 1]
                            /\ ~StubReplaceable(f.to, unsignable)}}

(* blame: "a Red non-seed always has a poisoning neighbor", so the early   *)
(* return that would publish a Red item without a reason is never taken.   *)
BlameNeverStuck ==
  Ranked => \A n \in red \ inadmissible : HardNeighbors(n) # {}

HardStep(m, n) ==
  \E e \in Succ(m) : e.to = n /\ PoisonsRed(e, red, unsignable)

EndsAtItsRoot(n) ==
  LET c == item[n].chain
  IN  /\ c # <<>> /\ c[1] = n
      /\ c[Len(c)] \in inadmissible
      /\ item[n].tag = construct[c[Len(c)]]

(* The blame chain of a Red item walks from the item to an inadmissible    *)
(* one along edges that each poison Red, a rank at a time, so it never     *)
(* loops through a cycle of Red items, and names the root's construct.     *)
RedChainsReachTheirRoot ==
  \A n \in red : (phase = "red" /\ n \notin sweep) \/ phase \in {"rest", "done"} =>
    LET c == item[n].chain
    IN  /\ item[n].color = "red"
        /\ EndsAtItsRoot(n)
        /\ Len(c) = rank[n] + 1
        /\ \A i \in 1 .. Len(c) - 1 :
              HardStep(c[i], c[i + 1]) /\ rank[c[i + 1]] = rank[c[i]] - 1

(* The analysis implements its promise: one step decides, none revises.    *)
Promise == INSTANCE ColoringPromise WITH
  answer <- [decided    |-> Decided,
             red        |-> IF Decided THEN red ELSE {},
             unsignable |-> IF Decided THEN unsignable ELSE {}]
KeepsPromise == Promise!Spec
=============================================================================
