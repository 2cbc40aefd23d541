-------------------------- MODULE ItemColoringProofs --------------------------
(***************************************************************************)
(* Proofs about ItemColoring, for every graph, every set of findings and   *)
(* every order of the visits.                                              *)
(***************************************************************************)
EXTENDS ItemColoring, TLAPS

-----------------------------------------------------------------------------
(* Types of the sets; the published items are not needed by the fixpoints. *)

SetsOK ==
  /\ edges \subseteq PossibleEdges
  /\ rejected \subseteq PossibleRejections
  /\ phase \in {"probe", "color", "rank", "red", "rest", "done"}
  /\ toReject \subseteq rejected
  /\ inadmissible \subseteq Item
  /\ red \subseteq Item
  /\ unsignable \subseteq Item
  /\ rank \in [Item -> Nat \union {NoRank}]
  /\ changed \in BOOLEAN

(* The actions after the color phase leave the sets alone. *)
Later ==
  \/ \E n \in Item : VisitRank(n)
  \/ EndRankPass
  \/ \E n \in Item : SolveRed(n)
  \/ EndRed
  \/ \E n \in Item : SolveRest(n)
  \/ Publish

LEMMA EdgeShape ==
  ASSUME NEW E \in SUBSET PossibleEdges, NEW e \in Resolved(E)
  PROVE  /\ e \in E /\ WellFormedEdge(e)
         /\ e.from \in Item /\ e.to \in Item
         /\ e.kind \in EdgeKind
<1>1. e \in E /\ e.to # NoTarget
  BY DEF Resolved
<1>2. WellFormedEdge(e)
  BY <1>1, InputAssumption
<1>3. e \in [from : Item, kind : EdgeKind, to : Item \union {NoTarget}]
  BY <1>2 DEF WellFormedEdge
<1>4. QED
  BY <1>1, <1>2, <1>3

LEMMA LaterKeepsSets ==
  ASSUME Later
  PROVE  /\ UNCHANGED <<edges, rejected, toReject, inadmissible, red, unsignable>>
         /\ phase \in {"rank", "red", "rest"}
         /\ phase' \in {"rank", "red", "rest", "done"}
<1>1. ASSUME NEW n \in Item, VisitRank(n) PROVE LaterKeepsSets!2
  BY <1>1 DEF VisitRank
<1>2. CASE EndRankPass
  BY <1>2 DEF EndRankPass
<1>3. ASSUME NEW n \in Item, SolveRed(n) PROVE LaterKeepsSets!2
  BY <1>3 DEF SolveRed
<1>4. CASE EndRed
  BY <1>4 DEF EndRed
<1>5. ASSUME NEW n \in Item, SolveRest(n) PROVE LaterKeepsSets!2
  BY <1>5 DEF SolveRest
<1>6. CASE Publish
  BY <1>6 DEF Publish
<1>7. QED
  BY <1>1, <1>2, <1>3, <1>4, <1>5, <1>6 DEF Later

LEMMA SetsInit == Init => SetsOK
  BY DEF Init, SetsOK, NoRank

LEMMA SetsNext == SetsOK /\ [Next]_vars => SetsOK'
<1> SUFFICES ASSUME SetsOK, [Next]_vars PROVE SetsOK'
  OBVIOUS
<1>1. CASE ProbeDeclaration
  <2>1. PICK r \in toReject : /\ Reject(r[1], r[2], r[3])
                              /\ toReject' = toReject \ {r}
    BY <1>1 DEF ProbeDeclaration
  <2>2. r[1] \in Item
    BY <2>1, InputAssumption DEF SetsOK
  <2>3. QED
    BY <1>1, <2>1, <2>2 DEF SetsOK, ProbeDeclaration, Reject
<1>2. CASE Build
  BY <1>2 DEF Build, SetsOK
<1>3. ASSUME NEW e \in Resolved(edges), VisitSuccessor(e) PROVE SetsOK'
  <2>1. e.from \in Item
    BY EdgeShape DEF SetsOK
  <2>2. QED
    BY <1>3, <2>1 DEF VisitSuccessor, SetsOK
<1>4. CASE EndColorPass
  BY <1>4 DEF EndColorPass, SetsOK
<1>5. ASSUME NEW n \in Item, VisitRank(n) PROVE SetsOK'
  <2>1. PICK best \in OfferedRanks(n) : /\ rank' = [rank EXCEPT ![n] = best]
                                       /\ changed' = (changed \/ best # rank[n])
    BY <1>5 DEF VisitRank
  <2>2. \A e \in Succ(n) : e.to \in Item
    BY EdgeShape DEF Succ, SetsOK
  <2>3. \A m \in Item : rank[m] # NoRank => rank[m] \in Nat
    BY DEF SetsOK
  <2>4. best \in Nat \union {NoRank}
    BY <2>2, <2>3 DEF OfferedRanks, SetsOK
  <2>5. QED
    BY <1>5, <2>1, <2>4 DEF VisitRank, SetsOK
<1>6. CASE EndRankPass
  BY <1>6 DEF EndRankPass, SetsOK
<1>7. ASSUME NEW n \in Item, SolveRed(n) PROVE SetsOK'
  BY <1>7 DEF SolveRed, SetsOK
<1>8. CASE EndRed
  BY <1>8 DEF EndRed, SetsOK
<1>9. ASSUME NEW n \in Item, SolveRest(n) PROVE SetsOK'
  BY <1>9 DEF SolveRest, SetsOK
<1>10. CASE Publish
  BY <1>10 DEF Publish, SetsOK
<1>11. CASE UNCHANGED vars
  BY <1>11 DEF vars, SetsOK
<1>12. QED
  BY <1>1, <1>2, <1>3, <1>4, <1>5, <1>6, <1>7, <1>8, <1>9, <1>10, <1>11 DEF Next

-----------------------------------------------------------------------------
(* The color fixpoint is the least one.                                    *)

Satisfied(e) ==
  /\ PoisonsRed(e, red, unsignable) => e.from \in red
  /\ (e.kind = "SigType" /\ e.to \in red) => e.from \in unsignable

(* What the findings merged so far say. *)
Merged ==
  phase = "probe" =>
    /\ inadmissible = {n \in Item : \E r \in rejected \ toReject : r[1] = n}
    /\ unsignable = {n \in Item : \E r \in rejected \ toReject : r[1] = n /\ r[3]}

(* The sets contain the seeds and are contained in every closed pair. *)
Between ==
  phase # "probe" =>
    /\ inadmissible = Seeds
    /\ Seeds \subseteq red
    /\ BadSigs \subseteq unsignable
    /\ \A R, B \in SUBSET Item :
         Closed(edges, Seeds, BadSigs, R, B) => red \subseteq R /\ unsignable \subseteq B

(* The edges this pass has visited without a change are satisfied, and     *)
(* once the phase is over all of them are.                                 *)
PassInv ==
  /\ (phase = "color" /\ ~changed) =>
        \A e \in Resolved(edges) \ sweep : Satisfied(e)
  /\ Decided => \A e \in Resolved(edges) : Satisfied(e)

ColorInv == SetsOK /\ Merged /\ Between /\ PassInv

LEMMA ColorInvInit == Init => ColorInv
<1> SUFFICES ASSUME Init PROVE ColorInv
  OBVIOUS
<1>1. SetsOK
  BY SetsInit
<1>2. Merged
  BY DEF Init, Merged
<1>3. phase = "probe"
  BY DEF Init
<1>4. QED
  BY <1>1, <1>2, <1>3 DEF ColorInv, Between, PassInv, Decided

LEMMA LaterKeepsColorInv ==
  ASSUME ColorInv, Later, SetsOK'
  PROVE  ColorInv'
<1>1. UNCHANGED <<edges, rejected, toReject, inadmissible, red, unsignable>>
  BY LaterKeepsSets
<1>2. Decided /\ Decided' /\ phase # "probe" /\ phase' # "probe" /\ phase' # "color"
  BY LaterKeepsSets DEF Decided
<1>3. Between'
  BY <1>1, <1>2 DEF ColorInv, Between, Seeds, BadSigs
<1>4. PassInv'
  BY <1>1, <1>2 DEF ColorInv, PassInv, Satisfied
<1>5. QED
  BY <1>2, <1>3, <1>4 DEF ColorInv, Merged

LEMMA VisitKeepsColorInv ==
  ASSUME ColorInv, SetsOK', NEW e \in Resolved(edges), VisitSuccessor(e)
  PROVE  ColorInv'
<1>1. /\ phase = "color" /\ phase' = "color" /\ e \in sweep
      /\ red' = IF PoisonsRed(e, red, unsignable) THEN red \union {e.from} ELSE red
      /\ unsignable' = IF e.kind = "SigType" /\ e.to \in red'
                       THEN unsignable \union {e.from} ELSE unsignable
      /\ changed' = (changed \/ red' # red \/ unsignable' # unsignable)
      /\ sweep' = sweep \ {e}
      /\ UNCHANGED <<edges, rejected, toReject, inadmissible>>
  BY DEF VisitSuccessor
<1>2. Between'
  <2>1. /\ inadmissible = Seeds /\ Seeds \subseteq red /\ BadSigs \subseteq unsignable
        /\ Seeds' = Seeds /\ BadSigs' = BadSigs
    BY <1>1 DEF ColorInv, Between, Seeds, BadSigs
  <2>2. ASSUME NEW R \in SUBSET Item, NEW B \in SUBSET Item,
               Closed(edges, Seeds, BadSigs, R, B)
        PROVE  red' \subseteq R /\ unsignable' \subseteq B
    <3>1. red \subseteq R /\ unsignable \subseteq B
      BY <1>1, <2>2 DEF ColorInv, Between
    <3>2. PoisonsRed(e, red, unsignable) => PoisonsRed(e, R, B)
      BY <3>1 DEF PoisonsRed, Unstubbed, StubReplaceable
    <3>3. red' \subseteq R
      BY <1>1, <2>2, <3>1, <3>2 DEF Closed
    <3>4. unsignable' \subseteq B
      BY <1>1, <2>2, <3>1, <3>3 DEF Closed
    <3>5. QED
      BY <3>3, <3>4
  <2>3. QED
    BY <1>1, <2>1, <2>2 DEF Between
<1>3. PassInv'
  <2>1. ASSUME ~changed', NEW f \in Resolved(edges) \ sweep'
        PROVE  Satisfied(f)'
    <3>1. ~changed /\ red' = red /\ unsignable' = unsignable
      BY <1>1, <2>1 DEF ColorInv, SetsOK
    <3>2. CASE f = e
      BY <1>1, <3>1, <3>2 DEF Satisfied
    <3>3. CASE f # e
      BY <1>1, <2>1, <3>1, <3>3 DEF ColorInv, PassInv, Satisfied
    <3>4. QED
      BY <3>2, <3>3
  <2>2. QED
    BY <1>1, <2>1 DEF PassInv, Decided
<1>4. QED
  BY <1>1, <1>2, <1>3 DEF ColorInv, Merged

LEMMA ProbeKeepsColorInv ==
  ASSUME ColorInv, SetsOK', ProbeDeclaration
  PROVE  ColorInv'
<1>1. PICK r \in toReject : /\ Reject(r[1], r[2], r[3])
                            /\ toReject' = toReject \ {r}
  BY DEF ProbeDeclaration
<1>2. /\ phase = "probe" /\ phase' = "probe"
      /\ rejected' = rejected
      /\ inadmissible' = inadmissible \union {r[1]}
      /\ unsignable' = IF r[3] THEN unsignable \union {r[1]} ELSE unsignable
  BY <1>1 DEF ProbeDeclaration, Reject
<1>3. rejected \ toReject' = (rejected \ toReject) \union {r} /\ r[1] \in Item
  BY <1>1, InputAssumption DEF ColorInv, SetsOK
<1>4. /\ inadmissible = {n \in Item : \E s \in rejected \ toReject : s[1] = n}
      /\ unsignable = {n \in Item : \E s \in rejected \ toReject : s[1] = n /\ s[3]}
  BY <1>2 DEF ColorInv, Merged
<1>5. inadmissible' = {n \in Item : \E s \in rejected \ toReject' : s[1] = n}
  BY <1>2, <1>3, <1>4
<1>6. unsignable' = {n \in Item : \E s \in rejected \ toReject' : s[1] = n /\ s[3]}
  BY <1>2, <1>3, <1>4
<1>7. QED
  BY <1>2, <1>5, <1>6 DEF ColorInv, Merged, Between, PassInv, Decided

LEMMA BuildKeepsColorInv ==
  ASSUME ColorInv, SetsOK', Build
  PROVE  ColorInv'
<1>1. /\ phase = "probe" /\ toReject = {} /\ phase' = "color"
      /\ red' = inadmissible /\ sweep' = Resolved(edges) 
      /\ UNCHANGED <<edges, rejected, inadmissible, unsignable>>
  BY DEF Build
<1>2. inadmissible = Seeds /\ unsignable = BadSigs
  BY <1>1 DEF ColorInv, Merged, Seeds, BadSigs
<1>3. Seeds' = Seeds /\ BadSigs' = BadSigs
  BY <1>1 DEF Seeds, BadSigs
<1>4. Between'
  BY <1>1, <1>2, <1>3 DEF Between, Closed
<1>5. QED
  BY <1>1, <1>4 DEF ColorInv, Merged, PassInv, Decided

LEMMA EndPassKeepsColorInv ==
  ASSUME ColorInv, SetsOK', EndColorPass
  PROVE  ColorInv'
<1>1. /\ phase = "color" /\ sweep = {} /\ changed \in BOOLEAN
      /\ phase' = IF changed THEN "color" ELSE "rank"
      /\ changed => sweep' = Resolved(edges)
      /\ UNCHANGED <<edges, rejected, inadmissible, red, unsignable>>
  BY DEF EndColorPass, ColorInv, SetsOK
<1>2. Between'
  BY <1>1 DEF ColorInv, Between, Seeds, BadSigs
<1>3. PassInv'
  BY <1>1 DEF ColorInv, PassInv, Satisfied, Decided
<1>4. QED
  BY <1>1, <1>2, <1>3 DEF ColorInv, Merged

LEMMA ColorInvNext == ColorInv /\ [Next]_vars => ColorInv'
<1> SUFFICES ASSUME ColorInv, [Next]_vars PROVE ColorInv'
  OBVIOUS
<1>1. SetsOK'
  BY SetsNext DEF ColorInv
<1>2. CASE UNCHANGED vars
  BY <1>1, <1>2 DEF vars, ColorInv, Merged, Between, PassInv, Satisfied, Decided,
     Seeds, BadSigs
<1>3. CASE Later
  BY <1>1, <1>3, LaterKeepsColorInv
<1>4. QED
  BY <1>1, <1>2, <1>3, ProbeKeepsColorInv, BuildKeepsColorInv, VisitKeepsColorInv,
     EndPassKeepsColorInv DEF Next, Later

LEMMA ColorInvAlways == Spec => []ColorInv
<1>1. ColorInv /\ [Next]_vars => ColorInv'
  BY ColorInvNext
<1>2. QED
  BY ColorInvInit, <1>1, PTL DEF Spec

LEMMA ColorInvDecides == ColorInv => LeastFixpoint
<1> SUFFICES ASSUME ColorInv, Decided
             PROVE  /\ red = LeastRed(edges, Seeds, BadSigs)
                    /\ unsignable = LeastUnsignable(edges, Seeds, BadSigs)
  BY DEF LeastFixpoint
<1>1. red \in SUBSET Item /\ unsignable \in SUBSET Item /\ phase # "probe"
  BY DEF ColorInv, SetsOK, Decided
<1>2. Closed(edges, Seeds, BadSigs, red, unsignable)
  BY <1>1 DEF ColorInv, Between, PassInv, Satisfied, Closed
<1>3. \A R, B \in SUBSET Item :
        Closed(edges, Seeds, BadSigs, R, B) => red \subseteq R /\ unsignable \subseteq B
  BY <1>1 DEF ColorInv, Between
<1>4. red = LeastRed(edges, Seeds, BadSigs)
  BY <1>1, <1>2, <1>3 DEF LeastRed
<1>5. unsignable = LeastUnsignable(edges, Seeds, BadSigs)
  BY <1>1, <1>2, <1>3 DEF LeastUnsignable
<1>6. QED
  BY <1>4, <1>5

(* For every graph and every order of the visits, the color fixpoint ends  *)
(* on the least sets closed under the two poison rules.                    *)
THEOREM FixpointIsLeast == Spec => []LeastFixpoint
  BY ColorInvAlways, ColorInvDecides, PTL

(* For every graph, an emitted item names nothing that is dropped: what is *)
(* Red among its dependencies is a function with a writable signature.     *)
THEOREM EmittedCompiles == Spec => []EmittedItemsCompile
<1>1. ColorInv => EmittedItemsCompile
  <2> SUFFICES ASSUME ColorInv, Ranked, NEW e \in Resolved(edges),
                      e.from \notin red, PoisonBearing(e.kind), e.to \in red
               PROVE  e.kind \in CallKinds /\ StubReplaceable(e.to, unsignable)
    BY DEF EmittedItemsCompile
  <2>1. Decided
    BY DEF Ranked, Decided
  <2>2. ~PoisonsRed(e, red, unsignable)
    BY <2>1 DEF ColorInv, PassInv, Satisfied
  <2>3. StubReplaceable(e.to, unsignable)
    BY <2>2 DEF PoisonsRed, Unstubbed
  <2>4. KindOf[e.to] = "function"
    BY <2>3 DEF StubReplaceable
  <2>5. WellFormedEdge(e) /\ e.kind \in EdgeKind /\ e.to # NoTarget
    BY EdgeShape DEF ColorInv, SetsOK, Resolved
  <2>6. e.kind \notin TypeKinds /\ e.kind \notin GlobalKinds /\ e.kind # "CallsIndirect"
    BY <2>4, <2>5 DEF WellFormedEdge
  <2>7. EdgeKind = CallKinds \union TypeKinds \union GlobalKinds \union {"CallsIndirect"}
    BY DEF EdgeKind, KindValue, CallKinds, TypeKinds, GlobalKinds
  <2>8. QED
    BY <2>3, <2>5, <2>6, <2>7
<1>2. QED
  BY ColorInvAlways, <1>1, PTL

-----------------------------------------------------------------------------
(* The detailed analysis implements the promise.                           *)

(* The promise speaks of the same rules. *)
LEMMA SameFixpoint ==
  ASSUME NEW E, NEW S, NEW B
  PROVE  /\ Promise!LeastRed(E, S, B) = LeastRed(E, S, B)
         /\ Promise!LeastUnsignable(E, S, B) = LeastUnsignable(E, S, B)
<1>1. \A R, C \in SUBSET Item : Promise!Closed(E, S, B, R, C) <=> Closed(E, S, B, R, C)
  BY DEF Promise!Closed, Closed, Promise!Resolved, Resolved, Promise!NoTarget, NoTarget,
     Promise!PoisonsRed, PoisonsRed, Promise!PoisonBearing, PoisonBearing,
     Promise!Unstubbed, Unstubbed, Promise!StubReplaceable, StubReplaceable
<1>2. QED
  BY <1>1 DEF Promise!LeastRed, LeastRed, Promise!LeastUnsignable, LeastUnsignable

(* For every graph, the passes of the detailed analysis amount to one      *)
(* decision of the promised answer, never revised by the ranks and blames. *)
THEOREM ImplementsPromise == Spec => KeepsPromise
<1>1. Init => Promise!Init
  BY DEF Init, Decided, Promise!Init, Promise!Undecided
<1>2. ColorInv /\ ColorInv' /\ [Next]_vars => [Promise!Decide]_(Promise!vars)
  <2> SUFFICES ASSUME ColorInv, ColorInv', [Next]_vars
               PROVE  [Promise!Decide]_(Promise!vars)
    OBVIOUS
  <2>1. edges' = edges /\ rejected' = rejected
    BY DEF Next, vars, ProbeDeclaration, Build, VisitSuccessor, EndColorPass,
       VisitRank, EndRankPass, SolveRed, EndRed, SolveRest, Publish
  <2>2. CASE EndColorPass
    <3>1. ~Decided /\ red' = red /\ unsignable' = unsignable
      BY <2>2 DEF EndColorPass, Decided
    <3>2. CASE changed
      BY <2>1, <2>2, <3>1, <3>2 DEF EndColorPass, Decided, Promise!vars
    <3>3. CASE ~changed
      <4>1. Decided'
        BY <2>2, <3>3 DEF EndColorPass, Decided
      <4>2. LeastFixpoint'
        <5>1. ColorInv' => LeastFixpoint'
          BY ColorInvDecides, PTL
        <5>2. QED
          BY <5>1
      <4>3. /\ red' = LeastRed(edges, Seeds, BadSigs)
            /\ unsignable' = LeastUnsignable(edges, Seeds, BadSigs)
        BY <2>1, <4>1, <4>2 DEF LeastFixpoint, Seeds, BadSigs
      <4>4. Promise!Seeds = Seeds /\ Promise!BadSigs = BadSigs
        BY DEF Promise!Seeds, Promise!BadSigs, Seeds, BadSigs
      <4>5. /\ red' = Promise!LeastRed(edges, Promise!Seeds, Promise!BadSigs)
            /\ unsignable' = Promise!LeastUnsignable(edges, Promise!Seeds, Promise!BadSigs)
        BY <4>3, <4>4, SameFixpoint
      <4>6. phase = "color" /\ phase' = "rank"
        BY <2>2, <3>3 DEF EndColorPass
      <4>7. Decided = FALSE /\ Decided' = TRUE
        BY <4>6 DEF Decided
      <4>8. Promise!Decide
        BY <2>1, <4>5, <4>7 DEF Promise!Decide, Promise!Undecided
      <4>9. QED
        BY <4>8
    <3>4. QED
      BY <3>2, <3>3
  <2>3. CASE UNCHANGED vars
    BY <2>3 DEF vars, Decided, Promise!vars
  <2>4. CASE Later
    <3>1. Decided /\ Decided' /\ red' = red /\ unsignable' = unsignable
      BY <2>4, LaterKeepsSets DEF Decided
    <3>2. QED
      BY <2>1, <3>1 DEF Promise!vars
  <2>5. CASE ProbeDeclaration
    BY <2>1, <2>5 DEF ProbeDeclaration, Decided, Promise!vars
  <2>6. CASE Build
    BY <2>1, <2>6 DEF Build, Decided, Promise!vars
  <2>7. ASSUME NEW e \in Resolved(edges), VisitSuccessor(e)
        PROVE  [Promise!Decide]_(Promise!vars)
    BY <2>1, <2>7 DEF VisitSuccessor, Decided, Promise!vars
  <2>8. QED
    BY <2>2, <2>3, <2>4, <2>5, <2>6, <2>7 DEF Next, Later
<1>3. QED
  BY ColorInvAlways, <1>1, <1>2, PTL DEF Spec, KeepsPromise, Promise!Spec

-----------------------------------------------------------------------------
(* Every Red item that is not a seed has a neighbor to blame.              *)

HardEdges == {e \in Resolved(edges) : PoisonsRed(e, red, unsignable)}

Unreached(n) == rank[n] = NoRank

(* Red is the least set over the seeds closed under its own hard edges. *)
Founded ==
  phase # "probe" =>
    \A S \in SUBSET Item :
      /\ inadmissible \subseteq S
      /\ \A e \in HardEdges : e.from \in red /\ e.to \in S => e.from \in S
      => red \subseteq S

(* A finite rank is earned: by a seed at 0, else from a closer successor.  *)
Earned ==
  phase # "probe" => \A n \in Item :
    /\ n \in inadmissible => rank[n] = 0
    /\ (n \notin inadmissible /\ ~Unreached(n)) =>
         \E e \in HardEdges : e.from = n /\ ~Unreached(e.to) /\ rank[e.to] + 1 <= rank[n]

(* No hard edge offers its source a better rank. *)
Settled(e) == ~Unreached(e.to) => ~Unreached(e.from) /\ rank[e.from] <= rank[e.to] + 1

RankPassInv ==
  /\ (phase = "rank" /\ ~changed) =>
        \A e \in HardEdges : e.from \in red \ sweep => Settled(e)
  /\ Ranked => \A e \in HardEdges : e.from \in red => Settled(e)

RankInv == Founded /\ Earned /\ RankPassInv

LEMMA HardEdgeShape ==
  ASSUME SetsOK, NEW e \in HardEdges
  PROVE  /\ e \in Resolved(edges) /\ e.from \in Item /\ e.to \in Item
         /\ e \in Succ(e.from) /\ PoisonsRed(e, red, unsignable)
  BY EdgeShape DEF HardEdges, SetsOK, Succ

LEMMA RankType ==
  ASSUME SetsOK, NEW n \in Item
  PROVE  Unreached(n) \/ (rank[n] \in Nat /\ rank[n] # NoRank)
  BY DEF SetsOK, Unreached

LEMMA FoundedNext ==
  ASSUME ColorInv, Founded, [Next]_vars
  PROVE  Founded'
<1>1. CASE Build
  BY <1>1 DEF Build, Founded
<1>2. ASSUME NEW e \in Resolved(edges), VisitSuccessor(e) PROVE Founded'
  <2>1. /\ phase = "color" /\ edges' = edges /\ inadmissible' = inadmissible
        /\ red' = IF PoisonsRed(e, red, unsignable) THEN red \union {e.from} ELSE red
        /\ unsignable \subseteq unsignable' /\ red \subseteq red'
    BY <1>2 DEF VisitSuccessor
  <2>2. HardEdges \subseteq HardEdges'
    BY <2>1 DEF HardEdges, PoisonsRed, Unstubbed, StubReplaceable
  <2>3. ASSUME NEW S \in SUBSET Item, inadmissible \subseteq S,
               \A f \in HardEdges' : f.from \in red' /\ f.to \in S => f.from \in S
        PROVE  red' \subseteq S
    <3>1. red \subseteq S
      BY <2>1, <2>2, <2>3 DEF Founded
    <3>2. CASE PoisonsRed(e, red, unsignable)
      <4>1. e \in HardEdges /\ e.to \in S /\ e.from \in red'
        BY <2>1, <3>1, <3>2 DEF HardEdges, PoisonsRed, Unstubbed
      <4>2. e.from \in S
        BY <2>2, <2>3, <4>1
      <4>3. QED
        BY <2>1, <3>1, <4>2
    <3>3. CASE ~PoisonsRed(e, red, unsignable)
      BY <2>1, <3>1, <3>3
    <3>4. QED
      BY <3>2, <3>3
  <2>4. QED
    BY <2>1, <2>3 DEF Founded
<1>3. CASE ProbeDeclaration
  BY <1>3 DEF ProbeDeclaration, Founded
<1>4. CASE EndColorPass \/ Later \/ UNCHANGED vars
  <2>1. /\ phase = "probe" => phase' = "probe"
        /\ edges' = edges /\ inadmissible' = inadmissible
        /\ red' = red /\ unsignable' = unsignable
    BY <1>4, LaterKeepsSets DEF EndColorPass, vars
  <2>2. QED
    BY <2>1 DEF Founded, HardEdges
<1>5. QED
  BY <1>1, <1>2, <1>3, <1>4 DEF Next, Later

(* Everything VisitRank does to the ranks. *)
LEMMA VisitRankEffect ==
  ASSUME SetsOK, NEW n \in Item, VisitRank(n)
  PROVE  /\ phase = "rank" /\ phase' = "rank" /\ n \in sweep /\ sweep' = sweep \ {n}
         /\ HardEdges' = HardEdges /\ red' = red /\ inadmissible' = inadmissible
         /\ \A m \in Item \ {n} : rank'[m] = rank[m]
         /\ \/ rank'[n] = rank[n]
            \/ \E e \in HardEdges : /\ e.from = n /\ ~Unreached(e.to)
                                   /\ rank'[n] = rank[e.to] + 1
         /\ ~Unreached(n) => rank'[n] \in Nat /\ rank'[n] <= rank[n]
         /\ \A e \in HardEdges : (e.from = n /\ ~Unreached(e.to)) =>
               rank'[n] \in Nat /\ rank'[n] <= rank[e.to] + 1
         /\ changed' = (changed \/ rank'[n] # rank[n])
<1>1. PICK best \in OfferedRanks(n) :
        /\ \A r \in OfferedRanks(n) : ~Closer(r, best)
        /\ rank' = [rank EXCEPT ![n] = best]
        /\ changed' = (changed \/ best # rank[n])
  BY DEF VisitRank
<1>2. /\ phase = "rank" /\ phase' = "rank" /\ n \in sweep /\ sweep' = sweep \ {n}
      /\ UNCHANGED <<edges, red, unsignable, inadmissible>>
  BY DEF VisitRank
<1>3. /\ rank'[n] = best
      /\ \A m \in Item \ {n} : rank'[m] = rank[m]
  BY <1>1 DEF SetsOK
<1>4. OfferedRanks(n) = {rank[n]} \union
        {rank[e.to] + 1 : e \in {f \in HardEdges : f.from = n /\ ~Unreached(f.to)}}
  BY DEF OfferedRanks, Succ, HardEdges, Unreached
<1>5. \A e \in HardEdges : ~Unreached(e.to) => rank[e.to] \in Nat
  BY HardEdgeShape, RankType
<1>6. best \in Nat \union {NoRank}
  BY <1>4, <1>5, RankType DEF Unreached
<1>7. \A r \in OfferedRanks(n) : r \in Nat => best \in Nat /\ best <= r
  BY <1>1, <1>6 DEF Closer, NoRank
<1>8. ~Unreached(n) => best \in Nat /\ best <= rank[n]
  BY <1>4, <1>7, RankType
<1>9. \A e \in HardEdges : (e.from = n /\ ~Unreached(e.to)) =>
        best \in Nat /\ best <= rank[e.to] + 1
  <2>1. ASSUME NEW e \in HardEdges, e.from = n, ~Unreached(e.to)
        PROVE  rank[e.to] + 1 \in OfferedRanks(n) /\ rank[e.to] + 1 \in Nat
    BY <1>4, <1>5, <2>1
  <2>2. QED
    BY <1>7, <2>1
<1>10. HardEdges' = HardEdges
  BY <1>2 DEF HardEdges
<1>11. \/ best = rank[n]
       \/ \E e \in HardEdges : e.from = n /\ ~Unreached(e.to) /\ best = rank[e.to] + 1
  BY <1>1, <1>4
<1>12. QED
  BY <1>1, <1>2, <1>3, <1>8, <1>9, <1>10, <1>11

LEMMA VisitRankKeepsEarned ==
  ASSUME SetsOK, SetsOK', Earned, NEW n \in Item, VisitRank(n)
  PROVE  Earned'
<1> DEFINE Support(m) == \E e \in HardEdges : /\ e.from = m /\ ~Unreached(e.to)
                                              /\ rank[e.to] + 1 <= rank[m]
<1>1. /\ phase = "rank" /\ phase' = "rank"
      /\ HardEdges' = HardEdges /\ inadmissible' = inadmissible
      /\ \A m \in Item \ {n} : rank'[m] = rank[m]
  BY VisitRankEffect
<1>2. \A m \in Item : ~Unreached(m) =>
        rank[m] \in Nat /\ rank'[m] \in Nat /\ rank'[m] <= rank[m] /\ ~Unreached(m)'
  <2>1. ASSUME NEW m \in Item, ~Unreached(m)
        PROVE  rank[m] \in Nat /\ rank'[m] \in Nat /\ rank'[m] <= rank[m]
    BY <1>1, <2>1, VisitRankEffect, RankType
  <2>2. QED
    BY <2>1 DEF Unreached, NoRank
<1>3. ASSUME NEW m \in Item, m \in inadmissible PROVE rank'[m] = 0
  <2>1. rank[m] = 0
    BY <1>1, <1>3 DEF Earned
  <2>2. rank'[m] \in Nat /\ rank'[m] <= 0
    BY <1>2, <2>1 DEF Unreached, NoRank
  <2>3. QED
    BY <2>2
<1>4. ASSUME NEW m \in Item, m \notin inadmissible, ~Unreached(m)'
      PROVE  Support(m)'
  <2>1. ASSUME NEW e \in HardEdges, e.from = m, ~Unreached(e.to),
               rank[e.to] + 1 <= rank'[m]
        PROVE  Support(m)'
    <3>1. e.to \in Item
      BY <2>1, HardEdgeShape
    <3>2. rank[e.to] \in Nat /\ rank'[e.to] \in Nat /\ rank'[e.to] <= rank[e.to]
          /\ ~Unreached(e.to)'
      BY <1>2, <2>1, <3>1
    <3>3. rank'[m] \in Nat
      BY <1>4 DEF SetsOK, Unreached
    <3>4. rank'[e.to] + 1 <= rank'[m]
      BY <2>1, <3>2, <3>3
    <3>5. QED
      BY <1>1, <2>1, <3>2, <3>4
  <2>2. CASE rank'[m] = rank[m]
    <3>1. ~Unreached(m)
      BY <1>4, <2>2 DEF Unreached
    <3>2. Support(m)
      BY <1>1, <1>4, <3>1 DEF Earned
    <3>3. QED
      BY <2>1, <2>2, <3>2
  <2>3. CASE rank'[m] # rank[m]
    <3>1. m = n
      BY <1>1, <2>3
    <3>2. PICK e \in HardEdges : e.from = m /\ ~Unreached(e.to) /\ rank'[m] = rank[e.to] + 1
      BY <2>3, <3>1, VisitRankEffect
    <3>3. rank[e.to] \in Nat
      BY <3>2, HardEdgeShape, RankType
    <3>4. rank[e.to] + 1 <= rank'[m]
      BY <3>2, <3>3
    <3>5. QED
      BY <2>1, <3>2, <3>4
  <2>4. QED
    BY <2>2, <2>3
<1>5. QED
  BY <1>1, <1>3, <1>4 DEF Earned

LEMMA EarnedNext ==
  ASSUME ColorInv, Earned, [Next]_vars
  PROVE  Earned'
<1>1. SetsOK /\ SetsOK'
  BY SetsNext DEF ColorInv
<1>2. CASE ProbeDeclaration
  BY <1>2 DEF ProbeDeclaration, Earned
<1>3. CASE Build
  BY <1>3 DEF Build, Earned, Unreached
<1>4. ASSUME NEW e \in Resolved(edges), VisitSuccessor(e) PROVE Earned'
  <2>1. /\ phase = "color" /\ edges' = edges /\ inadmissible' = inadmissible
        /\ rank' = rank /\ unsignable \subseteq unsignable' /\ red \subseteq red'
    BY <1>4 DEF VisitSuccessor
  <2>2. HardEdges \subseteq HardEdges'
    BY <2>1 DEF HardEdges, PoisonsRed, Unstubbed, StubReplaceable
  <2>3. QED
    BY <2>1, <2>2 DEF Earned, Unreached
<1>5. ASSUME NEW n \in Item, VisitRank(n) PROVE Earned'
  BY <1>1, <1>5, VisitRankKeepsEarned
<1>6. ASSUME phase = "probe" => phase' = "probe",
             UNCHANGED <<edges, inadmissible, red, unsignable, rank>>
      PROVE  Earned'
  BY <1>6 DEF Earned, HardEdges, Unreached
<1>7. CASE EndColorPass
  BY <1>6, <1>7 DEF EndColorPass
<1>8. CASE EndRankPass
  BY <1>6, <1>8 DEF EndRankPass
<1>9. CASE (\E n \in Item : SolveRed(n)) \/ EndRed \/ (\E n \in Item : SolveRest(n)) \/ Publish
  BY <1>6, <1>9 DEF SolveRed, EndRed, SolveRest, Publish
<1>10. CASE UNCHANGED vars
  BY <1>6, <1>10 DEF vars
<1>11. QED
  BY <1>2, <1>3, <1>4, <1>5, <1>7, <1>8, <1>9, <1>10 DEF Next

LEMMA VisitRankKeepsPass ==
  ASSUME SetsOK, SetsOK', RankPassInv, NEW n \in Item, VisitRank(n)
  PROVE  RankPassInv'
<1>1. /\ phase = "rank" /\ phase' = "rank" /\ sweep' = sweep \ {n}
      /\ HardEdges' = HardEdges /\ red' = red
      /\ \A m \in Item \ {n} : rank'[m] = rank[m]
      /\ changed' = (changed \/ rank'[n] # rank[n])
  BY VisitRankEffect
<1>2. ASSUME ~changed', NEW e \in HardEdges, e.from \in red \ sweep'
      PROVE  Settled(e)'
  <2>1. ~changed /\ \A m \in Item : rank'[m] = rank[m]
    BY <1>1, <1>2 DEF SetsOK
  <2>2. e.from \in Item /\ e.to \in Item
    BY HardEdgeShape
  <2>3. Settled(e)
    <3>1. CASE e.from = n
      BY <2>1, <2>2, <3>1, VisitRankEffect DEF Settled, Unreached, NoRank
    <3>2. CASE e.from # n
      BY <1>1, <1>2, <2>1, <3>2 DEF RankPassInv
    <3>3. QED
      BY <3>1, <3>2
  <2>4. QED
    BY <2>1, <2>2, <2>3 DEF Settled, Unreached
<1>3. QED
  BY <1>1, <1>2 DEF RankPassInv, Ranked

LEMMA RankPassNext ==
  ASSUME ColorInv, RankPassInv, [Next]_vars
  PROVE  RankPassInv'
<1>1. SetsOK /\ SetsOK'
  BY SetsNext DEF ColorInv
<1>2. CASE ProbeDeclaration
  BY <1>2 DEF ProbeDeclaration, RankPassInv, Ranked
<1>3. CASE Build
  BY <1>3 DEF Build, RankPassInv, Ranked
<1>4. ASSUME NEW e \in Resolved(edges), VisitSuccessor(e) PROVE RankPassInv'
  BY <1>4 DEF VisitSuccessor, RankPassInv, Ranked
<1>5. ASSUME NEW n \in Item, VisitRank(n) PROVE RankPassInv'
  BY <1>1, <1>5, VisitRankKeepsPass
<1>6. CASE EndColorPass
  <2>1. phase' \in {"color", "rank"} /\ (phase' = "rank" => sweep' = red')
    BY <1>6 DEF EndColorPass
  <2>2. QED
    BY <2>1 DEF RankPassInv, Ranked
<1>7. CASE EndRankPass
  <2>1. /\ phase = "rank" /\ sweep = {} /\ sweep' = red
        /\ phase' = IF changed THEN "rank" ELSE "red"
        /\ HardEdges' = HardEdges /\ red' = red /\ rank' = rank
    BY <1>7 DEF EndRankPass, HardEdges
  <2>2. CASE changed
    BY <2>1, <2>2 DEF RankPassInv, Ranked
  <2>3. CASE ~changed
    BY <2>1, <2>3 DEF RankPassInv, Ranked, Settled, Unreached
  <2>4. QED
    BY <2>2, <2>3
<1>8. ASSUME Ranked, Ranked', UNCHANGED <<edges, red, unsignable, rank>>
      PROVE  RankPassInv'
  <2>1. HardEdges' = HardEdges /\ phase' # "rank"
    BY <1>8 DEF HardEdges, Ranked
  <2>2. QED
    BY <1>8, <2>1 DEF RankPassInv, Settled, Unreached
<1>9. CASE (\E n \in Item : SolveRed(n)) \/ EndRed \/ (\E n \in Item : SolveRest(n)) \/ Publish
  BY <1>8, <1>9 DEF SolveRed, EndRed, SolveRest, Publish, Ranked
<1>10. CASE UNCHANGED vars
  BY <1>10 DEF vars, RankPassInv, HardEdges, Settled, Unreached, Ranked
<1>11. QED
  BY <1>2, <1>3, <1>4, <1>5, <1>6, <1>7, <1>9, <1>10 DEF Next

LEMMA RankInvAlways == Spec => [](ColorInv /\ RankInv)
<1>1. Init => ColorInv /\ RankInv
  BY ColorInvInit DEF Init, RankInv, Founded, Earned, RankPassInv, Ranked
<1>2. (ColorInv /\ RankInv) /\ [Next]_vars => (ColorInv /\ RankInv)'
  BY ColorInvNext, FoundedNext, EarnedNext, RankPassNext DEF RankInv
<1>3. QED
  BY <1>1, <1>2, PTL DEF Spec

LEMMA RankInvBlames == ColorInv /\ RankInv => BlameNeverStuck
<1> SUFFICES ASSUME ColorInv, RankInv, Ranked, NEW n \in red \ inadmissible
             PROVE  HardNeighbors(n) # {}
  BY DEF BlameNeverStuck
<1>1. SetsOK /\ n \in Item /\ phase # "probe"
  BY DEF ColorInv, SetsOK, Ranked
<1> DEFINE Reached == {m \in Item : ~Unreached(m)}
<1>2. inadmissible \subseteq Reached
  <2>1. ASSUME NEW m \in inadmissible PROVE m \in Item /\ rank[m] = 0
    BY <1>1, <2>1 DEF RankInv, Earned, SetsOK
  <2>2. QED
    BY <2>1 DEF Unreached, NoRank
<1>3. \A e \in HardEdges : e.from \in red /\ e.to \in Reached => e.from \in Reached
  BY <1>1, HardEdgeShape DEF RankInv, RankPassInv, Settled
<1>4. red \subseteq Reached
  BY <1>1, <1>2, <1>3 DEF RankInv, Founded
<1>5. PICK e \in HardEdges : e.from = n /\ ~Unreached(e.to) /\ rank[e.to] + 1 <= rank[n]
  BY <1>1, <1>4 DEF RankInv, Earned
<1>6. rank[n] <= rank[e.to] + 1
  BY <1>5 DEF RankInv, RankPassInv, Settled
<1>7. rank[n] \in Nat /\ rank[e.to] \in Nat
  BY <1>1, <1>4, <1>5, RankType, HardEdgeShape
<1>8. rank[e.to] = rank[n] - 1
  BY <1>5, <1>6, <1>7
<1>9. e \in HardNeighbors(n)
  BY <1>1, <1>5, <1>8, HardEdgeShape DEF HardNeighbors
<1>10. QED
  BY <1>9

(* For every graph, cycles or not, once the ranks settle a Red item that   *)
(* is not itself a seed has a poisoning neighbor exactly one rank closer.  *)
THEOREM BlameAlwaysFindsANeighbor == Spec => []BlameNeverStuck
  BY RankInvAlways, RankInvBlames, PTL

-----------------------------------------------------------------------------
(* Type correctness of everything, the published items included.           *)

LEMMA ReasonType ==
  ASSUME NEW k \in EdgeKind
  PROVE  RedReasonFor(k) \in {"red-type", "red-global", "red-callee"}
<1>1. EdgeKind = CallKinds \union TypeKinds \union GlobalKinds \union {"CallsIndirect"}
  BY DEF EdgeKind, KindValue, CallKinds, TypeKinds, GlobalKinds
<1>2. QED
  BY <1>1 DEF RedReasonFor, CallKinds, TypeKinds, GlobalKinds

LEMMA PlainRecord ==
  ASSUME NEW color \in {"green", "yellow", "red"},
         NEW reason \in {"admissible", "inadmissible"},
         NEW chain \in Seq(Item), NEW tag \in Tag \union {NoTag}
  PROVE  [color |-> color, reason |-> reason, via |-> NoVia,
          chain |-> chain, tag |-> tag] \in ItemRecord
  BY DEF ItemRecord

LEMMA RecordTypes ==
  ASSUME TypeOK, NEW n \in Item
  PROVE  /\ [Unvisited EXCEPT !.color = "red"] \in ItemRecord
         /\ [Unvisited EXCEPT !.color = "yellow"] \in ItemRecord
         /\ BlockerItself(n) \in ItemRecord
<1>1. <<>> \in Seq(Item) /\ <<n>> \in Seq(Item)
  OBVIOUS
<1>2. ASSUME NEW c \in {"yellow", "red"}
      PROVE  [Unvisited EXCEPT !.color = c] \in ItemRecord
  <2>1. [Unvisited EXCEPT !.color = c]
          = [color |-> c, reason |-> "admissible", via |-> NoVia,
             chain |-> <<>>, tag |-> NoTag]
    BY DEF Unvisited
  <2>2. [color |-> c, reason |-> "admissible", via |-> NoVia,
         chain |-> <<>>, tag |-> NoTag] \in ItemRecord
    <3>1. c \in {"green", "yellow", "red"} /\ NoTag \in Tag \union {NoTag}
      OBVIOUS
    <3>2. QED
      BY <1>1, <3>1, PlainRecord
  <2>3. QED
    BY <2>1, <2>2
<1>3. construct[n] \in Tag \union {NoTag}
  BY DEF TypeOK
<1>4. BlockerItself(n) \in ItemRecord
  BY <1>1, <1>3, PlainRecord DEF BlockerItself
<1>5. QED
  BY <1>2, <1>4

LEMMA BlamedType ==
  ASSUME TypeOK, NEW n \in Item, NEW e \in Succ(n),
         NEW color \in {"yellow", "red"},
         NEW reason \in {"red-type", "red-global", "red-callee", "stub-callee"}
  PROVE  [color |-> color, reason |-> reason, via |-> [to |-> e.to, kind |-> e.kind],
          chain |-> <<n>> \o item[e.to].chain, tag |-> item[e.to].tag] \in ItemRecord
<1>1. e.to \in Item /\ e.kind \in EdgeKind
  BY EdgeShape DEF Succ, TypeOK
<1>2. item[e.to] \in ItemRecord
  BY <1>1 DEF TypeOK
<1>3. item[e.to].chain \in Seq(Item) /\ item[e.to].tag \in Tag \union {NoTag}
  BY <1>2 DEF ItemRecord
<1>4. <<n>> \o item[e.to].chain \in Seq(Item)
  BY <1>3
<1>5. QED
  BY <1>1, <1>3, <1>4 DEF ItemRecord

LEMMA SolveTypes ==
  ASSUME TypeOK, NEW n \in Item, SolveRed(n) \/ SolveRest(n)
  PROVE  item' \in [Item -> ItemRecord]
<1> DEFINE Record(color, reason, e) ==
      [color |-> color, reason |-> reason, via |-> [to |-> e.to, kind |-> e.kind],
       chain |-> <<n>> \o item[e.to].chain, tag |-> item[e.to].tag]
<1>1. \A r \in ItemRecord : [item EXCEPT ![n] = r] \in [Item -> ItemRecord]
  BY DEF TypeOK
<1>2. CASE SolveRed(n) /\ n \in inadmissible
  BY <1>1, <1>2, RecordTypes DEF SolveRed
<1>3. CASE SolveRed(n) /\ n \notin inadmissible
  <2>1. Blame(n, TRUE)
    BY <1>3 DEF SolveRed
  <2>2. \/ item' = [item EXCEPT ![n] = [Unvisited EXCEPT !.color = "red"]]
        \/ \E e \in HardNeighbors(n) :
             item' = [item EXCEPT ![n] = Record("red", RedReasonFor(e.kind), e)]
    BY <2>1 DEF Blame
  <2>3. ASSUME NEW e \in HardNeighbors(n)
        PROVE  Record("red", RedReasonFor(e.kind), e) \in ItemRecord
    <3>1. e \in Succ(n) /\ e.kind \in EdgeKind
      BY EdgeShape DEF HardNeighbors, Succ, TypeOK
    <3>2. RedReasonFor(e.kind) \in {"red-type", "red-global", "red-callee", "stub-callee"}
      BY <3>1, ReasonType
    <3>3. QED
      BY <3>1, <3>2, BlamedType
  <2>4. QED
    BY <1>1, <2>2, <2>3, RecordTypes
<1>4. CASE SolveRest(n)
  <2>1. \/ item' = item
        \/ item' = [item EXCEPT ![n] = [Unvisited EXCEPT !.color = "yellow"]]
        \/ \E e \in RedNeighbors(n) :
             item' = [item EXCEPT ![n] = Record("yellow", "stub-callee", e)]
    BY <1>4 DEF SolveRest, Blame
  <2>2. ASSUME NEW e \in RedNeighbors(n)
        PROVE  Record("yellow", "stub-callee", e) \in ItemRecord
    BY BlamedType DEF RedNeighbors
  <2>3. QED
    BY <1>1, <2>1, <2>2, RecordTypes DEF TypeOK
<1>5. QED
  BY <1>2, <1>3, <1>4

LEMMA TypeNext == TypeOK /\ [Next]_vars => TypeOK'
<1> SUFFICES ASSUME TypeOK, [Next]_vars PROVE TypeOK'
  OBVIOUS
<1>1. SetsOK /\ SetsOK'
  <2>1. SetsOK
    BY DEF TypeOK, SetsOK
  <2>2. QED
    BY <2>1, SetsNext
<1> DEFINE Rest == /\ construct \in [Item -> Tag \union {NoTag}]
                  /\ IF phase = "color" THEN sweep \subseteq Resolved(edges)
                                        ELSE sweep \subseteq Item
                  /\ item \in [Item -> ItemRecord]
<1>2. Rest
  BY DEF TypeOK
<1>3. CASE ProbeDeclaration
  <2>1. PICK r \in toReject : Reject(r[1], r[2], r[3])
    BY <1>3 DEF ProbeDeclaration
  <2>2. r[2] \in Tag
    BY <2>1, <1>1, InputAssumption DEF SetsOK
  <2>3. construct' \in [Item -> Tag \union {NoTag}]
    BY <1>2, <2>1, <2>2 DEF Reject
  <2>4. QED
    BY <1>1, <1>2, <1>3, <2>3 DEF ProbeDeclaration, TypeOK, SetsOK
<1>4. CASE Build
  BY <1>1, <1>2, <1>4 DEF Build, TypeOK, SetsOK
<1>5. ASSUME NEW e \in Resolved(edges), VisitSuccessor(e) PROVE TypeOK'
  BY <1>1, <1>2, <1>5 DEF VisitSuccessor, TypeOK, SetsOK
<1>6. CASE EndColorPass
  BY <1>1, <1>2, <1>6 DEF EndColorPass, TypeOK, SetsOK
<1>7. ASSUME NEW n \in Item, VisitRank(n) PROVE TypeOK'
  BY <1>1, <1>2, <1>7 DEF VisitRank, TypeOK, SetsOK
<1>8. CASE EndRankPass
  BY <1>1, <1>2, <1>8 DEF EndRankPass, TypeOK, SetsOK
<1>9. ASSUME NEW n \in Item, SolveRed(n) PROVE TypeOK'
  <2>1. item' \in [Item -> ItemRecord]
    BY <1>9, SolveTypes
  <2>2. QED
    BY <1>1, <1>2, <1>9, <2>1 DEF SolveRed, TypeOK, SetsOK
<1>10. CASE EndRed
  BY <1>1, <1>2, <1>10 DEF EndRed, TypeOK, SetsOK
<1>11. ASSUME NEW n \in Item, SolveRest(n) PROVE TypeOK'
  <2>1. item' \in [Item -> ItemRecord]
    BY <1>11, SolveTypes
  <2>2. QED
    BY <1>1, <1>2, <1>11, <2>1 DEF SolveRest, TypeOK, SetsOK
<1>12. CASE Publish
  BY <1>1, <1>2, <1>12 DEF Publish, TypeOK, SetsOK
<1>13. CASE UNCHANGED vars
  BY <1>13 DEF vars, TypeOK
<1>14. QED
  BY <1>3, <1>4, <1>5, <1>6, <1>7, <1>8, <1>9, <1>10, <1>11, <1>12, <1>13 DEF Next

(* Every variable keeps its type, whatever the graph. *)
THEOREM TypeCorrect == Spec => []TypeOK
<1>1. Init => TypeOK
  <2> SUFFICES ASSUME Init PROVE TypeOK
    OBVIOUS
  <2>1. SetsOK
    BY SetsInit
  <2>2. Unvisited \in ItemRecord
    <3>1. <<>> \in Seq(Item)
      OBVIOUS
    <3>2. QED
      BY <3>1, PlainRecord DEF Unvisited
  <2>3. construct \in [Item -> Tag \union {NoTag}]
    BY DEF Init
  <2>4. QED
    BY <2>1, <2>2, <2>3 DEF Init, TypeOK, SetsOK
<1>2. QED
  BY <1>1, TypeNext, PTL DEF Spec

-----------------------------------------------------------------------------
(* The blame chains of the Red items.                                      *)

(* The Red items already published.                                        *)
Solved ==
  IF phase = "red" THEN red \ sweep
  ELSE IF phase \in {"rest", "done"} THEN red ELSE {}

ChainWalks(c) ==
  \A i \in 1 .. Len(c) - 1 :
     HardStep(c[i], c[i + 1]) /\ rank[c[i + 1]] = rank[c[i]] - 1

ChainOK(n) ==
  /\ item[n].color = "red"
  /\ EndsAtItsRoot(n)
  /\ Len(item[n].chain) = rank[n] + 1
  /\ ChainWalks(item[n].chain)

ChainInv ==
  /\ \A n \in Solved : ChainOK(n)
  /\ phase = "rest" => sweep \intersect red = {}

ColoredInv == TypeOK /\ ColorInv /\ RankInv /\ ChainInv

(* Every Red item has a rank once the ranks are settled.                   *)
LEMMA RedIsReached ==
  ASSUME ColorInv, RankInv, Ranked, NEW n \in red
  PROVE  n \in Item /\ rank[n] \in Nat /\ rank[n] # NoRank
<1>1. SetsOK /\ n \in Item /\ phase # "probe"
  BY DEF ColorInv, SetsOK, Ranked
<1> DEFINE Reached == {m \in Item : ~Unreached(m)}
<1>2. inadmissible \subseteq Reached
  <2>1. ASSUME NEW m \in inadmissible PROVE m \in Item /\ rank[m] = 0
    BY <1>1, <2>1 DEF RankInv, Earned, SetsOK
  <2>2. QED
    BY <2>1 DEF Unreached, NoRank
<1>3. \A e \in HardEdges : e.from \in red /\ e.to \in Reached => e.from \in Reached
  BY <1>1, HardEdgeShape DEF RankInv, RankPassInv, Settled
<1>4. n \in Reached
  BY <1>1, <1>2, <1>3 DEF RankInv, Founded
<1>5. QED
  BY <1>1, <1>4, RankType

(* One more item in front of a chain.                                      *)
LEMMA Spliced ==
  ASSUME NEW n \in Item, NEW c \in Seq(Item), c # <<>>
  PROVE  LET d == <<n>> \o c
         IN  /\ d \in Seq(Item) /\ Len(d) = Len(c) + 1
             /\ d[1] = n /\ d[Len(d)] = c[Len(c)] /\ d[2] = c[1]
             /\ \A i \in 2 .. Len(d) - 1 : d[i] = c[i - 1] /\ d[i + 1] = c[(i - 1) + 1]
OBVIOUS

(* A Red item that is no seed is published after the neighbor it blames.    *)
LEMMA BlamesTheSolved ==
  ASSUME ColoredInv, NEW n \in Item, SolveRed(n), n \in red \ inadmissible
  PROVE  \E e \in HardNeighbors(n) :
           /\ e.to \in red \ sweep
           /\ item' = [item EXCEPT ![n] =
                [color  |-> "red", reason |-> RedReasonFor(e.kind),
                 via    |-> [to |-> e.to, kind |-> e.kind],
                 chain  |-> <<n>> \o item[e.to].chain,
                 tag    |-> item[e.to].tag]]
<1>1. Ranked /\ phase = "red"
  BY DEF SolveRed, Ranked
<1>2. HardNeighbors(n) # {}
  BY <1>1, RankInvBlames DEF ColoredInv, BlameNeverStuck
<1>3. Blame(n, TRUE)
  BY DEF SolveRed
<1>4. PICK e \in HardNeighbors(n) :
        item' = [item EXCEPT ![n] =
                [color  |-> "red", reason |-> RedReasonFor(e.kind),
                 via    |-> [to |-> e.to, kind |-> e.kind],
                 chain  |-> <<n>> \o item[e.to].chain,
                 tag    |-> item[e.to].tag]]
  BY <1>2, <1>3 DEF Blame
<1>5. e.to \in red /\ rank[e.to] = rank[n] - 1
  BY DEF HardNeighbors, PoisonsRed, Unstubbed
<1>6. rank[n] \in Nat /\ rank[e.to] \in Nat /\ rank[e.to] # NoRank
  BY <1>1, <1>5, RedIsReached DEF ColoredInv
<1>7. e.to # n /\ EarlierInRedOrder(e.to, n)
  BY <1>5, <1>6 DEF EarlierInRedOrder, Closer
<1>8. e.to \notin sweep
  BY <1>7 DEF SolveRed
<1>9. QED
  BY <1>4, <1>5, <1>8

LEMMA SolveRedChains ==
  ASSUME ColoredInv, NEW n \in Item, SolveRed(n), n \in red
  PROVE  ChainOK(n)'
<1>1. Ranked /\ phase = "red" /\ n \in sweep
  BY DEF SolveRed, Ranked
<1>2. UNCHANGED <<edges, construct, inadmissible, red, unsignable, rank>>
  BY DEF SolveRed
<1>3. \A m, k \in Item : HardStep(m, k)' <=> HardStep(m, k)
  BY <1>2 DEF HardStep, Succ
<1>4. item \in [Item -> ItemRecord] /\ rank[n] \in Nat
  BY <1>1, RedIsReached DEF ColoredInv, TypeOK
<1>5. CASE n \in inadmissible
  <2>1. item' = [item EXCEPT ![n] = BlockerItself(n)]
    BY <1>5 DEF SolveRed
  <2>2. item'[n] = BlockerItself(n)
    BY <1>4, <2>1
  <2>3. item'[n].chain = <<n>> /\ item'[n].tag = construct[n] /\ item'[n].color = "red"
    BY <2>2 DEF BlockerItself
  <2>4. rank[n] = 0
    BY <1>1, <1>5 DEF ColoredInv, RankInv, Earned
  <2>5. QED
    BY <1>2, <1>5, <2>3, <2>4 DEF ChainOK, ChainWalks, EndsAtItsRoot
<1>6. CASE n \notin inadmissible
  <2>1. PICK e \in HardNeighbors(n) :
           /\ e.to \in red \ sweep
           /\ item' = [item EXCEPT ![n] =
                [color  |-> "red", reason |-> RedReasonFor(e.kind),
                 via    |-> [to |-> e.to, kind |-> e.kind],
                 chain  |-> <<n>> \o item[e.to].chain,
                 tag    |-> item[e.to].tag]]
    BY <1>6, BlamesTheSolved
  <2> DEFINE c == item[e.to].chain
  <2>d. PICK d : d = <<n>> \o c
    OBVIOUS
  <2>2. e.to \in Item /\ ChainOK(e.to)
    BY <1>1, <2>1 DEF ColoredInv, ChainInv, Solved, ColorInv, SetsOK
  <2>3. c \in Seq(Item)
    BY <1>4, <2>2 DEF ItemRecord
  <2>4. c # <<>> /\ c[1] = e.to /\ Len(c) = rank[e.to] + 1
    BY <2>2 DEF ChainOK, EndsAtItsRoot
  <2>5. item'[n].color = "red" /\ item'[n].chain = d /\ item'[n].tag = item[e.to].tag
    BY <1>4, <2>1, <2>d
  <2>6. HardStep(n, e.to) /\ rank[e.to] = rank[n] - 1
    BY <2>1 DEF HardNeighbors, HardStep
  <2>7. rank[e.to] \in Nat
    BY <1>1, <2>1, RedIsReached DEF ColoredInv
  <2>8. /\ d \in Seq(Item) /\ Len(d) = Len(c) + 1
        /\ d[1] = n /\ d[Len(d)] = c[Len(c)] /\ d[2] = c[1]
        /\ \A i \in 2 .. Len(d) - 1 : d[i] = c[i - 1] /\ d[i + 1] = c[(i - 1) + 1]
    BY <2>3, <2>4, <2>d, Spliced
  <2>9. EndsAtItsRoot(n)'
    <3>1. c[Len(c)] \in inadmissible /\ item[e.to].tag = construct[c[Len(c)]]
      BY <2>2 DEF ChainOK, EndsAtItsRoot
    <3>2. d # <<>>
      BY <2>3, <2>8
    <3>3. QED
      BY <1>2, <2>5, <2>8, <3>1, <3>2 DEF EndsAtItsRoot
  <2>10. ChainWalks(d)
    <3> SUFFICES ASSUME NEW i \in 1 .. Len(d) - 1
                 PROVE  HardStep(d[i], d[i + 1]) /\ rank[d[i + 1]] = rank[d[i]] - 1
      BY DEF ChainWalks
    <3>1. CASE i = 1
      <4>1. d[i] = n /\ d[i + 1] = e.to
        BY <2>4, <2>8, <3>1
      <4>2. QED
        BY <2>6, <4>1
    <3>2. CASE i # 1
      <4>1. i \in 2 .. Len(d) - 1 /\ i - 1 \in 1 .. Len(c) - 1
        BY <2>3, <2>8, <3>2
      <4>2. HardStep(c[i - 1], c[(i - 1) + 1]) /\ rank[c[(i - 1) + 1]] = rank[c[i - 1]] - 1
        BY <2>2, <4>1 DEF ChainOK, ChainWalks
      <4>3. QED
        BY <2>8, <4>1, <4>2
    <3>3. QED
      BY <3>1, <3>2
  <2>11. ChainWalks(d)'
    <3>1. \A i \in 1 .. Len(d) - 1 : d[i] \in Item /\ d[i + 1] \in Item
      BY <2>8
    <3>2. QED
      BY <1>2, <1>3, <2>10, <3>1 DEF ChainWalks
  <2>12. QED
    BY <1>2, <2>4, <2>5, <2>6, <2>7, <2>8, <2>9, <2>11, <1>4 DEF ChainOK
<1>7. QED
  BY <1>5, <1>6

(* One item is published at a time.                                        *)
LEMMA OthersStay ==
  ASSUME TypeOK, NEW n \in Item, SolveRed(n) \/ SolveRest(n),
         NEW m \in Item, m # n
  PROVE  item'[m] = item[m]
<1>1. UNCHANGED item \/ \E r : item' = [item EXCEPT ![n] = r]
  BY DEF SolveRed, SolveRest, Blame
<1>2. QED
  BY <1>1 DEF TypeOK

(* Publishing another item leaves a chain alone.                           *)
LEMMA ChainKept ==
  ASSUME NEW n \in Item, ChainOK(n), item'[n] = item[n],
         UNCHANGED <<edges, construct, inadmissible, red, unsignable, rank>>
  PROVE  ChainOK(n)'
BY DEF ChainOK, ChainWalks, EndsAtItsRoot, HardStep, Succ

LEMMA ChainNext == ColoredInv /\ [Next]_vars => ChainInv'
<1> SUFFICES ASSUME ColoredInv, [Next]_vars PROVE ChainInv'
  OBVIOUS
<1>1. CASE ProbeDeclaration
  BY <1>1 DEF ProbeDeclaration, ChainInv, Solved
<1>2. CASE Build
  BY <1>2 DEF Build, ChainInv, Solved
<1>3. ASSUME NEW e \in Resolved(edges), VisitSuccessor(e) PROVE ChainInv'
  BY <1>3 DEF VisitSuccessor, ChainInv, Solved
<1>4. CASE EndColorPass
  BY <1>4 DEF EndColorPass, ChainInv, Solved
<1>5. ASSUME NEW n \in Item, VisitRank(n) PROVE ChainInv'
  BY <1>5 DEF VisitRank, ChainInv, Solved
<1>6. CASE EndRankPass
  BY <1>6 DEF EndRankPass, ChainInv, Solved
<1>7. ASSUME NEW n \in Item, SolveRed(n) PROVE ChainInv'
  <2>1. phase = "red" /\ phase' = "red" /\ red' = red /\ sweep' = sweep \ {n}
    BY <1>7 DEF SolveRed
  <2>2. ASSUME NEW m \in red \ sweep, m # n PROVE ChainOK(m)'
    <3>1. m \in Item /\ ChainOK(m)
      BY <2>1, <2>2 DEF ColoredInv, ChainInv, Solved, ColorInv, SetsOK
    <3>2. item'[m] = item[m]
      BY <1>7, <2>2, <3>1, OthersStay DEF ColoredInv
    <3>3. QED
      BY <1>7, <3>1, <3>2, ChainKept DEF SolveRed
  <2>3. QED
    BY <1>7, <2>1, <2>2, SolveRedChains DEF ChainInv, Solved
<1>8. CASE EndRed
  <2>1. ASSUME NEW m \in red PROVE ChainOK(m)'
    <3>1. m \in Item /\ ChainOK(m)
      BY <1>8 DEF EndRed, ColoredInv, ChainInv, Solved, ColorInv, SetsOK
    <3>2. QED
      BY <1>8, <3>1, ChainKept DEF EndRed
  <2>2. QED
    BY <1>8, <2>1 DEF EndRed, ChainInv, Solved
<1>9. ASSUME NEW n \in Item, SolveRest(n) PROVE ChainInv'
  <2>1. phase = "rest" /\ phase' = "rest" /\ red' = red /\ sweep' = sweep \ {n} /\ n \in sweep
    BY <1>9 DEF SolveRest
  <2>2. n \notin red
    BY <2>1 DEF ColoredInv, ChainInv
  <2>3. ASSUME NEW m \in red PROVE ChainOK(m)'
    <3>1. m \in Item /\ ChainOK(m)
      BY <2>1 DEF ColoredInv, ChainInv, Solved, ColorInv, SetsOK
    <3>2. m # n
      BY <2>2, <2>3
    <3>3. item'[m] = item[m]
      BY <1>9, <3>1, <3>2, OthersStay DEF ColoredInv
    <3>4. QED
      BY <1>9, <3>1, <3>3, ChainKept DEF SolveRest
  <2>4. QED
    BY <2>1, <2>3 DEF ColoredInv, ChainInv, Solved
<1>10. CASE Publish
  <2>1. ASSUME NEW m \in red PROVE ChainOK(m)'
    <3>1. m \in Item /\ ChainOK(m)
      BY <1>10 DEF Publish, ColoredInv, ChainInv, Solved, ColorInv, SetsOK
    <3>2. QED
      BY <1>10, <3>1, ChainKept DEF Publish
  <2>2. QED
    BY <1>10, <2>1 DEF Publish, ChainInv, Solved
<1>11. CASE UNCHANGED vars
  <2>1. ASSUME NEW m \in Solved PROVE ChainOK(m)'
    <3>1. m \in Item /\ ChainOK(m)
      BY DEF ColoredInv, ChainInv, Solved, ColorInv, SetsOK
    <3>2. QED
      BY <1>11, <3>1, ChainKept DEF vars
  <2>2. QED
    BY <1>11, <2>1 DEF vars, ColoredInv, ChainInv, Solved
<1>12. QED
  BY <1>1, <1>2, <1>3, <1>4, <1>5, <1>6, <1>7, <1>8, <1>9, <1>10, <1>11 DEF Next

(* For every graph, cycles of Red items included, and every order of the    *)
(* visits: the published blame chain of a Red item walks down the ranks to  *)
(* an inadmissible item and names that item's construct.                    *)
THEOREM ChainsReachTheirRoot == Spec => []RedChainsReachTheirRoot
<1>1. Init => ChainInv
  BY DEF Init, ChainInv, Solved
<1>2. ColoredInv => RedChainsReachTheirRoot
  BY DEF ColoredInv, ChainInv, Solved, ChainOK, ChainWalks, RedChainsReachTheirRoot
<1>3. QED
  BY TypeCorrect, RankInvAlways, ChainNext, <1>1, <1>2, PTL DEF Spec, ColoredInv
=============================================================================
