---------------------------- MODULE WorkspaceProofs ----------------------------
(***************************************************************************)
(* The two planners and the lift they share, for every link line the front *)
(* end may write: what each plans, in whatever order it goes about it.     *)
(***************************************************************************)
EXTENDS Workspace, FiniteSetTheorems, WellFoundedInduction, TLAPS

-----------------------------------------------------------------------------
(* The line.                                                               *)

LEMMA LeastNatural ==
  ASSUME NEW S, S \subseteq Nat, S # {}
  PROVE  \E x \in S : \A y \in S : x <= y
<1>1. PICK x \in S : \A y \in S : ~(<<y, x>> \in OpToRel(<, Nat))
  BY NatLessThanWellFounded, WFMin
<1>2. \A y \in S : ~(y < x)
  BY <1>1 DEF OpToRel
<1> QED BY <1>2

(* A line is numbered from one.                                            *)
LEMMA Numbered ==
  ASSUME line \in Lines
  PROVE  /\ WellFormedLine(line) /\ Len(line) \in Nat
         /\ Units = 1..Len(line) /\ Units \subseteq Nat /\ 0 \notin Units
<1>1. line \in Seq(Range(line)) /\ WellFormedLine(line)
  BY LinesAssumption DEF WellFormedLine
<1> QED BY <1>1 DEF Units

(* The unit that defines a spelling first.                                 *)
LEMMA FirstDefinition ==
  ASSUME line \in Lines, NEW s \in Indexed
  PROVE  /\ FirstDef(s) \in Units /\ s \in line[FirstDef(s)].defs
         /\ \A v \in Units : s \in line[v].defs => FirstDef(s) <= v
<1> DEFINE D == {u \in Units : s \in line[u].defs}
<1>1. PICK u \in D : \A v \in D : u <= v
  <2>1. D \subseteq Nat /\ D # {}
    BY Numbered DEF Indexed
  <2> QED BY <2>1, LeastNatural
<1>2. \E v \in Units : s \in line[v].defs /\ \A w \in Units : s \in line[w].defs => v <= w
  BY <1>1
<1> QED BY <1>2 DEF FirstDef

(* The first unit of a unit's directory.                                   *)
LEMMA SeedOfUnit ==
  ASSUME line \in Lines, NEW u \in Units
  PROVE  Seed(u) \in Units /\ line[Seed(u)].dir = line[u].dir
<1> DEFINE D == {v \in Units : line[v].dir = line[u].dir}
<1>1. PICK v \in D : \A w \in D : v <= w
  <2>1. D \subseteq Nat /\ D # {}
    BY Numbered
  <2> QED BY <2>1, LeastNatural
<1>2. \E x \in Units : line[x].dir = line[u].dir /\ \A w \in Units : line[w].dir = line[u].dir => x <= w
  BY <1>1
<1> QED BY <1>2 DEF Seed

LEMMA SeedIsOfItsDirectory ==
  ASSUME line \in Lines, NEW u \in Units, NEW v \in Units, line[u].dir = line[v].dir
  PROVE  Seed(u) = Seed(v)
BY DEF Seed

(* What a data edge names is defined by some unit, and an address is read. *)
LEMMA DataEdges ==
  ASSUME line \in Lines, NEW u \in Units, NEW e \in Text(u), e.kind \in DataKinds
  PROVE  /\ e \in Resolved(u) /\ e.to \in Global /\ e.to \in Indexed
         /\ e.kind = "AddressOfGlobal" =>
              \E f \in Resolved(u) : f.kind = "ReadsGlobal" /\ f.to = e.to
<1>1. WellFormedLine(line) /\ e \in line[u].edges /\ u \in DOMAIN line
  BY Numbered DEF Text, Units
<1>2. /\ e.kind \in DataKinds => e.to \in Global
      /\ (e.kind = "CallsIndirect") <=> (e.to = NoTarget)
      /\ e.to \in Global => \E v \in DOMAIN line : e.to \in line[v].defs
      /\ e.kind = "AddressOfGlobal" => \E r \in line[u].edges : r.kind = "ReadsGlobal" /\ r.to = e.to
  BY <1>1 DEF WellFormedLine
<1>3. e.to # NoTarget /\ e.to \in Global
  BY <1>2 DEF DataKinds
<1> QED BY <1>1, <1>2, <1>3 DEF Resolved, Text, Indexed, Symbol, Units

(* A unit is in its own crate's reach, and the pairs and references are of *)
(* units.                                                                  *)
LEMMA PairsOfUnits ==
  ASSUME line \in Lines
  PROVE  ForcedPairs \subseteq Units \X Units /\ UnitRefs \subseteq Units \X Units
<1>1. \A u \in Units : \A r \in line[u].impls \intersect Indexed : <<u, FirstDef(r)>> \in Units \X Units
  BY FirstDefinition
<1>2. \A u \in Units : \A e \in {f \in Resolved(u) : f.to \in Indexed} : <<u, FirstDef(e.to)>> \in Units \X Units
  BY FirstDefinition
<1>3. \A u \in Units : \A e \in {f \in Resolved(u) : f.kind \in {"ReadsGlobal", "WritesGlobal"}} :
        <<u, FirstDef(e.to)>> \in Units \X Units
  BY FirstDefinition, DataEdges DEF Resolved, DataKinds
<1>4. ForcedPairs \subseteq Units \X Units
  BY <1>1, <1>3 DEF ForcedPairs
<1>5. UnitRefs \subseteq Units \X Units
  BY <1>2 DEF UnitRefs
<1> QED BY <1>4, <1>5

(* The references of the linked program that leave a crate are references  *)
(* of the texts: a static never leaves its unit.                           *)
LEMMA RealAcross ==
  ASSUME NEW at
  PROVE  Across(RealRefs, at) \subseteq Across(UnitRefs, at)
<1> SUFFICES ASSUME NEW r \in RealRefs, at[r[1]] # at[r[2]]
             PROVE  r \in UnitRefs
  BY DEF Across
<1>1. PICK u \in Units : \E e \in Resolved(u) : e.to \in Indexed /\ r = <<u, Definer(u, e.to)>>
  BY DEF RealRefs
<1> PICK e \in Resolved(u) : e.to \in Indexed /\ r = <<u, Definer(u, e.to)>>
  BY <1>1
<1>2. e.to \notin Static
  BY DEF Definer
<1>3. r = <<u, FirstDef(e.to)>>
  BY <1>2 DEF Definer
<1> QED BY <1>3 DEF UnitRefs

LEMMA AcyclicIsMonotone ==
  ASSUME NEW nodes, NEW edges, NEW fewer, fewer \subseteq edges, Acyclic(nodes, edges)
  PROVE  Acyclic(nodes, fewer)
BY DEF Acyclic

-----------------------------------------------------------------------------
(* The crates.                                                             *)

(* Every unit's crate is a unit that is its own crate.                     *)
CratesOK == crateOf \in [Units -> Units] /\ \A u \in Units : crateOf[crateOf[u]] = crateOf[u]

Crates == {crateOf[u] : u \in Units}

(* Uniting crates unites them and no others.                               *)
LEMMA CondensedUnites ==
  ASSUME line \in Lines, CratesOK, NEW crates, crates \subseteq Crates, crates # {}
  PROVE  /\ Condensed(crates) \in [Units -> Units]
         /\ \A u \in Units : Condensed(crates)[Condensed(crates)[u]] = Condensed(crates)[u]
         /\ \A u, v \in Units :
              Condensed(crates)[u] = Condensed(crates)[v] <=>
                crateOf[u] = crateOf[v] \/ (crateOf[u] \in crates /\ crateOf[v] \in crates)
<1>1. crates \subseteq Units /\ \A c \in crates : crateOf[c] = c
  BY DEF CratesOK, Crates
<1>2. \E c \in crates : \A d \in crates : c <= d
  BY <1>1, Numbered, LeastNatural
<1> DEFINE least == CHOOSE c \in crates : \A d \in crates : c <= d
<1>3. least \in crates
  BY <1>2
<1> HIDE DEF least
<1>4. Condensed(crates) = [u \in Units |-> IF crateOf[u] \in crates THEN least ELSE crateOf[u]]
  BY DEF Condensed, least
<1>5. \A u \in Units : crateOf[u] \in Units /\ crateOf[crateOf[u]] = crateOf[u]
  BY DEF CratesOK
<1> QED BY <1>1, <1>3, <1>4, <1>5

(* The pairs looked at are together, and a plan has neither a cycle nor a  *)
(* crate that needs the binary.                                            *)
PartitionInv ==
  /\ stage \in {"forced", "condense", "planned"}
  /\ CratesOK
  /\ forced \subseteq ForcedPairs
  /\ stage # "forced" => forced = {}
  /\ \A p \in ForcedPairs \ forced : crateOf[p[1]] = crateOf[p[2]]
  /\ stage = "planned" => Cycles = {} /\ BinInbound = {}

(* Uniting keeps together what is together.                                *)
LEMMA CondensedKeepsTogether ==
  ASSUME line \in Lines, CratesOK, NEW crates, crates \subseteq Crates, crates # {},
         crateOf' = Condensed(crates), line' = line
  PROVE  /\ CratesOK'
         /\ \A u, v \in Units : crateOf[u] = crateOf[v] => crateOf'[u] = crateOf'[v]
         /\ \A u, v \in Units : crateOf[u] \in crates /\ crateOf[v] \in crates => crateOf'[u] = crateOf'[v]
<1>1. Units' = Units
  BY DEF Units
<1> QED BY <1>1, CondensedUnites DEF CratesOK

(* The ends of the edges between crates are crates.                        *)
LEMMA EdgesOfCrates ==
  ASSUME line \in Lines, CratesOK
  PROVE  /\ \A e \in CrateEdges :
              /\ e[1] \in Crates /\ e[2] \in Crates /\ e[1] # e[2] /\ e = <<e[1], e[2]>>
              /\ \E r \in UnitRefs : r[1] \in Units /\ r[2] \in Units /\ e = <<crateOf[r[1]], crateOf[r[2]]>>
         /\ BinInbound \subseteq Crates
<1>1. \A e \in CrateEdges : \E r \in UnitRefs : crateOf[r[1]] # crateOf[r[2]] /\ e = <<crateOf[r[1]], crateOf[r[2]]>>
  BY DEF CrateEdges, Across
<1>2. \A r \in UnitRefs : r[1] \in Units /\ r[2] \in Units
  BY PairsOfUnits
<1>3. \A e \in CrateEdges : e[1] \in Crates
  BY <1>1, <1>2 DEF Crates
<1>4. BinInbound \subseteq Crates
  BY <1>3 DEF BinInbound
<1> QED BY <1>1, <1>2, <1>3, <1>4 DEF Crates

-----------------------------------------------------------------------------
(* A simple path of edges among the nodes of a set.                        *)
SimplePaths(S, n) ==
  {d \in Injection(1..n, S) : \A i \in 1..(n - 1) : <<d[i], d[i + 1]>> \in CrateEdges}

(* No path that repeats no unit is longer than the line.                   *)
LEMMA PathsAreShort ==
  ASSUME line \in Lines, NEW S, S \subseteq Units, NEW n \in Nat, SimplePaths(S, n) # {}
  PROVE  n <= Len(line)
<1>1. PICK d \in Injection(1..n, S) : TRUE
  BY DEF SimplePaths
<1>2. d \in Injection(1..n, 1..Len(line))
  BY <1>1, Numbered DEF Injection, IsInjective
<1>3. IsFiniteSet(1..Len(line)) /\ Cardinality(1..Len(line)) = Len(line) /\ Cardinality(1..n) = n
  <2>1. PICK k \in Nat : k = Len(line)
    BY Numbered
  <2>2. 1 \in Int /\ k \in Int /\ n \in Int
    BY <2>1
  <2>3. IsFiniteSet(1..k) /\ Cardinality(1..k) = IF 1 > k THEN 0 ELSE k - 1 + 1
    BY <2>2, FS_Interval
  <2>4. Cardinality(1..n) = IF 1 > n THEN 0 ELSE n - 1 + 1
    BY <2>2, FS_Interval
  <2> QED BY <2>1, <2>3, <2>4
<1>4. Cardinality(1..n) <= Cardinality(1..Len(line))
  BY <1>2, <1>3, FS_Injection
<1> QED BY <1>3, <1>4

(* Among units, a set all of whose members have an edge into it has a      *)
(* longest path, and what that ends at leads back to it.                   *)
LEMMA NoCyclesIsAcyclic ==
  ASSUME line \in Lines, CratesOK, Cycles = {}
  PROVE  Acyclic(Range(crateOf), CrateEdges)
<1> SUFFICES ASSUME NEW S \in SUBSET Range(crateOf), S # {},
                    \A n \in S : \E m \in S : <<n, m>> \in CrateEdges
             PROVE  FALSE
  BY DEF Acyclic
<1>1. S \subseteq Units
  BY DEF CratesOK, Range
<1>2. Len(line) \in Nat
  BY Numbered
<1> DEFINE short == {Len(line) - n : n \in {m \in 1..Len(line) : SimplePaths(S, m) # {}}}
<1>3. \A n \in Nat : n # 0 /\ SimplePaths(S, n) # {} => n \in 1..Len(line)
  BY <1>1, <1>2, PathsAreShort
<1>4. SimplePaths(S, 1) # {}
  <2>1. PICK s \in S : TRUE
    OBVIOUS
  <2>2. [i \in 1..1 |-> s] \in SimplePaths(S, 1)
    BY <2>1 DEF SimplePaths, Injection, IsInjective
  <2> QED BY <2>2
<1>5. PICK k \in short : \A j \in short : k <= j
  <2>1. short \subseteq Nat /\ short # {}
    BY <1>2, <1>3, <1>4
  <2> QED BY <2>1, LeastNatural
<1>6. PICK n \in 1..Len(line) : k = Len(line) - n /\ SimplePaths(S, n) # {}
  BY <1>5
<1>7. SimplePaths(S, n + 1) = {}
  <2> SUFFICES ASSUME SimplePaths(S, n + 1) # {} PROVE FALSE
    OBVIOUS
  <2>1. n + 1 \in 1..Len(line)
    BY <1>2, <1>3, <1>6
  <2>2. Len(line) - (n + 1) \in short
    BY <2>1
  <2>3. k <= Len(line) - (n + 1)
    BY <1>5, <2>2
  <2> HIDE DEF short
  <2>4. k = Len(line) - n /\ n \in Nat
    BY <1>6, <1>2
  <2> QED BY <1>2, <2>3, <2>4
<1>8. PICK d \in SimplePaths(S, n) : TRUE
  BY <1>6
<1>9. /\ n \in Nat \ {0} /\ d \in [1..n -> S]
      /\ \A a, b \in 1..n : d[a] = d[b] => a = b
      /\ \A i \in 1..(n - 1) : <<d[i], d[i + 1]>> \in CrateEdges
  <2>1. n \in Nat \ {0}
    BY <1>2, <1>6
  <2>2. d \in Injection(1..n, S) /\ \A i \in 1..(n - 1) : <<d[i], d[i + 1]>> \in CrateEdges
    BY <1>8 DEF SimplePaths
  <2>3. d \in [1..n -> S] /\ \A a, b \in 1..n : d[a] = d[b] => a = b
    BY <2>2 DEF Injection, IsInjective
  <2> QED BY <2>1, <2>2, <2>3
<1>10. PICK m \in S : <<d[n], m>> \in CrateEdges
  <2>1. n \in 1..n
    BY <1>9
  <2>2. d[n] \in S
    BY <1>9, <2>1
  <2> QED BY <2>2
<1>11. PICK i \in 1..n : d[i] = m
  <2> SUFFICES ASSUME \A i \in 1..n : d[i] # m PROVE FALSE
    OBVIOUS
  <2> DEFINE e == [j \in 1..(n + 1) |-> IF j = n + 1 THEN m ELSE d[j]]
  <2>1. e \in [1..(n + 1) -> S]
    BY <1>9, <1>10
  <2>2. \A a, b \in 1..(n + 1) : e[a] = e[b] => a = b
    BY <1>9
  <2>3. \A j \in 1..n : <<e[j], e[j + 1]>> \in CrateEdges
    BY <1>9, <1>10
  <2>4. e \in SimplePaths(S, n + 1)
    <3>1. e \in Injection(1..(n + 1), S)
      BY <2>1, <2>2 DEF Injection, IsInjective
    <3>2. (n + 1) - 1 = n
      BY <1>9
    <3> QED BY <2>3, <3>1, <3>2 DEF SimplePaths
  <2> QED BY <1>7, <2>4
<1>12. i # n
  <2> SUFFICES ASSUME i = n PROVE FALSE
    OBVIOUS
  <2>1. <<m, m>> \in CrateEdges
    BY <1>10, <1>11
  <2> QED BY <2>1, EdgesOfCrates
<1> DEFINE l == n - i + 1
           c == [j \in 1..l |-> d[j + i - 1]]
<1>13. l \in Nat /\ l >= 2 /\ l \in 2..Len(line)
  BY <1>2, <1>6, <1>9, <1>11, <1>12
<1>14. \A j \in 1..l : j + i - 1 \in 1..n /\ j + i - 1 \in Nat
  BY <1>9, <1>11, <1>13
<1>15. c \in [1..l -> Units] /\ \A a, b \in 1..l : c[a] = c[b] => a = b
  <2>1. \A a, b \in 1..l : a + i - 1 = b + i - 1 => a = b
    BY <1>9, <1>11, <1>13
  <2> QED BY <1>1, <1>9, <1>14, <2>1
<1>16. \A j \in 1..l : <<c[j], c[IF j = l THEN 1 ELSE j + 1]>> \in CrateEdges
  <2> SUFFICES ASSUME NEW j \in 1..l
               PROVE  <<c[j], c[IF j = l THEN 1 ELSE j + 1]>> \in CrateEdges
    OBVIOUS
  <2>1. CASE j = l
    <3>1. c[j] = d[n] /\ c[1] = d[i]
      BY <1>9, <1>11, <1>13, <2>1
    <3> QED BY <1>10, <1>11, <2>1, <3>1
  <2>2. CASE j # l
    <3>1. j + 1 \in 1..l /\ j + i - 1 \in 1..(n - 1) /\ (j + 1) + i - 1 = (j + i - 1) + 1
      BY <1>9, <1>11, <1>13, <2>2
    <3> QED BY <1>9, <2>2, <3>1
  <2> QED BY <2>1, <2>2
<1>17. Range(c) \in Cycles
  <2> HIDE DEF c, l
  <2>1. c \in Injection(1..l, Units)
    BY <1>15 DEF Injection, IsInjective
  <2>2. c \in Seq(Units) /\ Len(c) = l
    BY <1>13, <1>15
  <2>3. c \in UNION {Injection(1..k1, Units) : k1 \in 2..Len(line)}
    BY <1>13, <2>1
  <2> QED BY <1>16, <2>2, <2>3 DEF Cycles
<1> QED BY <1>17

-----------------------------------------------------------------------------
(* The steps of the partition.                                             *)

LEMMA TextsStay ==
  ASSUME line' = line
  PROVE  /\ Units' = Units /\ ForcedPairs' = ForcedPairs /\ UnitRefs' = UnitRefs
         /\ RealRefs' = RealRefs /\ BinUnits' = BinUnits /\ Coarsenings' = Coarsenings
         /\ Indexed' = Indexed
         /\ \A u \in Units : Text(u)' = Text(u) /\ Resolved(u)' = Resolved(u)
<1>1. Units' = Units
  BY DEF Units
<1>2. Indexed' = Indexed
  BY DEF Indexed, Units
<1>3. \A s : FirstDef(s)' = FirstDef(s)
  BY DEF FirstDef, Units
<1>4. \A u \in Units : Text(u)' = Text(u) /\ Resolved(u)' = Resolved(u)
  BY DEF Resolved, Text
<1>5. ForcedPairs' = ForcedPairs
  BY <1>1, <1>2, <1>3, <1>4 DEF ForcedPairs
<1>6. UnitRefs' = UnitRefs
  BY <1>1, <1>2, <1>3, <1>4 DEF UnitRefs
<1>7. RealRefs' = RealRefs
  BY <1>1, <1>2, <1>3, <1>4 DEF RealRefs, Definer
<1>8. BinUnits' = BinUnits
  BY <1>1, <1>2, <1>3 DEF BinUnits
<1>9. Coarsenings' = Coarsenings
  BY <1>1 DEF Coarsenings
<1> QED BY <1>1, <1>2, <1>4, <1>5, <1>6, <1>7, <1>8, <1>9

LEMMA PartitionStarts ==
  ASSUME line \in Lines, PartitionInit
  PROVE  PartitionInv
<1>1. CratesOK
  <2>1. \A u \in Units : Seed(u) \in Units /\ Seed(Seed(u)) = Seed(u)
    BY SeedOfUnit, SeedIsOfItsDirectory
  <2> QED BY <2>1 DEF PartitionInit, CratesOK
<1> QED BY <1>1 DEF PartitionInit, PartitionInv

(* What each step unites is crates, and the pair it forces is one.         *)
LEMMA UnitedAreCrates ==
  ASSUME line \in Lines, PartitionInv
  PROVE  /\ \A p \in forced : {crateOf[p[1]], crateOf[p[2]]} \subseteq Crates
         /\ \A c \in Cycles : c \subseteq Crates /\ c # {}
         /\ BinInbound \union {crateOf[b] : b \in BinUnits} \subseteq Crates
<1>1. \A p \in forced : p[1] \in Units /\ p[2] \in Units
  BY PairsOfUnits DEF PartitionInv
<1>2. BinUnits \subseteq Units
  BY DEF BinUnits
<1>3. BinInbound \subseteq Crates
  BY EdgesOfCrates DEF PartitionInv
<1>4. \A c \in Cycles : c \subseteq Crates /\ c # {}
  <2> SUFFICES ASSUME NEW c \in Cycles PROVE c \subseteq Crates /\ c # {}
    OBVIOUS
  <2>1. PICK d \in UNION {Injection(1..n, Units) : n \in 2..Len(line)} :
          /\ c = Range(d)
          /\ \A i \in 1..Len(d) : <<d[i], d[IF i = Len(d) THEN 1 ELSE i + 1]>> \in CrateEdges
    BY DEF Cycles
  <2>2. PICK n \in 2..Len(line) : d \in Injection(1..n, Units)
    BY <2>1
  <2>3. n \in Nat /\ n >= 2 /\ d \in [1..n -> Units]
    BY <2>2, Numbered DEF Injection
  <2>4. Len(d) = n /\ c = {d[i] : i \in 1..n}
    BY <2>1, <2>3 DEF Range
  <2>5. \A i \in 1..n : d[i] \in Crates
    BY <2>1, <2>4, EdgesOfCrates DEF PartitionInv
  <2>6. 1 \in 1..n
    BY <2>3
  <2> QED BY <2>4, <2>5, <2>6
<1> QED BY <1>1, <1>2, <1>3, <1>4 DEF Crates

LEMMA PartitionSteps ==
  ASSUME line \in Lines, line' = line, PartitionInv, PartitionNext
  PROVE  PartitionInv'
<1> USE DEF PartitionInv
<1>1. Units' = Units /\ ForcedPairs' = ForcedPairs
  BY TextsStay
<1>2. \A p \in ForcedPairs : p[1] \in Units /\ p[2] \in Units
  BY PairsOfUnits
<1>3. CASE CondensePair
  <2>1. PICK p \in forced : Condense({crateOf[p[1]], crateOf[p[2]]}) /\ forced' = forced \ {p}
    BY <1>3 DEF CondensePair
  <2> DEFINE both == {crateOf[p[1]], crateOf[p[2]]}
  <2>2. both \subseteq Crates /\ both # {}
    BY <2>1, UnitedAreCrates
  <2>3. crateOf' = Condensed(both)
    BY <2>1 DEF Condense
  <2> HIDE DEF both
  <2>4. /\ CratesOK'
        /\ \A u, v \in Units : crateOf[u] = crateOf[v] => crateOf'[u] = crateOf'[v]
        /\ \A u, v \in Units : crateOf[u] \in both /\ crateOf[v] \in both => crateOf'[u] = crateOf'[v]
    BY <2>2, <2>3, CondensedKeepsTogether
  <2>5. crateOf'[p[1]] = crateOf'[p[2]]
    BY <1>2, <2>1, <2>4 DEF both
  <2>6. stage' = "forced" /\ stage = "forced"
    BY <1>3 DEF CondensePair
  <2> QED BY <1>1, <1>2, <2>1, <2>4, <2>5, <2>6
<1>4. CASE EndForced
  BY <1>1, <1>4 DEF EndForced, CratesOK
<1>5. CASE CondenseCycle
  <2>1. PICK c \in Cycles : Condense(c)
    BY <1>5 DEF CondenseCycle
  <2>2. c \subseteq Crates /\ c # {} /\ crateOf' = Condensed(c)
    BY <2>1, UnitedAreCrates DEF Condense
  <2>3. CratesOK' /\ \A u, v \in Units : crateOf[u] = crateOf[v] => crateOf'[u] = crateOf'[v]
    BY <2>2, CondensedKeepsTogether
  <2>4. stage' = stage /\ forced' = forced /\ stage = "condense"
    BY <1>5 DEF CondenseCycle
  <2> QED BY <1>1, <1>2, <2>3, <2>4
<1>6. CASE CondenseIntoBin
  <2> DEFINE c == BinInbound \union {crateOf[b] : b \in BinUnits}
  <2>1. c \subseteq Crates /\ c # {} /\ crateOf' = Condensed(c)
    BY <1>6, UnitedAreCrates DEF CondenseIntoBin, Condense
  <2> HIDE DEF c
  <2>3. CratesOK' /\ \A u, v \in Units : crateOf[u] = crateOf[v] => crateOf'[u] = crateOf'[v]
    BY <2>1, CondensedKeepsTogether
  <2>4. stage' = stage /\ forced' = forced /\ stage = "condense"
    BY <1>6 DEF CondenseIntoBin
  <2> QED BY <1>1, <1>2, <2>3, <2>4
<1>7. CASE EndPartition
  <2>1. crateOf' = crateOf /\ forced' = forced /\ stage' = "planned" /\ stage = "condense"
    BY <1>7 DEF EndPartition
  <2>2. Cycles = {} /\ BinInbound = {}
    BY <1>7 DEF EndPartition
  <2>3. CrateEdges' = CrateEdges
    BY <2>1, TextsStay DEF CrateEdges, Across
  <2>4. Cycles' = Cycles
    BY <1>1, <2>3 DEF Cycles
  <2>5. BinInbound' = BinInbound
    BY <2>1, <2>3, TextsStay DEF BinInbound
  <2> QED BY <1>1, <2>1, <2>2, <2>4, <2>5 DEF CratesOK
<1> QED BY <1>3, <1>4, <1>5, <1>6, <1>7 DEF PartitionNext

(* Looking elsewhere changes nothing here.                                 *)
LEMMA PartitionRests ==
  ASSUME PartitionInv, line' = line, UNCHANGED partitionVars
  PROVE  PartitionInv'
<1>1. crateOf' = crateOf /\ forced' = forced /\ stage' = stage
  BY DEF partitionVars
<1>2. CrateEdges' = CrateEdges
  BY <1>1, TextsStay DEF CrateEdges, Across
<1>3. Cycles' = Cycles
  BY <1>2, TextsStay DEF Cycles
<1>4. BinInbound' = BinInbound
  BY <1>1, <1>2, TextsStay DEF BinInbound
<1> QED BY <1>1, <1>3, <1>4, TextsStay DEF PartitionInv, CratesOK

-----------------------------------------------------------------------------
(* What the planned crates promise.                                        *)

LEMMA PlannedCratesBuild ==
  ASSUME line \in Lines, PartitionInv
  PROVE  CargoCanBuild
<1> SUFFICES ASSUME stage = "planned"
             PROVE  Buildable(RealRefs, crateOf) /\ ~Splits(crateOf)
  BY DEF CargoCanBuild
<1>1. /\ CratesOK /\ Cycles = {} /\ BinInbound = {}
      /\ \A p \in ForcedPairs : crateOf[p[1]] = crateOf[p[2]]
  BY DEF PartitionInv
<1>2. Across(RealRefs, crateOf) \subseteq CrateEdges
  BY RealAcross DEF CrateEdges
<1>3. Acyclic(Range(crateOf), Across(RealRefs, crateOf))
  BY <1>1, <1>2, NoCyclesIsAcyclic, AcyclicIsMonotone
<1>4. \A e \in Across(RealRefs, crateOf), b \in BinUnits : e[2] # crateOf[b]
  BY <1>1, <1>2 DEF BinInbound
<1>5. ASSUME NEW u \in Units, NEW e \in Text(u), e.kind \in DataKinds
      PROVE  crateOf[u] = crateOf[Definer(u, e.to)]
  <2>1. CASE e.to \in Static
    BY <2>1 DEF Definer
  <2>2. CASE e.to \notin Static
    <3>1. PICK f \in Resolved(u) : f.kind \in {"ReadsGlobal", "WritesGlobal"} /\ f.to = e.to
      BY <1>5, DataEdges DEF DataKinds
    <3>2. <<u, FirstDef(e.to)>> \in ForcedPairs
      BY <3>1 DEF ForcedPairs
    <3>3. Definer(u, e.to) = FirstDef(e.to)
      BY <2>2 DEF Definer
    <3> QED BY <1>1, <3>2, <3>3
  <2> QED BY <2>1, <2>2
<1>6. ASSUME NEW u \in Units, NEW r \in line[u].impls \intersect Indexed
      PROVE  crateOf[u] = crateOf[FirstDef(r)]
  <2>1. <<u, FirstDef(r)>> \in ForcedPairs
    BY DEF ForcedPairs
  <2> QED BY <1>1, <2>1
<1>7. ~Splits(crateOf)
  BY <1>5, <1>6 DEF Splits
<1> QED BY <1>3, <1>4, <1>7 DEF Buildable

(* Another way to group the directories that would build.                  *)
Sound(at) == Buildable(UnitRefs, at) /\ \A p \in ForcedPairs : at[p[1]] = at[p[2]]

(* It keeps together all that the crates keep together.                    *)
Contains(at) == \A u, v \in Units : crateOf[u] = crateOf[v] => at[u] = at[v]

FinenessInv == \A at \in Coarsenings : Sound(at) => Contains(at)

LEMMA FinenessStarts ==
  ASSUME line \in Lines, PartitionInit
  PROVE  FinenessInv
<1> SUFFICES ASSUME NEW at \in Coarsenings, NEW u \in Units, NEW v \in Units, crateOf[u] = crateOf[v]
             PROVE  at[u] = at[v]
  BY DEF FinenessInv, Contains
<1>1. Seed(u) = Seed(v)
  BY DEF PartitionInit
<1>2. line[u].dir = line[v].dir
  BY <1>1, SeedOfUnit
<1> QED BY <1>2 DEF Coarsenings

(* Uniting crates that a grouping has together leaves it a grouping of all *)
(* that is together.                                                       *)
LEMMA ContainsStays ==
  ASSUME line \in Lines, CratesOK, NEW at, Contains(at),
         NEW crates, crates \subseteq Crates, crates # {},
         \A c, d \in crates : at[c] = at[d],
         crateOf' = Condensed(crates), line' = line
  PROVE  \A u, v \in Units : crateOf'[u] = crateOf'[v] => at[u] = at[v]
<1> SUFFICES ASSUME NEW u \in Units, NEW v \in Units, crateOf'[u] = crateOf'[v]
             PROVE  at[u] = at[v]
  OBVIOUS
<1>1. crateOf[u] = crateOf[v] \/ (crateOf[u] \in crates /\ crateOf[v] \in crates)
  BY CondensedUnites
<1>2. at[crateOf[u]] = at[u] /\ at[crateOf[v]] = at[v]
  BY DEF CratesOK, Contains
<1> QED BY <1>1, <1>2 DEF Contains

(* A property that a place around a circle hands on holds all around it.   *)
LEMMA AroundTheCircle ==
  ASSUME NEW n \in Nat, NEW I, I \subseteq 1..n, I # {},
         \A i \in I : (IF i = n THEN 1 ELSE i + 1) \in I
  PROVE  I = 1..n
<1>1. \A i \in I : \A j \in 1..n : i <= j => j \in I
  <2> SUFFICES ASSUME NEW i \in I, NEW j \in 1..n, i <= j, j \notin I PROVE FALSE
    OBVIOUS
  <2> DEFINE missing == {k \in 1..n : i <= k /\ k \notin I}
  <2>1. PICK k \in missing : \A l \in missing : k <= l
    <3>1. missing \subseteq Nat /\ missing # {}
      OBVIOUS
    <3> QED BY <3>1, LeastNatural
  <2>2. k # i /\ k - 1 \in 1..n /\ i <= k - 1 /\ k - 1 # n
    BY <2>1
  <2>3. k - 1 \in I
    BY <2>1, <2>2
  <2>4. (k - 1) + 1 \in I
    BY <2>2, <2>3
  <2> QED BY <2>1, <2>4
<1>2. 1 \in I
  <2>1. PICK i \in I : TRUE
    OBVIOUS
  <2>2. n \in I
    BY <1>1, <2>1
  <2> QED BY <2>2
<1>3. \A j \in 1..n : j \in I
  BY <1>1, <1>2
<1> QED BY <1>3

(* What a cycle of crates unites, every sound grouping has together.       *)
LEMMA CyclesAreTogether ==
  ASSUME line \in Lines, CratesOK, NEW at \in Coarsenings, Contains(at), Buildable(UnitRefs, at), NEW c \in Cycles
  PROVE  \A a, b \in c : at[a] = at[b]
<1>1. PICK d \in UNION {Injection(1..n, Units) : n \in 2..Len(line)} :
        /\ c = Range(d)
        /\ \A i \in 1..Len(d) : <<d[i], d[IF i = Len(d) THEN 1 ELSE i + 1]>> \in CrateEdges
  BY DEF Cycles
<1>2. PICK n \in 2..Len(line) : d \in Injection(1..n, Units)
  BY <1>1
<1>3. n \in Nat /\ n >= 2 /\ d \in [1..n -> Units]
  BY <1>2, Numbered DEF Injection
<1>4. Len(d) = n /\ c = {d[i] : i \in 1..n}
  BY <1>1, <1>3 DEF Range
<1> DEFINE next(i) == IF i = n THEN 1 ELSE i + 1
<1>5. \A i \in 1..n : next(i) \in 1..n /\ <<d[i], d[next(i)]>> \in CrateEdges
  BY <1>1, <1>3, <1>4
<1>6. \A i \in 1..n : d[i] \in Units /\ d[next(i)] \in Units
  BY <1>3, <1>5
<1> HIDE DEF next
<1>7. ASSUME NEW i \in 1..n
      PROVE  at[d[i]] = at[d[next(i)]] \/ <<at[d[i]], at[d[next(i)]]>> \in Across(UnitRefs, at)
  <2>1. PICK r \in UnitRefs : /\ r[1] \in Units /\ r[2] \in Units
                              /\ <<d[i], d[next(i)]>> = <<crateOf[r[1]], crateOf[r[2]]>>
    BY <1>5, EdgesOfCrates
  <2>2. d[i] = crateOf[r[1]] /\ d[next(i)] = crateOf[r[2]]
    BY <2>1
  <2>3. at[d[i]] = at[r[1]] /\ at[d[next(i)]] = at[r[2]]
    BY <2>1, <2>2 DEF Contains, CratesOK
  <2> QED BY <2>1, <2>3 DEF Across
<1> DEFINE S == {at[d[i]] : i \in 1..n}
<1>8. PICK a \in S : \A m \in S : <<a, m>> \notin Across(UnitRefs, at)
  <2>1. S \subseteq Range(at)
    BY <1>6 DEF Range, Coarsenings
  <2>2. S # {}
    <3>1. 1 \in 1..n
      BY <1>3
    <3> QED BY <3>1
  <2> HIDE DEF S
  <2> QED BY <2>1, <2>2 DEF Buildable, Acyclic
<1> DEFINE I == {i \in 1..n : at[d[i]] = a}
<1>9. I # {}
  BY <1>8
<1>10. \A i \in I : next(i) \in I
  <2> SUFFICES ASSUME NEW i \in I PROVE next(i) \in I
    OBVIOUS
  <2>1. i \in 1..n /\ at[d[i]] = a /\ next(i) \in 1..n
    BY <1>5
  <2>2. at[d[next(i)]] \in S
    BY <2>1
  <2>3. <<at[d[i]], at[d[next(i)]]>> \notin Across(UnitRefs, at)
    BY <1>8, <2>1, <2>2
  <2>4. at[d[i]] = at[d[next(i)]]
    BY <1>7, <2>1, <2>3
  <2> QED BY <2>1, <2>4
<1>11. I = 1..n
  <2>1. I \subseteq 1..n
    OBVIOUS
  <2>2. \A i \in I : (IF i = n THEN 1 ELSE i + 1) \in I
    BY <1>10 DEF next
  <2> HIDE DEF I
  <2> QED BY <1>3, <1>9, <2>1, <2>2, AroundTheCircle
<1>12. \A i \in 1..n : at[d[i]] = a
  BY <1>11
<1> QED BY <1>4, <1>12

(* Whoever needs the binary of a grouping is in it already.                *)
LEMMA BinaryIsTogether ==
  ASSUME line \in Lines, CratesOK, NEW at \in Coarsenings, Contains(at), Buildable(UnitRefs, at),
         NEW c \in BinInbound \union {crateOf[b] : b \in BinUnits},
         NEW d \in BinInbound \union {crateOf[b] : b \in BinUnits}
  PROVE  at[c] = at[d]
<1>1. PICK b \in BinUnits : TRUE
  BY DEF BinInbound
<1>2. \A a \in BinUnits : a = b
  BY DEF BinUnits
<1>3. b \in Units
  BY DEF BinUnits
<1>4. at[crateOf[b]] = at[b]
  BY <1>3 DEF CratesOK, Contains
<1>5. ASSUME NEW x \in BinInbound PROVE at[x] = at[b]
  <2>1. PICK e \in CrateEdges : e[1] = x /\ e[2] = crateOf[b]
    BY <1>2 DEF BinInbound
  <2>2. PICK r \in UnitRefs : r[1] \in Units /\ r[2] \in Units /\ e = <<crateOf[r[1]], crateOf[r[2]]>>
    BY <2>1, EdgesOfCrates
  <2>3. x = crateOf[r[1]] /\ crateOf[b] = crateOf[r[2]]
    BY <2>1, <2>2
  <2>4. at[r[2]] = at[b] /\ at[x] = at[r[1]]
    BY <1>3, <2>2, <2>3 DEF Contains, CratesOK
  <2>5. at[r[1]] = at[r[2]]
    <3> SUFFICES ASSUME at[r[1]] # at[r[2]] PROVE FALSE
      OBVIOUS
    <3>1. <<at[r[1]], at[r[2]]>> \in Across(UnitRefs, at)
      BY <2>2 DEF Across
    <3> QED BY <2>4, <3>1 DEF Buildable
  <2> QED BY <2>4, <2>5
<1> QED BY <1>2, <1>4, <1>5

LEMMA FinenessSteps ==
  ASSUME line \in Lines, line' = line, PartitionInv, FinenessInv, PartitionNext
  PROVE  FinenessInv'
<1>1. Coarsenings' = Coarsenings /\ ForcedPairs' = ForcedPairs /\ UnitRefs' = UnitRefs /\ Units' = Units
  BY TextsStay
<1>2. CratesOK
  BY DEF PartitionInv
<1>3. ASSUME NEW at \in Coarsenings, Sound(at)' PROVE Contains(at)'
  <2>1. Sound(at)
    BY <1>1, <1>3, TextsStay DEF Sound, Buildable
  <2>2. Contains(at)
    BY <2>1 DEF FinenessInv
  <2> SUFFICES \A u, v \in Units : crateOf'[u] = crateOf'[v] => at[u] = at[v]
    BY <1>1 DEF Contains
  <2>3. CASE CondensePair
    <3>1. PICK p \in forced : Condense({crateOf[p[1]], crateOf[p[2]]})
      BY <2>3 DEF CondensePair
    <3> DEFINE both == {crateOf[p[1]], crateOf[p[2]]}
    <3>2. both \subseteq Crates /\ both # {} /\ crateOf' = Condensed(both)
      BY <3>1, UnitedAreCrates DEF Condense
    <3>3. p \in ForcedPairs /\ p[1] \in Units /\ p[2] \in Units
      BY <3>1, PairsOfUnits DEF PartitionInv
    <3>4. at[crateOf[p[1]]] = at[p[1]] /\ at[crateOf[p[2]]] = at[p[2]] /\ at[p[1]] = at[p[2]]
      BY <1>2, <2>1, <2>2, <3>3 DEF Contains, CratesOK, Sound
    <3>5. \A c, d \in both : at[c] = at[d]
      BY <3>4
    <3> HIDE DEF both
    <3> QED BY <1>2, <2>2, <3>2, <3>5, ContainsStays
  <2>4. CASE EndForced \/ EndPartition
    <3>1. crateOf' = crateOf
      BY <2>4 DEF EndForced, EndPartition
    <3> QED BY <2>2, <3>1 DEF Contains
  <2>5. CASE CondenseCycle
    <3>1. PICK c \in Cycles : Condense(c)
      BY <2>5 DEF CondenseCycle
    <3>2. c \subseteq Crates /\ c # {} /\ crateOf' = Condensed(c)
      BY <3>1, UnitedAreCrates DEF Condense
    <3>3. \A a, b \in c : at[a] = at[b]
      BY <1>2, <2>1, <2>2, <3>1, CyclesAreTogether DEF Sound
    <3> QED BY <1>2, <2>2, <3>2, <3>3, ContainsStays
  <2>6. CASE CondenseIntoBin
    <3> DEFINE c == BinInbound \union {crateOf[b] : b \in BinUnits}
    <3>1. c \subseteq Crates /\ c # {} /\ crateOf' = Condensed(c)
      BY <2>6, UnitedAreCrates DEF CondenseIntoBin, Condense
    <3>2. \A a, b \in c : at[a] = at[b]
      BY <1>2, <2>1, <2>2, BinaryIsTogether DEF Sound
    <3> HIDE DEF c
    <3> QED BY <1>2, <2>2, <3>1, <3>2, ContainsStays
  <2> QED BY <2>3, <2>4, <2>5, <2>6 DEF PartitionNext
<1> QED BY <1>1, <1>3 DEF FinenessInv

LEMMA FinenessRests ==
  ASSUME FinenessInv, line' = line, UNCHANGED partitionVars
  PROVE  FinenessInv'
<1>1. crateOf' = crateOf
  BY DEF partitionVars
<1>2. /\ Coarsenings' = Coarsenings /\ ForcedPairs' = ForcedPairs /\ UnitRefs' = UnitRefs
      /\ Units' = Units /\ BinUnits' = BinUnits
  BY TextsStay
<1> QED BY <1>1, <1>2 DEF FinenessInv, Sound, Buildable, Contains

(* Where statics are spelled apart the first to define what a unit names   *)
(* is the one the linked program uses.                                     *)
LEMMA SpelledApart ==
  ASSUME line \in Lines, StaticsSpelledApart, NEW u \in Units, NEW e \in Text(u), e.to \in Indexed
  PROVE  Definer(u, e.to) = FirstDef(e.to)
<1>1. CASE e.to \in Static
  <2>1. WellFormedLine(line) /\ e \in line[u].edges /\ u \in DOMAIN line
    BY Numbered DEF Text, Units
  <2>2. e.to \in line[u].defs
    BY <1>1, <2>1 DEF WellFormedLine
  <2>3. FirstDef(e.to) \in Units /\ e.to \in line[FirstDef(e.to)].defs
    BY FirstDefinition
  <2>4. FirstDef(e.to) = u
    BY <1>1, <2>2, <2>3 DEF StaticsSpelledApart
  <2> QED BY <1>1, <2>4 DEF Definer
<1>2. CASE e.to \notin Static
  BY <1>2 DEF Definer
<1> QED BY <1>1, <1>2

(* So what the linked program can be built as the planner would build.     *)
LEMMA BuildableIsSound ==
  ASSUME line \in Lines, StaticsSpelledApart, NEW at, Buildable(RealRefs, at), ~Splits(at)
  PROVE  Sound(at)
<1>1. \A u \in Units : \A e \in {f \in Resolved(u) : f.to \in Indexed} : Definer(u, e.to) = FirstDef(e.to)
  BY SpelledApart DEF Resolved
<1>2. UnitRefs = RealRefs
  BY <1>1 DEF UnitRefs, RealRefs
<1>3. ASSUME NEW u \in Units, NEW e \in Resolved(u), e.kind \in {"ReadsGlobal", "WritesGlobal"}
      PROVE  at[u] = at[FirstDef(e.to)]
  <2>1. e \in Text(u) /\ e.kind \in DataKinds
    BY <1>3 DEF Resolved, DataKinds
  <2>2. e.to \in Indexed
    BY <2>1, DataEdges
  <2>3. Definer(u, e.to) = FirstDef(e.to)
    BY <2>1, <2>2, SpelledApart
  <2>4. at[u] = at[Definer(u, e.to)]
    BY <2>1 DEF Splits
  <2> QED BY <2>3, <2>4
<1>4. \A u \in Units : \A r \in line[u].impls \intersect Indexed : at[u] = at[FirstDef(r)]
  BY DEF Splits
<1>5. \A p \in ForcedPairs : at[p[1]] = at[p[2]]
  BY <1>3, <1>4 DEF ForcedPairs
<1> QED BY <1>2, <1>5 DEF Sound

LEMMA PlannedCratesAreNeeded ==
  ASSUME line \in Lines, FinenessInv
  PROVE  CondensesNoMore
BY BuildableIsSound DEF FinenessInv, Contains, CondensesNoMore, Needed

-----------------------------------------------------------------------------
(* The crates are a grouping of the directories, and there is one finest.   *)

CoarseInv == crateOf \in Coarsenings

LEMMA CoarseStarts ==
  ASSUME line \in Lines, PartitionInit
  PROVE  CoarseInv
<1>1. \A u \in Units : Seed(u) \in Units /\ Seed(Seed(u)) = Seed(u) /\ Seed(u) <= u
  <2> TAKE u \in Units
  <2> DEFINE D == {v \in Units : line[v].dir = line[u].dir}
  <2>1. PICK v \in D : \A w \in D : v <= w
    <3>1. D \subseteq Nat /\ D # {}
      BY Numbered
    <3> QED BY <3>1, LeastNatural
  <2>2. \E x \in Units : line[x].dir = line[u].dir /\ \A w \in Units : line[w].dir = line[u].dir => x <= w
    BY <2>1
  <2>3. Seed(u) <= u
    BY <2>2 DEF Seed
  <2> QED BY <2>3, SeedOfUnit, SeedIsOfItsDirectory
<1> QED BY <1>1, SeedIsOfItsDirectory DEF CoarseInv, Coarsenings, PartitionInit

LEMMA CondensedIsCoarse ==
  ASSUME line \in Lines, CratesOK, CoarseInv, NEW crates, crates \subseteq Crates, crates # {}
  PROVE  Condensed(crates) \in Coarsenings
<1>1. crates \subseteq Nat
  BY Numbered DEF Crates, CratesOK
<1>2. \E c \in crates : \A d \in crates : c <= d
  BY <1>1, LeastNatural
<1> DEFINE least == CHOOSE c \in crates : \A d \in crates : c <= d
<1>3. least \in crates /\ \A d \in crates : least <= d
  BY <1>2
<1>4. Condensed(crates) = [u \in Units |-> IF crateOf[u] \in crates THEN least ELSE crateOf[u]]
  BY DEF Condensed, least
<1> HIDE DEF least
<1>5. \A u \in Units : Condensed(crates)[u] <= u
  <2> TAKE u \in Units
  <2>1. crateOf[u] <= u /\ crateOf[u] \in Nat /\ u \in Nat
    BY Numbered DEF CoarseInv, Coarsenings
  <2>2. crateOf[u] \in crates => least <= crateOf[u] /\ least \in Nat
    BY <1>1, <1>3
  <2> QED BY <1>4, <2>1, <2>2
<1>6. \A u, v \in Units : line[u].dir = line[v].dir => Condensed(crates)[u] = Condensed(crates)[v]
  BY <1>4 DEF CoarseInv, Coarsenings
<1>7. /\ Condensed(crates) \in [Units -> Units]
      /\ \A u \in Units : Condensed(crates)[Condensed(crates)[u]] = Condensed(crates)[u]
  BY CondensedUnites
<1> QED BY <1>5, <1>6, <1>7 DEF Coarsenings

LEMMA CoarseSteps ==
  ASSUME line \in Lines, line' = line, PartitionInv, CoarseInv,
         PartitionNext \/ UNCHANGED partitionVars
  PROVE  CoarseInv'
<1>1. Coarsenings' = Coarsenings
  BY TextsStay
<1>2. CASE crateOf' = crateOf
  BY <1>1, <1>2 DEF CoarseInv
<1>3. CASE \E c : c \subseteq Crates /\ c # {} /\ crateOf' = Condensed(c)
  BY <1>1, <1>3, CondensedIsCoarse DEF CoarseInv, PartitionInv
<1>4. CondensePair => \E c : c \subseteq Crates /\ c # {} /\ crateOf' = Condensed(c)
  <2> SUFFICES ASSUME CondensePair
               PROVE  \E c : c \subseteq Crates /\ c # {} /\ crateOf' = Condensed(c)
    OBVIOUS
  <2>1. PICK p \in forced : crateOf' = Condensed({crateOf[p[1]], crateOf[p[2]]})
    BY DEF CondensePair, Condense
  <2>2. {crateOf[p[1]], crateOf[p[2]]} \subseteq Crates
    BY UnitedAreCrates
  <2> QED BY <2>1, <2>2
<1>5. CondenseCycle => \E c : c \subseteq Crates /\ c # {} /\ crateOf' = Condensed(c)
  BY UnitedAreCrates DEF CondenseCycle, Condense
<1>6. CondenseIntoBin => \E c : c \subseteq Crates /\ c # {} /\ crateOf' = Condensed(c)
  BY UnitedAreCrates DEF CondenseIntoBin, Condense
<1> QED BY <1>2, <1>3, <1>4, <1>5, <1>6 DEF PartitionNext, EndForced, EndPartition, partitionVars

(* A grouping that would build and keeps together only what all that would  *)
(* build keep together.                                                    *)
Finest(at) ==
  /\ at \in Coarsenings /\ Sound(at)
  /\ \A other \in Coarsenings : Sound(other) =>
       \A u, v \in Units : at[u] = at[v] => other[u] = other[v]

LEMMA PlannedIsFinest ==
  ASSUME line \in Lines, PartitionInv, FinenessInv, CoarseInv, stage = "planned"
  PROVE  Finest(crateOf)
<1>1. /\ CratesOK /\ Cycles = {} /\ BinInbound = {} /\ forced = {}
      /\ \A p \in ForcedPairs \ forced : crateOf[p[1]] = crateOf[p[2]]
  BY DEF PartitionInv
<1>2. Acyclic(Range(crateOf), CrateEdges)
  BY <1>1, NoCyclesIsAcyclic
<1>3. \A e \in CrateEdges, b \in BinUnits : e[2] # crateOf[b]
  BY <1>1 DEF BinInbound
<1>4. Sound(crateOf)
  BY <1>1, <1>2, <1>3 DEF Sound, Buildable, CrateEdges
<1> QED BY <1>4 DEF Finest, CoarseInv, FinenessInv, Contains

(* A root is the least of its group, so groupings that join the same units  *)
(* are the same.                                                           *)
LEMMA OneIsFinest ==
  ASSUME line \in Lines, NEW at, NEW other, Finest(at), Finest(other)
  PROVE  at = other
<1>1. \A u, v \in Units : at[u] = at[v] <=> other[u] = other[v]
  BY DEF Finest
<1>2. ASSUME NEW u \in Units PROVE at[u] = other[u]
  <2>1. /\ at[u] \in Units /\ at[at[u]] = at[u] /\ other[u] \in Units /\ other[other[u]] = other[u]
        /\ Units \subseteq Nat
    BY Numbered DEF Finest, Coarsenings
  <2>2. other[at[u]] = other[u] /\ at[other[u]] = at[u]
    BY <1>1, <2>1
  <2>3. other[u] <= at[u] /\ at[u] <= other[u]
    <3>1. other[at[u]] <= at[u] /\ at[other[u]] <= other[u]
      BY <2>1 DEF Finest, Coarsenings
    <3> QED BY <2>2, <3>1
  <2>4. at[u] \in Nat /\ other[u] \in Nat
    BY <2>1
  <2> QED BY <2>3, <2>4
<1>3. at \in [Units -> Units] /\ other \in [Units -> Units]
  BY DEF Finest, Coarsenings
<1> QED BY <1>2, <1>3

-----------------------------------------------------------------------------
(* The elements the actors share out.                                      *)

(* The names an owner may have.                                            *)
Names == Universe \union ActorName

(* The universe holds the globals, and the stream if anybody prints.        *)
LEMMA Elements ==
  /\ \A x \in Universe :
       \/ x = Stdout /\ \E f \in Defined : Prints(f)
       \/ \E u \in Units, s \in Global : x = Key(u, s)
  /\ \A u \in Units : \A e \in Text(u) : e.to \in Global => Key(u, e.to) \in Universe
  /\ (\E f \in Defined : Prints(f)) => Stdout \in Universe
<1> DEFINE keys(u) == {Key(u, s) : s \in Global \intersect (line[u].defs \union {e.to : e \in Text(u)})}
           printed == IF \E f \in Defined : Prints(f) THEN {Stdout} ELSE {}
<1>1. Universe = (UNION {keys(u) : u \in Units}) \union printed
  BY DEF Universe
<1>2. \A x \in printed : x = Stdout /\ \E f \in Defined : Prints(f)
  OBVIOUS
<1>3. \A u \in Units : \A x \in keys(u) : \E s \in Global : x = Key(u, s)
  OBVIOUS
<1>4. \A u \in Units : \A e \in Text(u) : e.to \in Global => Key(u, e.to) \in keys(u)
  OBVIOUS
<1>5. (\E f \in Defined : Prints(f)) => Stdout \in printed
  OBVIOUS
<1> HIDE DEF keys, printed
<1>6. \A x \in Universe : x \in printed \/ \E u \in Units : x \in keys(u)
  BY <1>1
<1>7. \A u \in Units : keys(u) \subseteq Universe
  BY <1>1
<1>8. printed \subseteq Universe
  BY <1>1
<1>9. \A u \in Units : \A e \in Text(u) : e.to \in Global => Key(u, e.to) \in Universe
  BY <1>4, <1>7
<1>10. \A x \in Universe :
         \/ x = Stdout /\ \E f \in Defined : Prints(f)
         \/ \E u \in Units, s \in Global : x = Key(u, s)
  BY <1>2, <1>3, <1>6
<1>11. (\E f \in Defined : Prints(f)) => Stdout \in Universe
  BY <1>5, <1>8
<1> QED BY <1>9, <1>10, <1>11

(* No name is an element, and all have their place in the order.           *)
LEMMA ElementsAndNames ==
  ASSUME line \in Lines
  PROVE  /\ Universe \intersect ActorName = {}
         /\ \A n \in Names : Rank[n] \in Nat
<1>1. ASSUME NEW x \in Universe, x # Stdout
      PROVE  \E u \in DOMAIN line, s \in Global : x = IF s \in Static THEN <<u, s>> ELSE <<0, s>>
  BY <1>1, Elements DEF Key, Units
<1>2. \A s \in Global, u \in DOMAIN line :
        <<0, s>> \notin ActorName /\ <<u, s>> \notin ActorName
        /\ Rank[IF s \in Static THEN <<u, s>> ELSE <<0, s>>] \in Nat
  BY NameAssumption, RankAssumption DEF Symbol
<1>3. Stdout \notin ActorName /\ \A n \in ActorName \union {Stdout} : Rank[n] \in Nat
  BY NameAssumption, RankAssumption
<1>4. \A x \in Universe : x \notin ActorName /\ Rank[x] \in Nat
  BY <1>1, <1>2, <1>3
<1> QED BY <1>3, <1>4 DEF Names

(* The globals a function touches are in the universe.                     *)
LEMMA TouchedElements ==
  ASSUME NEW f, line \in Lines
  PROVE  Touches(f) \ {Stdout} \subseteq Universe
<1>1. ASSUME NEW kinds, kinds \subseteq DataKinds, NEW x \in From(Linked(kinds), f)
      PROVE  x \in Universe
  <2>1. PICK d \in Linked(kinds) : d[1] = f /\ d[2] = x
    BY DEF From
  <2>2. PICK u \in Units : \E e \in Resolved(u) : e.kind \in kinds /\ d = <<Key(u, e.from), Key(u, e.to)>>
    BY DEF Linked
  <2>3. PICK e \in Resolved(u) : e.kind \in kinds /\ d = <<Key(u, e.from), Key(u, e.to)>>
    BY <2>2
  <2>4. e \in Text(u) /\ e.kind \in DataKinds
    BY <1>1, <2>3 DEF Resolved
  <2>5. e.to \in Global
    BY <2>4, DataEdges
  <2>6. x = Key(u, e.to)
    BY <2>1, <2>3
  <2> QED BY <2>4, <2>5, <2>6, Elements
<1>2. From(Linked({"ReadsGlobal"}), f) \subseteq Universe
  BY <1>1 DEF DataKinds
<1>3. From(Linked({"WritesGlobal", "AddressOfGlobal"}), f) \subseteq Universe
  BY <1>1 DEF DataKinds
<1> QED BY <1>2, <1>3 DEF Touches, Writes

LEMMA ActorTextsStay ==
  ASSUME line' = line
  PROVE  /\ Universe' = Universe /\ Defined' = Defined /\ Pairs' = Pairs /\ Indirect' = Indirect
         /\ \A kinds : Linked(kinds)' = Linked(kinds)
         /\ \A f : Prints(f)' = Prints(f) /\ Touches(f)' = Touches(f) /\ Writes(f)' = Writes(f)
         /\ \A calls : ClosureOf(calls)' = ClosureOf(calls) /\ Components(calls)' = Components(calls)
         /\ MayRun' = MayRun /\ \A run : MayStore(run)' = MayStore(run)
<1>1. Units' = Units /\ \A u \in Units : Text(u)' = Text(u) /\ Resolved(u)' = Resolved(u)
  BY TextsStay
<1>2. \A kinds : Linked(kinds)' = Linked(kinds)
  BY <1>1 DEF Linked
<1>3. Defined' = Defined
  BY <1>1 DEF Defined
<1>4. \A f : Prints(f)' = Prints(f)
  BY <1>2, <1>3 DEF Prints
<1>5. \A f : Writes(f)' = Writes(f)
  BY <1>2, <1>4 DEF Writes
<1>6. \A f : Touches(f)' = Touches(f)
  BY <1>2, <1>5 DEF Touches
<1>7. Indirect' = Indirect
  BY <1>1 DEF Indirect
<1>8. Pairs' = Pairs
  BY <1>2 DEF Pairs
<1>9. Universe' = Universe
  BY <1>1, <1>3, <1>4 DEF Universe
<1>10. \A calls : ClosureOf(calls)' = ClosureOf(calls) /\ Components(calls)' = Components(calls)
  BY <1>3 DEF ClosureOf, Components
<1>11. MayRun' = MayRun
  BY <1>2, <1>7, <1>10 DEF MayRun
<1>12. \A run : MayStore(run)' = MayStore(run)
  BY <1>2, <1>4 DEF MayStore
<1> QED BY <1>2, <1>3, <1>4, <1>5, <1>6, <1>7, <1>8, <1>9, <1>10, <1>11, <1>12

(* Every defined function runs itself and whatever a member of its closure *)
(* calls, and no more than any closed set that holds it.                   *)
LEMMA ClosureIsLeast ==
  ASSUME NEW calls, NEW f \in Defined
  PROVE  /\ f \in ClosureOf(calls)[f]
         /\ \A c \in calls : c[1] \in ClosureOf(calls)[f] => c[2] \in ClosureOf(calls)[f]
         /\ ClosureOf(calls)[f] \subseteq Defined \union {c[2] : c \in calls}
         /\ \A S \in SUBSET (Defined \union {c[2] : c \in calls}) :
              f \in S /\ (\A c \in calls : c[1] \in S => c[2] \in S) => ClosureOf(calls)[f] \subseteq S
<1> DEFINE all == Defined \union {c[2] : c \in calls}
           closed == {S \in SUBSET all : \A c \in calls : c[1] \in S => c[2] \in S}
<1>1. ClosureOf(calls)[f] = {g \in all : \A S \in closed : f \in S => g \in S}
  BY DEF ClosureOf
<1>2. \A c \in calls : c[2] \in all
  OBVIOUS
<1>3. f \in all
  OBVIOUS
<1>4. ASSUME NEW c \in calls, c[1] \in ClosureOf(calls)[f] PROVE c[2] \in ClosureOf(calls)[f]
  <2>1. \A S \in closed : f \in S => c[2] \in S
    BY <1>1, <1>4
  <2> QED BY <1>1, <1>2, <2>1
<1> QED BY <1>1, <1>3, <1>4

-----------------------------------------------------------------------------
(* Merging owners.                                                         *)

Together(elements) == \A x, y \in elements \intersect DOMAIN owner : owner[x] = owner[y]

(* No actor has elements on both sides of the set.                         *)
Respects(S) == \A x, y \in DOMAIN owner : owner[x] = owner[y] => (x \in S <=> y \in S)

LEMMA SmallestIsOne ==
  ASSUME NEW S, S # {}, \A n \in S : Rank[n] \in Nat
  PROVE  Smallest(S) \in S
<1> DEFINE ranks == {Rank[n] : n \in S}
<1>1. PICK r \in ranks : \A q \in ranks : r <= q
  <2>1. ranks \subseteq Nat /\ ranks # {}
    OBVIOUS
  <2> QED BY <2>1, LeastNatural
<1>2. \E n \in S : \A m \in S : Rank[n] <= Rank[m]
  BY <1>1
<1> QED BY <1>2 DEF Smallest

LEMMA MergedOwners ==
  ASSUME line \in Lines, \A x \in DOMAIN owner : owner[x] \in Names, NEW E, owner' = Merged(E)
  PROVE  /\ DOMAIN owner' = DOMAIN owner
         /\ \A x \in DOMAIN owner : \E y \in DOMAIN owner : owner'[x] = owner[y]
         /\ \A x, y \in DOMAIN owner : owner[x] = owner[y] => owner'[x] = owner'[y]
         /\ \A x, y \in E \intersect DOMAIN owner : owner'[x] = owner'[y]
         /\ \A x \in DOMAIN owner :
              \/ owner'[x] = owner[x]
              \/ \E y, z \in E \intersect DOMAIN owner : owner[x] = owner[y] /\ owner'[x] = owner[z]
<1> DEFINE O == OwnersOf(E)
           s == Smallest(O)
<1>1. O = {owner[x] : x \in E \intersect DOMAIN owner}
  BY DEF OwnersOf
<1>2. owner' = [x \in DOMAIN owner |-> IF owner[x] \in O THEN s ELSE owner[x]]
  BY DEF Merged
<1>3. O # {} => s \in O
  <2>1. \A n \in O : Rank[n] \in Nat
    BY <1>1, ElementsAndNames
  <2> HIDE DEF O
  <2> QED BY <2>1, SmallestIsOne
<1> HIDE DEF O, s
<1>4. \A x \in DOMAIN owner : owner'[x] = IF owner[x] \in O THEN s ELSE owner[x]
  BY <1>2
<1>5. DOMAIN owner' = DOMAIN owner
  BY <1>2
<1>6. \A x \in DOMAIN owner :
        \/ owner'[x] = owner[x]
        \/ \E y, z \in E \intersect DOMAIN owner : owner[x] = owner[y] /\ owner'[x] = owner[z]
  <2> SUFFICES ASSUME NEW x \in DOMAIN owner, owner[x] \in O
               PROVE  \E y, z \in E \intersect DOMAIN owner : owner[x] = owner[y] /\ owner'[x] = owner[z]
    BY <1>4
  <2>1. PICK y \in E \intersect DOMAIN owner : owner[x] = owner[y]
    BY <1>1
  <2>2. PICK z \in E \intersect DOMAIN owner : s = owner[z]
    BY <1>1, <1>3
  <2> QED BY <1>4, <2>1, <2>2
<1>7. \A x, y \in E \intersect DOMAIN owner : owner'[x] = owner'[y]
  BY <1>1, <1>4
<1>8. \A x \in DOMAIN owner : \E y \in DOMAIN owner : owner'[x] = owner[y]
  BY <1>6
<1> QED BY <1>4, <1>5, <1>6, <1>7, <1>8

LEMMA MergedKeepsTogether ==
  ASSUME line \in Lines, \A x \in DOMAIN owner : owner[x] \in Names, NEW E, owner' = Merged(E)
  PROVE  /\ \A elements : Together(elements) => Together(elements)'
         /\ Together(E)'
BY MergedOwners DEF Together

LEMMA MergedRespects ==
  ASSUME line \in Lines, \A x \in DOMAIN owner : owner[x] \in Names, NEW E, owner' = Merged(E),
         NEW S, Respects(S),
         \/ \A x \in E \intersect DOMAIN owner : x \in S
         \/ \A x \in E \intersect DOMAIN owner : x \notin S
  PROVE  Respects(S)'
<1> SUFFICES ASSUME NEW x \in DOMAIN owner, NEW y \in DOMAIN owner, owner'[x] = owner'[y]
             PROVE  x \in S <=> y \in S
  BY MergedOwners DEF Respects
<1>1. /\ \/ owner'[x] = owner[x]
         \/ \E v, w \in E \intersect DOMAIN owner : owner[x] = owner[v] /\ owner'[x] = owner[w]
      /\ \/ owner'[y] = owner[y]
         \/ \E v, w \in E \intersect DOMAIN owner : owner[y] = owner[v] /\ owner'[y] = owner[w]
  BY MergedOwners
<1> QED BY <1>1 DEF Respects

(* Elements that are together have one owner, or none.                     *)
LEMMA TogetherIsOneOwner ==
  ASSUME NEW elements, Together(elements)
  PROVE  OneOwner(elements)
<1>1. OwnersOf(elements) = {} \/ \E a : OwnersOf(elements) = {a}
  BY DEF OwnersOf, Together
<1>2. Cardinality({}) = 0 /\ \A a : Cardinality({a}) = 1
  BY FS_EmptySet, FS_Singleton
<1>3. Cardinality(OwnersOf(elements)) \in {0, 1}
  BY <1>1, <1>2
<1>4. \A n \in {0, 1} : n <= 1
  OBVIOUS
<1> QED BY <1>3, <1>4 DEF OneOwner

LEMMA FewerAreTogether ==
  ASSUME NEW elements, NEW more, elements \intersect DOMAIN owner \subseteq more, Together(more)
  PROVE  Together(elements)
BY DEF Together

-----------------------------------------------------------------------------
(* The rules, one after the other.                                         *)

Late == {"cycle", "writer", "planned", "certified"}

ActorShape ==
  /\ pins \in Pins
  /\ rule \in {"cluster", "pointer"} \union Late
  /\ DOMAIN owner = IF rule = "cluster" THEN Universe \ DOMAIN pins ELSE Universe
  /\ \A x \in DOMAIN owner : owner[x] \in IF rule = "cluster" THEN Universe ELSE Names
  /\ rule \in Late => closure = ClosureOf(Linked({"Calls"}))

CycleFootprint(c) == UNION {Footprint(f) : f \in c}

(* What is left to visit is of the rule.                                   *)
RestOK ==
  /\ rule = "cluster" => rest \subseteq {Touches(f) : f \in Defined \ {MainKey}} \union Pairs
  /\ rule = "pointer" => rest \subseteq Pairs
  /\ rule = "cycle" => rest \subseteq Components(closure)
  /\ rule = "writer" => rest \subseteq Defined \ {MainKey}

(* What a rule has visited is together, and stays so.                      *)
DoneOK ==
  /\ rule # "cluster" =>
       \A p \in Pairs : (rule = "pointer" /\ p \in rest) \/ Together(p)
  /\ rule \in Late =>
       \A c \in Components(closure) : (rule = "cycle" /\ c \in rest) \/ Together(CycleFootprint(c))
  /\ rule \in Late \ {"cycle"} =>
       \A f \in Defined \ {MainKey} : (rule = "writer" /\ f \in rest) \/ Together(WriteFootprint(f))

ActorInv == ActorShape /\ RestOK /\ DoneOK

LEMMA OwnersAreNames ==
  ASSUME ActorShape
  PROVE  \A x \in DOMAIN owner : owner[x] \in Names
BY DEF ActorShape, Names

LEMMA ActorStarts ==
  ASSUME line \in Lines, ActorInit
  PROVE  ActorInv
BY DEF ActorInit, ActorInv, ActorShape, RestOK, DoneOK, Late

(* A visit merges the elements that belong to what it looks at.            *)
LEMMA VisitsMerge ==
  ASSUME line \in Lines, line' = line, ActorInv, NEW from, NEW x, Visit(from, x), pins' = pins,
         closure' = closure, NEW E, owner' = Merged(E)
  PROVE  /\ ActorShape' /\ RestOK'
         /\ \A elements : Together(elements) => Together(elements)'
         /\ Together(E)'
<1>1. rule' = rule /\ rest' \subseteq rest
  BY DEF Visit
<1>2. /\ DOMAIN owner' = DOMAIN owner
      /\ \A y \in DOMAIN owner : \E z \in DOMAIN owner : owner'[y] = owner[z]
  BY OwnersAreNames, MergedOwners DEF ActorInv
<1>3. (\A elements : Together(elements) => Together(elements)') /\ Together(E)'
  BY OwnersAreNames, MergedKeepsTogether DEF ActorInv
<1>4. ActorShape'
  BY <1>1, <1>2, ActorTextsStay DEF ActorInv, ActorShape, Names
<1>5. RestOK'
  BY <1>1, ActorTextsStay DEF ActorInv, RestOK
<1> QED BY <1>3, <1>4, <1>5

(* The footprints move with the closure only.                              *)
LEMMA FootprintsStay ==
  ASSUME line' = line, closure' = closure
  PROVE  /\ \A f : IsPoisoned(f)' = IsPoisoned(f) /\ Footprint(f)' = Footprint(f)
                   /\ WriteFootprint(f)' = WriteFootprint(f)
         /\ \A c : CycleFootprint(c)' = CycleFootprint(c)
         /\ Components(closure)' = Components(closure)
<1>1. \A f : IsPoisoned(f)' = IsPoisoned(f)
  BY ActorTextsStay DEF IsPoisoned
<1>2. \A f : Footprint(f)' = Footprint(f)
  BY <1>1, ActorTextsStay DEF Footprint
<1>3. \A f : WriteFootprint(f)' = WriteFootprint(f)
  BY <1>1, ActorTextsStay DEF WriteFootprint
<1>4. \A c : CycleFootprint(c)' = CycleFootprint(c)
  BY <1>2 DEF CycleFootprint
<1>5. Components(closure)' = Components(closure)
  BY ActorTextsStay DEF Components
<1> QED BY <1>1, <1>2, <1>3, <1>4, <1>5

(* Once the writers are done, the rules hold whatever becomes of the plan. *)
LEMMA PlanRests ==
  ASSUME line' = line, ActorInv, UNCHANGED <<pins, owner, closure>>,
         \/ rule' = rule /\ rest' = rest
         \/ /\ rule \in {"writer", "planned"} /\ rule' \in {"planned", "certified"}
            /\ rule = "writer" => rest = {}
  PROVE  ActorInv'
<1>1. Pairs' = Pairs /\ Defined' = Defined /\ Universe' = Universe
  BY ActorTextsStay
<1>2. closure' = closure /\ owner' = owner /\ pins' = pins
  OBVIOUS
<1>3. \A elements : Together(elements) => Together(elements)'
  BY <1>2 DEF Together
<1>4. ASSUME NEW d, Together(CycleFootprint(d)) PROVE Together(CycleFootprint(d))'
  <2>1. CycleFootprint(d)' = CycleFootprint(d)
    BY <1>2, FootprintsStay
  <2> QED BY <1>2, <1>4, <2>1 DEF Together
<1>5. ASSUME NEW f, Together(WriteFootprint(f)) PROVE Together(WriteFootprint(f))'
  <2>1. WriteFootprint(f)' = WriteFootprint(f)
    BY <1>2, FootprintsStay
  <2> QED BY <1>2, <1>5, <2>1 DEF Together
<1>6. ActorShape'
  BY <1>1, <1>2, ActorTextsStay DEF ActorInv, ActorShape, Names, Late
<1>7. RestOK'
  BY <1>1, <1>2, FootprintsStay, ActorTextsStay DEF ActorInv, RestOK, MainKey
<1>8. DoneOK'
  BY <1>1, <1>2, <1>3, <1>4, <1>5, FootprintsStay DEF ActorInv, DoneOK, Late, MainKey
<1> QED BY <1>6, <1>7, <1>8 DEF ActorInv

(* Every rule leaves what it visits together.                              *)
LEMMA ActorSteps ==
  ASSUME line \in Lines, line' = line, ActorInv, ActorNext
  PROVE  ActorInv'
<1>1. Pairs' = Pairs /\ Defined' = Defined /\ Universe' = Universe
  BY ActorTextsStay
<1>2. CASE Cluster
  <2>1. PICK x \in rest : Visit("cluster", x) /\ owner' = Merged(x)
    BY <1>2 DEF Cluster
  <2>2. pins' = pins /\ closure' = closure /\ rule' = "cluster"
    BY <1>2, <2>1 DEF Cluster, Visit
  <2>3. ActorShape' /\ RestOK'
    BY <2>1, <2>2, VisitsMerge
  <2>4. DoneOK'
    BY <2>2 DEF DoneOK, Late
  <2> QED BY <2>3, <2>4 DEF ActorInv
<1>3. CASE Pin
  <2>1. /\ rule = "cluster" /\ rule' = "pointer" /\ rest' = Pairs /\ pins' = pins
        /\ owner' = [x \in Universe |-> IF x \in DOMAIN pins THEN pins[x] ELSE owner[x]]
    BY <1>3 DEF Pin, Turn
  <2>2. \A x \in DOMAIN pins : pins[x] \in ActorName
    BY NameAssumption DEF ActorInv, ActorShape, Range
  <2>3. \A x \in Universe \ DOMAIN pins : owner[x] \in Universe
    BY <2>1 DEF ActorInv, ActorShape
  <2>4. \A x \in Universe : owner'[x] \in Universe \union ActorName
    BY <2>1, <2>2, <2>3
  <2>5. ActorShape'
    BY <1>1, <2>1, <2>4 DEF ActorInv, ActorShape, Names, Late
  <2>6. RestOK' /\ DoneOK'
    BY <1>1, <2>1 DEF RestOK, DoneOK, Late
  <2> QED BY <2>5, <2>6 DEF ActorInv
<1>4. CASE MergePair
  <2>1. PICK x \in rest : Visit("pointer", x) /\ owner' = Merged(x)
    BY <1>4 DEF MergePair
  <2>2. pins' = pins /\ closure' = closure /\ rule' = "pointer" /\ rule = "pointer" /\ rest' = rest \ {x}
    BY <1>4, <2>1 DEF MergePair, Visit
  <2>3. /\ ActorShape' /\ RestOK' /\ Together(x)'
        /\ \A elements : Together(elements) => Together(elements)'
    BY <2>1, <2>2, VisitsMerge
  <2>4. \A p \in Pairs : p \in rest' \/ Together(p)'
    BY <2>2, <2>3 DEF ActorInv, DoneOK
  <2>5. DoneOK'
    BY <1>1, <2>2, <2>4 DEF DoneOK, Late
  <2> QED BY <2>3, <2>5 DEF ActorInv
<1>5. CASE TurnToCycles
  <2>1. /\ closure' = ClosureOf(Linked({"Calls"})) /\ rule = "pointer" /\ rest = {}
        /\ rule' = "cycle" /\ rest' = Components(closure') /\ pins' = pins /\ owner' = owner
    BY <1>5 DEF TurnToCycles, Turn
  <2>2. ActorShape'
    BY <1>1, <2>1, ActorTextsStay DEF ActorInv, ActorShape, Names, Late
  <2>3. RestOK'
    BY <1>1, <2>1 DEF RestOK, Components
  <2>4. \A p \in Pairs : Together(p)'
    BY <2>1 DEF ActorInv, DoneOK, Together
  <2>5. Components(closure)' = rest'
    BY <1>1, <2>1 DEF Components
  <2>6. DoneOK'
    BY <1>1, <2>1, <2>4, <2>5 DEF DoneOK, Late
  <2> QED BY <2>2, <2>3, <2>6 DEF ActorInv
<1>6. CASE MergeCycle
  <2>1. PICK c \in rest : Visit("cycle", c) /\ owner' = Merged(CycleFootprint(c))
    BY <1>6 DEF MergeCycle, CycleFootprint
  <2>2. pins' = pins /\ closure' = closure /\ rule' = "cycle" /\ rule = "cycle" /\ rest' = rest \ {c}
    BY <1>6, <2>1 DEF MergeCycle, Visit
  <2>3. PICK E : E = CycleFootprint(c)
    OBVIOUS
  <2>4. /\ ActorShape' /\ RestOK' /\ Together(E)'
        /\ \A elements : Together(elements) => Together(elements)'
    BY <2>1, <2>2, <2>3, VisitsMerge
  <2>5. \A p \in Pairs : Together(p)'
    BY <2>2, <2>4 DEF ActorInv, DoneOK
  <2>6. ASSUME NEW d \in Components(closure), d \notin rest' PROVE Together(CycleFootprint(d))'
    <3>1. PICK D : D = CycleFootprint(d)
      OBVIOUS
    <3>2. CycleFootprint(d)' = D
      BY <2>2, <3>1, FootprintsStay
    <3>3. Together(D)'
      <4>1. CASE d = c
        BY <2>3, <2>4, <3>1, <4>1
      <4>2. CASE d # c
        <5>1. Together(CycleFootprint(d))
          BY <2>2, <2>6, <4>2 DEF ActorInv, DoneOK, Late
        <5> QED BY <2>4, <3>1, <5>1
      <4> QED BY <4>1, <4>2
    <3> QED BY <3>2, <3>3 DEF Together
  <2>7. DoneOK'
    BY <1>1, <2>2, <2>5, <2>6, FootprintsStay DEF DoneOK, Late
  <2> QED BY <2>4, <2>7 DEF ActorInv
<1>7. CASE TurnToWriters
  <2>1. /\ closure' = closure /\ rule = "cycle" /\ rest = {} /\ rule' = "writer"
        /\ rest' = Defined \ {MainKey} /\ pins' = pins /\ owner' = owner
    BY <1>7 DEF TurnToWriters, Turn
  <2>2. ActorShape'
    BY <1>1, <2>1, ActorTextsStay DEF ActorInv, ActorShape, Names, Late
  <2>3. RestOK'
    BY <1>1, <2>1 DEF RestOK, MainKey
  <2>4. \A elements : Together(elements) => Together(elements)'
    BY <2>1 DEF Together
  <2>5. \A p \in Pairs : Together(p)'
    BY <2>1, <2>4 DEF ActorInv, DoneOK
  <2>6. ASSUME NEW d \in Components(closure) PROVE Together(CycleFootprint(d))'
    <3>1. Together(CycleFootprint(d))
      BY <2>1 DEF ActorInv, DoneOK, Late
    <3>2. CycleFootprint(d)' = CycleFootprint(d)
      BY <2>1, FootprintsStay
    <3> QED BY <2>1, <3>1, <3>2 DEF Together
  <2>7. DoneOK'
    BY <1>1, <2>1, <2>5, <2>6, FootprintsStay DEF DoneOK, Late, MainKey
  <2> QED BY <2>2, <2>3, <2>7 DEF ActorInv
<1>8. CASE MergeWritten
  <2>1. PICK f \in rest : Visit("writer", f) /\ owner' = Merged(WriteFootprint(f))
    BY <1>8 DEF MergeWritten
  <2>2. pins' = pins /\ closure' = closure /\ rule' = "writer" /\ rule = "writer" /\ rest' = rest \ {f}
    BY <1>8, <2>1 DEF MergeWritten, Visit
  <2>3. PICK E : E = WriteFootprint(f)
    OBVIOUS
  <2>4. /\ ActorShape' /\ RestOK' /\ Together(E)'
        /\ \A elements : Together(elements) => Together(elements)'
    BY <2>1, <2>2, <2>3, VisitsMerge
  <2>5. \A p \in Pairs : Together(p)'
    BY <2>2, <2>4 DEF ActorInv, DoneOK
  <2>6. ASSUME NEW d \in Components(closure) PROVE Together(CycleFootprint(d))'
    <3>1. PICK D : D = CycleFootprint(d)
      OBVIOUS
    <3>2. Together(D)
      BY <2>2, <3>1 DEF ActorInv, DoneOK, Late
    <3>3. CycleFootprint(d)' = D /\ Together(D)'
      BY <2>2, <2>4, <3>1, <3>2, FootprintsStay
    <3> QED BY <3>3 DEF Together
  <2>7. ASSUME NEW g \in Defined \ {MainKey}, g \notin rest' PROVE Together(WriteFootprint(g))'
    <3>1. PICK D : D = WriteFootprint(g)
      OBVIOUS
    <3>2. WriteFootprint(g)' = D
      BY <2>2, <3>1, FootprintsStay
    <3>3. Together(D)'
      <4>1. CASE g = f
        BY <2>3, <2>4, <3>1, <4>1
      <4>2. CASE g # f
        <5>1. Together(WriteFootprint(g))
          BY <2>2, <2>7, <4>2 DEF ActorInv, DoneOK, Late
        <5> QED BY <2>4, <3>1, <5>1
      <4> QED BY <4>1, <4>2
    <3> QED BY <3>2, <3>3 DEF Together
  <2>8. DoneOK'
    BY <1>1, <2>2, <2>5, <2>6, <2>7, FootprintsStay DEF DoneOK, Late, MainKey
  <2> QED BY <2>4, <2>8 DEF ActorInv
<1>9. CASE EndPlan
  <2>1. rule = "writer" /\ rest = {} /\ rule' = "planned" /\ UNCHANGED <<pins, owner, closure>>
    BY <1>9 DEF EndPlan, Turn
  <2> QED BY <2>1, PlanRests
<1> QED BY <1>2, <1>3, <1>4, <1>5, <1>6, <1>7, <1>8, <1>9 DEF ActorNext

-----------------------------------------------------------------------------
(* No rule merges more than its tie.                                       *)

EarlyTies ==
  {Touches(f) \ DOMAIN pins : f \in Defined \ {MainKey}}
    \union {{x \in DOMAIN pins \intersect Universe : pins[x] = a} : a \in ActorName}
    \union Pairs

Untorn(ties, S) == \A t \in ties : t \subseteq S \/ t \intersect S = {}

(* Until the closures are known only the early ties have been used.        *)
AgreeInv ==
  \A S \in SUBSET Universe :
    Untorn(IF rule \in Late THEN Ties ELSE EarlyTies, S) => Respects(S)

LEMMA TiesGrow ==
  EarlyTies \subseteq Ties
BY DEF EarlyTies, Ties

LEMMA TiesStay ==
  ASSUME line' = line, pins' = pins
  PROVE  EarlyTies' = EarlyTies /\ (closure' = closure => Ties' = Ties)
<1>1. EarlyTies' = EarlyTies
  BY ActorTextsStay DEF EarlyTies, MainKey
<1>2. closure' = closure => Ties' = Ties
  BY ActorTextsStay, FootprintsStay DEF Ties, MainKey
<1> QED BY <1>1, <1>2

LEMMA AgreementStarts ==
  ASSUME line \in Lines, ActorInit
  PROVE  AgreeInv
BY DEF ActorInit, AgreeInv, Respects

LEMMA AgreementSteps ==
  ASSUME line \in Lines, line' = line, ActorInv, AgreeInv, ActorNext
  PROVE  AgreeInv'
<1>1. Universe' = Universe /\ pins' = pins
  BY ActorTextsStay DEF ActorNext, Cluster, Pin, MergePair, TurnToCycles, MergeCycle, TurnToWriters,
                        MergeWritten, EndPlan
<1>2. \A x \in DOMAIN owner : owner[x] \in Names
  BY OwnersAreNames DEF ActorInv
<1> SUFFICES ASSUME NEW S \in SUBSET Universe,
                    Untorn(IF rule \in Late THEN Ties ELSE EarlyTies, S)'
             PROVE  Respects(S)'
  BY <1>1 DEF AgreeInv, Untorn
<1>3. EarlyTies' = EarlyTies
  BY <1>1, TiesStay
<1>4. Untorn(EarlyTies, S)
  <2>1. (EarlyTies \subseteq Ties)'
    BY TiesGrow, PTL
  <2> QED BY <1>3, <2>1 DEF Untorn
<1>5. ASSUME NEW E, owner' = Merged(E), Respects(S),
             \/ \A x \in E \intersect DOMAIN owner : x \in S
             \/ \A x \in E \intersect DOMAIN owner : x \notin S
      PROVE  Respects(S)'
  BY <1>2, <1>5, MergedRespects
<1>6. CASE Cluster
  <2>1. PICK x \in rest : Visit("cluster", x) /\ owner' = Merged(x)
    BY <1>6 DEF Cluster
  <2>2. rule = "cluster" /\ x \in {Touches(f) : f \in Defined \ {MainKey}} \union Pairs
    BY <2>1 DEF Visit, ActorInv, RestOK
  <2>3. Respects(S)
    BY <1>4, <2>2 DEF AgreeInv, Late
  <2>4. DOMAIN owner = Universe \ DOMAIN pins
    BY <2>2 DEF ActorInv, ActorShape
  <2>5. x \ DOMAIN pins \subseteq S \/ (x \ DOMAIN pins) \intersect S = {}
    <3>1. CASE x \in Pairs
      BY <1>4, <3>1 DEF Untorn, EarlyTies
    <3>2. CASE x \in {Touches(f) : f \in Defined \ {MainKey}}
      BY <1>4, <3>2 DEF Untorn, EarlyTies
    <3> QED BY <2>2, <3>1, <3>2
  <2> QED BY <1>5, <2>1, <2>3, <2>4, <2>5
<1>7. CASE Pin
  <2>1. /\ rule = "cluster"
        /\ owner' = [x \in Universe |-> IF x \in DOMAIN pins THEN pins[x] ELSE owner[x]]
    BY <1>7 DEF Pin, Turn
  <2>2. Respects(S)
    BY <1>4, <2>1 DEF AgreeInv, Late
  <2>3. DOMAIN owner = Universe \ DOMAIN pins /\ \A x \in DOMAIN owner : owner[x] \in Universe
    BY <2>1 DEF ActorInv, ActorShape
  <2>4. \A x \in DOMAIN pins : pins[x] \in ActorName
    BY NameAssumption DEF ActorInv, ActorShape, Range
  <2>5. Universe \intersect ActorName = {}
    BY ElementsAndNames
  <2> SUFFICES ASSUME NEW x \in Universe, NEW y \in Universe, owner'[x] = owner'[y]
               PROVE  x \in S <=> y \in S
    BY <2>1 DEF Respects
  <2>6. CASE x \in DOMAIN pins /\ y \in DOMAIN pins
    <3> DEFINE tie == {z \in DOMAIN pins \intersect Universe : pins[z] = pins[x]}
    <3>1. pins[x] = pins[y] /\ pins[x] \in ActorName
      BY <2>1, <2>4, <2>6
    <3>2. tie \in EarlyTies
      BY <3>1 DEF EarlyTies
    <3>3. x \in tie /\ y \in tie
      BY <2>6, <3>1
    <3> QED BY <1>4, <3>2, <3>3 DEF Untorn
  <2>7. CASE x \notin DOMAIN pins /\ y \notin DOMAIN pins
    BY <2>1, <2>2, <2>3, <2>7 DEF Respects
  <2>8. CASE ~(x \in DOMAIN pins <=> y \in DOMAIN pins)
    BY <2>1, <2>3, <2>4, <2>5, <2>8
  <2> QED BY <2>6, <2>7, <2>8
<1>8. CASE MergePair
  <2>1. PICK x \in rest : Visit("pointer", x) /\ owner' = Merged(x)
    BY <1>8 DEF MergePair
  <2>2. rule = "pointer" /\ x \in Pairs
    BY <2>1 DEF Visit, ActorInv, RestOK
  <2>3. Respects(S)
    BY <1>4, <2>2 DEF AgreeInv, Late
  <2>4. x \subseteq S \/ x \intersect S = {}
    BY <1>4, <2>2 DEF Untorn, EarlyTies
  <2> QED BY <1>5, <2>1, <2>3, <2>4
<1>9. CASE TurnToCycles
  <2>1. rule = "pointer" /\ owner' = owner
    BY <1>9 DEF TurnToCycles, Turn
  <2>2. Respects(S)
    BY <1>4, <2>1 DEF AgreeInv, Late
  <2> QED BY <2>1, <2>2 DEF Respects
<1>10. ASSUME rule \in Late, rule' \in Late, closure' = closure
       PROVE  Untorn(Ties, S) /\ Respects(S)
  <2>1. Ties' = Ties
    BY <1>1, <1>10, TiesStay
  <2>2. Untorn(Ties, S)
    BY <1>10, <2>1 DEF Untorn
  <2> QED BY <1>10, <2>2 DEF AgreeInv
<1>11. CASE MergeCycle
  <2>1. PICK c \in rest : Visit("cycle", c) /\ owner' = Merged(UNION {Footprint(f) : f \in c})
    BY <1>11 DEF MergeCycle
  <2>2. rule = "cycle" /\ rule' = "cycle" /\ closure' = closure /\ c \in Components(closure)
    BY <1>11, <2>1 DEF MergeCycle, Visit, ActorInv, RestOK
  <2> DEFINE E == UNION {Footprint(f) : f \in c}
  <2>3. Untorn(Ties, S) /\ Respects(S)
    BY <1>10, <2>2 DEF Late
  <2>4. E \in Ties
    BY <2>2 DEF Ties
  <2> HIDE DEF E
  <2>5. E \subseteq S \/ E \intersect S = {}
    BY <2>3, <2>4 DEF Untorn
  <2>6. owner' = Merged(E)
    BY <2>1 DEF E
  <2>7. PICK F : F = E
    OBVIOUS
  <2> QED BY <1>5, <2>3, <2>5, <2>6, <2>7
<1>12. CASE MergeWritten
  <2>1. PICK f \in rest : Visit("writer", f) /\ owner' = Merged(WriteFootprint(f))
    BY <1>12 DEF MergeWritten
  <2>2. rule = "writer" /\ rule' = "writer" /\ closure' = closure /\ f \in Defined \ {MainKey}
    BY <1>12, <2>1 DEF MergeWritten, Visit, ActorInv, RestOK
  <2>3. Untorn(Ties, S) /\ Respects(S)
    BY <1>10, <2>2 DEF Late
  <2>4. PICK E : E = WriteFootprint(f)
    OBVIOUS
  <2>5. E \in Ties
    BY <2>2, <2>4 DEF Ties
  <2>6. E \subseteq S \/ E \intersect S = {}
    BY <2>3, <2>5 DEF Untorn
  <2> QED BY <1>5, <2>1, <2>3, <2>4, <2>6
<1>13. CASE TurnToWriters \/ EndPlan
  <2>1. rule \in Late /\ rule' \in Late /\ closure' = closure /\ owner' = owner
    BY <1>13 DEF TurnToWriters, EndPlan, Turn, Late
  <2> QED BY <1>10, <2>1 DEF Respects
<1> QED BY <1>6, <1>7, <1>8, <1>9, <1>11, <1>12, <1>13 DEF ActorNext

LEMMA AgreementRests ==
  ASSUME line' = line, AgreeInv, UNCHANGED <<pins, owner, closure>>, rule' \in Late <=> rule \in Late
  PROVE  AgreeInv'
<1>1. Universe' = Universe /\ EarlyTies' = EarlyTies /\ Ties' = Ties
  BY ActorTextsStay, TiesStay
<1> QED BY <1>1 DEF AgreeInv, Untorn, Respects

-----------------------------------------------------------------------------
(* What the finished plan promises.                                        *)

LEMMA PlanMergesNoMore ==
  ASSUME ActorInv, AgreeInv
  PROVE  MergesNoMore
<1> SUFFICES ASSUME rule = "planned", NEW S \in SUBSET Universe,
                    \A t \in Ties : t \subseteq S \/ t \intersect S = {},
                    NEW x \in Universe, NEW y \in Universe, owner[x] = owner[y]
             PROVE  x \in S <=> y \in S
  BY DEF MergesNoMore
<1>1. Respects(S)
  BY DEF AgreeInv, Untorn, Late
<1>2. DOMAIN owner = Universe
  BY DEF ActorInv, ActorShape
<1> QED BY <1>1, <1>2 DEF Respects

(* What the first two rules tie: a function's globals, and what one pin     *)
(* holds; like the rest it stays together.                                 *)
Seeds == {Touches(f) : f \in Defined \ {MainKey}}

Tied ==
  {Touches(f) \ DOMAIN pins : f \in Defined \ {MainKey}}
    \union {{x \in DOMAIN pins \intersect Universe : pins[x] = a} : a \in ActorName}

SeededInv ==
  IF rule = "cluster" THEN \A x \in Seeds : x \in rest \/ Together(x)
  ELSE \A t \in Tied : Together(t)

LEMMA SeededStarts ==
  ASSUME ActorInit
  PROVE  SeededInv
BY DEF ActorInit, SeededInv, Seeds

LEMMA SeedsStay ==
  ASSUME line' = line, pins' = pins
  PROVE  Seeds' = Seeds /\ Tied' = Tied
BY ActorTextsStay DEF Seeds, Tied, MainKey

LEMMA SeededRests ==
  ASSUME line' = line, UNCHANGED <<pins, owner>>, SeededInv, rule' = "cluster" <=> rule = "cluster",
         rule = "cluster" => rest' = rest
  PROVE  SeededInv'
<1>1. Seeds' = Seeds /\ Tied' = Tied
  BY SeedsStay
<1>2. \A elements : Together(elements) => Together(elements)'
  BY DEF Together
<1> QED BY <1>1, <1>2 DEF SeededInv

LEMMA SeededSteps ==
  ASSUME line \in Lines, line' = line, ActorInv, SeededInv, ActorNext
  PROVE  SeededInv'
<1>1. pins' = pins
  BY DEF ActorNext, Cluster, Pin, MergePair, TurnToCycles, MergeCycle, TurnToWriters, MergeWritten,
         EndPlan
<1>2. Seeds' = Seeds /\ Tied' = Tied /\ Universe' = Universe
  BY <1>1, SeedsStay, ActorTextsStay
<1>3. ASSUME NEW E, owner' = Merged(E)
      PROVE  (\A elements : Together(elements) => Together(elements)') /\ Together(E)'
  BY <1>3, OwnersAreNames, MergedKeepsTogether DEF ActorInv
<1>4. CASE Cluster
  <2>1. PICK x \in rest : Visit("cluster", x) /\ owner' = Merged(x)
    BY <1>4 DEF Cluster
  <2>2. rule = "cluster" /\ rule' = "cluster" /\ rest' = rest \ {x}
    BY <2>1 DEF Visit
  <2>3. (\A elements : Together(elements) => Together(elements)') /\ Together(x)'
    BY <1>3, <2>1
  <2>4. \A y \in Seeds : y \in rest' \/ Together(y)'
    BY <2>2, <2>3 DEF SeededInv
  <2> QED BY <1>2, <2>2, <2>4 DEF SeededInv
<1>5. CASE Pin
  <2>1. /\ rule = "cluster" /\ rest = {} /\ rule' = "pointer"
        /\ owner' = [x \in Universe |-> IF x \in DOMAIN pins THEN pins[x] ELSE owner[x]]
    BY <1>5 DEF Pin, Turn
  <2>2. DOMAIN owner = Universe \ DOMAIN pins
    BY <2>1 DEF ActorInv, ActorShape
  <2>3. ASSUME NEW f \in Defined \ {MainKey} PROVE Together(Touches(f) \ DOMAIN pins)'
    <3>1. Together(Touches(f))
      BY <2>1, <2>3 DEF SeededInv, Seeds
    <3>2. \A x \in Universe \ DOMAIN pins : owner'[x] = owner[x]
      BY <2>1
    <3>3. DOMAIN owner' = Universe
      BY <2>1
    <3>4. PICK T : T = Touches(f) \ DOMAIN pins
      OBVIOUS
    <3>5. \A x, y \in T \intersect Universe : owner'[x] = owner'[y]
      BY <2>2, <3>1, <3>2, <3>4 DEF Together
    <3>6. (Touches(f) \ DOMAIN pins)' = T
      BY <1>1, <3>4, ActorTextsStay
    <3> QED BY <3>3, <3>5, <3>6 DEF Together
  <2>4. ASSUME NEW a \in ActorName
        PROVE  \A x, y \in {z \in DOMAIN pins \intersect Universe : pins[z] = a} : owner'[x] = owner'[y]
    BY <2>1
  <2>5. \A t \in Tied : \A x, y \in t \intersect DOMAIN owner' : owner'[x] = owner'[y]
    <3>1. \A f \in Defined \ {MainKey} :
            \A x, y \in (Touches(f) \ DOMAIN pins) \intersect DOMAIN owner' : owner'[x] = owner'[y]
      BY <1>1, <2>3, ActorTextsStay DEF Together
    <3> QED BY <2>4, <3>1 DEF Tied
  <2> QED BY <1>2, <2>1, <2>5 DEF SeededInv, Together
<1>6. CASE MergePair \/ MergeCycle \/ MergeWritten
  <2>1. rule # "cluster" /\ rule' = rule
    BY <1>6 DEF MergePair, MergeCycle, MergeWritten, Visit
  <2>2. \E E : owner' = Merged(E)
    BY <1>6 DEF MergePair, MergeCycle, MergeWritten
  <2>3. \A elements : Together(elements) => Together(elements)'
    BY <1>3, <2>2
  <2> QED BY <1>2, <2>1, <2>3 DEF SeededInv
<1>7. CASE TurnToCycles \/ TurnToWriters \/ EndPlan
  <2>1. owner' = owner /\ rule # "cluster" /\ rule' # "cluster"
    BY <1>7 DEF TurnToCycles, TurnToWriters, EndPlan, Turn
  <2> QED BY <1>1, <2>1, SeededRests
<1> QED BY <1>4, <1>5, <1>6, <1>7 DEF ActorNext

(* The ties are about elements only: who prints is defined.                *)
LEMMA PrintersAreDefined ==
  ASSUME line \in Lines, NEW f, f[2] \in Function, Prints(f)
  PROVE  f \in Defined
<1>1. PICK d \in Linked({"Calls"}) : d[1] = f
  BY DEF Prints, From
<1>2. PICK u \in Units : \E e \in Resolved(u) : d = <<Key(u, e.from), Key(u, e.to)>>
  BY <1>1 DEF Linked
<1>3. PICK e \in Resolved(u) : d = <<Key(u, e.from), Key(u, e.to)>>
  BY <1>2
<1>4. f = Key(u, e.from)
  BY <1>1, <1>3
<1>5. f[2] = e.from
  BY <1>4 DEF Key
<1>6. e.from \in line[u].defs
  BY Numbered DEF WellFormedLine, Resolved, Text, Units
<1> QED BY <1>4, <1>5, <1>6 DEF Defined

LEMMA CalledAreFunctions ==
  ASSUME line \in Lines, NEW f \in Defined, closure = ClosureOf(Linked({"Calls"})), NEW g \in closure[f]
  PROVE  g[2] \in Function
<1>1. g \in Defined \/ \E c \in Linked({"Calls"}) : g = c[2]
  BY ClosureIsLeast
<1>2. CASE g \in Defined
  <2>1. PICK u \in Units : \E s \in line[u].defs \intersect Function : g = Key(u, s)
    BY <1>2 DEF Defined
  <2> QED BY <2>1 DEF Key
<1>3. ASSUME NEW c \in Linked({"Calls"}), g = c[2] PROVE g[2] \in Function
  <2>1. PICK u \in Units : \E e \in Resolved(u) : e.kind = "Calls" /\ c = <<Key(u, e.from), Key(u, e.to)>>
    BY <1>3 DEF Linked
  <2>2. PICK e \in Resolved(u) : e.kind = "Calls" /\ c = <<Key(u, e.from), Key(u, e.to)>>
    BY <2>1
  <2>3. e.to \in Function
    BY <2>2, Numbered DEF WellFormedLine, Resolved, Text, Units
  <2> QED BY <1>3, <2>2, <2>3 DEF Key
<1> QED BY <1>1, <1>2, <1>3

LEMMA FunctionsTouchElements ==
  ASSUME line \in Lines, NEW f, f[2] \in Function
  PROVE  Touches(f) \subseteq Universe
<1>1. Touches(f) \ {Stdout} \subseteq Universe
  BY TouchedElements
<1>2. Prints(f) => Stdout \in Universe
  BY PrintersAreDefined, Elements
<1>3. ~Prints(f) => Touches(f) \subseteq Universe
  <2>1. ASSUME NEW kinds, kinds \subseteq DataKinds, NEW x \in From(Linked(kinds), f)
        PROVE  x \in Universe
    <3>1. PICK u \in Units : \E e \in Resolved(u) : e.kind \in kinds /\ x = Key(u, e.to)
      BY <2>1 DEF From, Linked
    <3>2. PICK e \in Resolved(u) : e.kind \in kinds /\ x = Key(u, e.to)
      BY <3>1
    <3>3. e \in Text(u) /\ e.to \in Global
      BY <2>1, <3>2, DataEdges DEF Resolved
    <3> QED BY <3>2, <3>3, Elements
  <2>2. From(Linked({"ReadsGlobal"}), f) \subseteq Universe
    BY <2>1 DEF DataKinds
  <2>3. From(Linked({"WritesGlobal", "AddressOfGlobal"}), f) \subseteq Universe
    BY <2>1 DEF DataKinds
  <2> QED BY <2>2, <2>3 DEF Touches, Writes
<1> QED BY <1>1, <1>2, <1>3

LEMMA TiesAreElements ==
  ASSUME line \in Lines, closure = ClosureOf(Linked({"Calls"})), NEW t \in Ties
  PROVE  t \subseteq Universe
<1>1. \A f \in Defined : f[2] \in Function
  <2> TAKE f \in Defined
  <2>1. PICK u \in Units : \E s \in line[u].defs \intersect Function : f = Key(u, s)
    BY DEF Defined
  <2> QED BY <2>1 DEF Key
<1>2. \A f \in Defined : Touches(f) \subseteq Universe
  BY <1>1, FunctionsTouchElements
<1>3. \A f \in Defined : \A g \in closure[f] : Touches(g) \subseteq Universe /\ Writes(g) \subseteq Universe
  BY CalledAreFunctions, FunctionsTouchElements DEF Touches
<1>4. \A f \in Defined : Footprint(f) \subseteq Universe /\ WriteFootprint(f) \subseteq Universe
  <2> TAKE f \in Defined
  <2>1. (UNION {Touches(g) : g \in closure[f]}) \subseteq Universe
    BY <1>3
  <2>2. (UNION {Writes(g) : g \in closure[f]}) \subseteq Universe
    BY <1>3
  <2> QED BY <2>1, <2>2 DEF Footprint, WriteFootprint
<1>5. \A c \in Components(closure) : (UNION {Footprint(f) : f \in c}) \subseteq Universe
  <2> TAKE c \in Components(closure)
  <2>1. c \subseteq Defined
    BY DEF Components
  <2> QED BY <1>4, <2>1
<1>6. ASSUME NEW p \in Pairs PROVE p \subseteq Universe
  <2>1. PICK q \in Linked({"AddressOfGlobal"}) : IsGlobalKey(q[1]) /\ p = {q[1], q[2]}
    BY DEF Pairs
  <2>2. PICK u \in Units : \E e \in Resolved(u) : e.kind = "AddressOfGlobal" /\ q = <<Key(u, e.from), Key(u, e.to)>>
    BY DEF Linked
  <2>3. PICK e \in Resolved(u) : e.kind = "AddressOfGlobal" /\ q = <<Key(u, e.from), Key(u, e.to)>>
    BY <2>2
  <2>4. e \in Text(u) /\ e.kind \in DataKinds
    BY <2>3 DEF Resolved, DataKinds
  <2>5. q[2] \in Universe
    BY <2>3, <2>4, DataEdges, Elements
  <2>6. e.from \in Global /\ e.from \in line[u].defs
    <3>1. e.from \in line[u].defs
      BY <2>4, Numbered DEF WellFormedLine, Text, Units
    <3>2. q[1][2] = e.from
      BY <2>3 DEF Key
    <3> QED BY <2>1, <3>1, <3>2 DEF IsGlobalKey
  <2>7. q[1] \in Universe
    <3>1. q[1] = Key(u, e.from)
      BY <2>3
    <3>2. q[1] \in {Key(u, s) : s \in Global \intersect (line[u].defs \union {d.to : d \in Text(u)})}
      BY <2>6, <3>1
    <3> QED BY <3>2 DEF Universe
  <2> QED BY <2>1, <2>5, <2>7
<1>7. t \in Pairs => t \subseteq Universe
  BY <1>6
<1>8. t \in {Touches(f) \ DOMAIN pins : f \in Defined \ {MainKey}} => t \subseteq Universe
  BY <1>2
<1>9. t \in {{x \in DOMAIN pins \intersect Universe : pins[x] = a} : a \in ActorName} => t \subseteq Universe
  OBVIOUS
<1>10. t \in {UNION {Footprint(f) : f \in c} : c \in Components(closure)} => t \subseteq Universe
  BY <1>5
<1>11. t \in {WriteFootprint(f) : f \in Defined \ {MainKey}} => t \subseteq Universe
  BY <1>4
<1> QED BY <1>7, <1>8, <1>9, <1>10, <1>11 DEF Ties

(* Two elements no set of the ties tells apart.                            *)
Joined(x, y) == \A S \in SUBSET Universe : Untorn(Ties, S) => (x \in S <=> y \in S)

LEMMA PlannedIsJoined ==
  ASSUME line \in Lines, ActorInv, SeededInv, AgreeInv, rule \in {"planned", "certified"},
         NEW x \in Universe, NEW y \in Universe
  PROVE  owner[x] = owner[y] <=> Joined(x, y)
<1>1. DOMAIN owner = Universe
  BY DEF ActorInv, ActorShape
<1>2. owner[x] = owner[y] => Joined(x, y)
  BY <1>1 DEF AgreeInv, Respects, Joined, Late
<1>3. ASSUME Joined(x, y) PROVE owner[x] = owner[y]
  <2> DEFINE S == {z \in Universe : owner[z] = owner[x]}
  <2>1. ASSUME NEW t \in Ties PROVE Together(t)
    <3>1. CASE t \in Tied
      BY <3>1 DEF SeededInv
    <3>2. CASE t \in Pairs
      BY <3>2 DEF ActorInv, DoneOK
    <3>3. CASE \E c \in Components(closure) : t = CycleFootprint(c)
      BY <3>3 DEF ActorInv, DoneOK, Late
    <3>4. CASE \E f \in Defined \ {MainKey} : t = WriteFootprint(f)
      BY <3>4 DEF ActorInv, DoneOK, Late
    <3>5. t \in {CycleFootprint(c) : c \in Components(closure)} => \E c \in Components(closure) : t = CycleFootprint(c)
      OBVIOUS
    <3>6. Ties = Tied \union Pairs \union {CycleFootprint(c) : c \in Components(closure)}
                   \union {WriteFootprint(f) : f \in Defined \ {MainKey}}
      BY DEF Ties, Tied, CycleFootprint
    <3> QED BY <3>1, <3>2, <3>3, <3>4, <3>5, <3>6
  <2>2. \A t \in Ties : t \subseteq Universe
    BY TiesAreElements DEF ActorInv, ActorShape, Late
  <2>3. Untorn(Ties, S)
    BY <1>1, <2>1, <2>2 DEF Untorn, Together
  <2>4. S \in SUBSET Universe /\ x \in S
    OBVIOUS
  <2>5. y \in S
    BY <1>3, <2>3, <2>4 DEF Joined
  <2> QED BY <2>5
<1> QED BY <1>2, <1>3

(* Without an indirect call in reach, a function runs what it calls, by    *)
(* name, and nothing else.                                                 *)
LEMMA RunsItsClosure ==
  ASSUME NEW f \in Defined, closure = ClosureOf(Linked({"Calls"})), ~IsPoisoned(f)
  PROVE  MayRun[f] \subseteq closure[f]
<1> DEFINE calls == Linked({"Calls"})
           pointed == Indirect \X {e[2] : e \in Linked({"TakesAddressOf"})}
           S == closure[f]
<1>1. /\ f \in S /\ (\A c \in calls : c[1] \in S => c[2] \in S)
      /\ S \subseteq Defined \union {c[2] : c \in calls}
  BY ClosureIsLeast
<1>2. S \intersect Indirect = {}
  BY DEF IsPoisoned
<1>3. \A c \in pointed : c[1] \in Indirect
  OBVIOUS
<1> HIDE DEF calls, pointed, S
<1>4. \A c \in calls \union pointed : c[1] \in S => c[2] \in S
  BY <1>1, <1>2, <1>3
<1>5. S \in SUBSET (Defined \union {c[2] : c \in calls \union pointed})
  BY <1>1
<1>6. ClosureOf(calls \union pointed)[f] \subseteq S
  BY <1>1, <1>4, <1>5, ClosureIsLeast
<1>7. MayRun = ClosureOf(calls \union pointed)
  BY DEF MayRun, calls, pointed
<1> QED BY <1>6, <1>7 DEF S

(* Whoever is poisoned touches everything.                                 *)
LEMMA PlannedWritersAreTogether ==
  ASSUME line \in Lines, ActorInv, rule \in {"planned", "certified"}, NEW f \in Defined \ {MainKey}
  PROVE  Together(MayStore(MayRun[f]))
<1>1. DOMAIN owner = Universe /\ closure = ClosureOf(Linked({"Calls"}))
  BY DEF ActorInv, ActorShape, Late
<1>2. Together(WriteFootprint(f))
  BY DEF ActorInv, DoneOK, Late
<1>3. CASE IsPoisoned(f)
  <2>1. WriteFootprint(f) = Universe
    BY <1>3 DEF WriteFootprint
  <2> QED BY <1>1, <1>2, <2>1, FewerAreTogether
<1>4. CASE ~IsPoisoned(f)
  <2>1. MayRun[f] \subseteq closure[f]
    BY <1>1, <1>4, RunsItsClosure
  <2>2. WriteFootprint(f) = UNION {Writes(g) : g \in closure[f]}
    BY <1>4 DEF WriteFootprint
  <2>3. \A g \in closure[f] : Writes(g) \subseteq WriteFootprint(f)
    BY <2>2
  <2>4. \A g \in closure[f] : From(Linked({"WritesGlobal", "AddressOfGlobal"}), g) \subseteq Writes(g)
                              /\ (Prints(g) => Stdout \in Writes(g))
    BY DEF Writes
  <2>5. MayStore(MayRun[f]) \subseteq WriteFootprint(f)
    <3>1. UNION {From(Linked({"WritesGlobal", "AddressOfGlobal"}), g) : g \in MayRun[f]} \subseteq WriteFootprint(f)
      BY <2>1, <2>3, <2>4
    <3>2. (\E g \in MayRun[f] : Prints(g)) => Stdout \in WriteFootprint(f)
      BY <2>1, <2>3, <2>4
    <3> QED BY <3>1, <3>2 DEF MayStore
  <2> QED BY <1>2, <2>5, FewerAreTogether
<1> QED BY <1>3, <1>4

LEMMA PlanKeepsWritersTogether ==
  ASSUME line \in Lines, ActorInv
  PROVE  WritersHaveOneOwner
<1> SUFFICES ASSUME rule = "planned"
             PROVE  /\ \A f \in Defined \ {MainKey} : OneOwner(MayStore(MayRun[f]))
                    /\ \A c \in Components(closure) : OneOwner(UNION {Touches(g) : g \in UNION {closure[f] : f \in c}})
                    /\ \A p \in Pairs : OneOwner(p)
  BY DEF WritersHaveOneOwner
<1>1. DOMAIN owner = Universe
  BY DEF ActorInv, ActorShape
<1>2. \A f \in Defined \ {MainKey} : OneOwner(MayStore(MayRun[f]))
  BY PlannedWritersAreTogether, TogetherIsOneOwner
<1>3. ASSUME NEW c \in Components(closure)
      PROVE  OneOwner(UNION {Touches(g) : g \in UNION {closure[f] : f \in c}})
  <2> DEFINE E == UNION {Touches(g) : g \in UNION {closure[f] : f \in c}}
  <2>1. Together(CycleFootprint(c))
    BY DEF ActorInv, DoneOK, Late
  <2>2. \A f \in c : Footprint(f) \subseteq CycleFootprint(c)
    BY DEF CycleFootprint
  <2>3. E \intersect Universe \subseteq CycleFootprint(c)
    <3> SUFFICES ASSUME NEW f \in c, NEW g \in closure[f], NEW x \in Touches(g), x \in Universe
                 PROVE  x \in CycleFootprint(c)
      OBVIOUS
    <3>1. x \in Footprint(f)
      BY DEF Footprint
    <3> QED BY <2>2, <3>1
  <2>4. Together(E)
    BY <1>1, <2>1, <2>3, FewerAreTogether
  <2> QED BY <2>4, TogetherIsOneOwner
<1>4. \A p \in Pairs : OneOwner(p)
  BY TogetherIsOneOwner DEF ActorInv, DoneOK
<1> QED BY <1>2, <1>3, <1>4

-----------------------------------------------------------------------------
(* The lift.                                                               *)

LiftInv == rule = "certified" => stage = "planned" /\ \A a \in lifted : BinLocal(a) /\ ~Reachable(a)

LEMMA BinaryStays ==
  ASSUME line' = line, UNCHANGED <<crateOf, owner, closure>>
  PROVE  \A a : BinLocal(a)' = BinLocal(a) /\ Reachable(a)' = Reachable(a)
<1>1. \A k : CrateOf(k)' = CrateOf(k)
  BY TextsStay DEF CrateOf
<1>2. \A k : InTheBinary(k)' = InTheBinary(k)
  BY <1>1, TextsStay DEF InTheBinary
<1>3. \A E : OwnersOf(E)' = OwnersOf(E)
  BY DEF OwnersOf
<1>4. \A f : ActorsOf(f)' = ActorsOf(f)
  BY <1>3, FootprintsStay DEF ActorsOf, MainKey
<1>5. \A a : BinLocal(a)' = BinLocal(a)
  BY <1>2, <1>4, TextsStay, ActorTextsStay DEF BinLocal
<1>6. AddressTaken' = AddressTaken
  BY ActorTextsStay DEF AddressTaken
<1>7. \A a : Reachable(a)' = Reachable(a)
  BY <1>4, <1>6, ActorTextsStay DEF Reachable
<1> QED BY <1>5, <1>7

LEMMA LiftStepsHome ==
  ASSUME line \in Lines, LiftInv, [Next]_vars
  PROVE  LiftInv'
<1>1. CASE PartitionNext /\ UNCHANGED <<line, actorVars, lifted>>
  BY <1>1 DEF LiftInv, PartitionNext, CondensePair, EndForced, CondenseCycle, CondenseIntoBin, EndPartition,
              actorVars
<1>2. CASE stage = "planned" /\ ActorNext /\ UNCHANGED <<line, partitionVars, lifted>>
  <2>1. rule' # "certified"
    BY <1>2 DEF ActorNext, Cluster, Pin, MergePair, TurnToCycles, MergeCycle, TurnToWriters, MergeWritten,
                EndPlan, Visit, Turn
  <2> QED BY <2>1 DEF LiftInv
<1>3. CASE Certify
  <2>1. /\ stage' = stage /\ stage = "planned" /\ line' = line /\ crateOf' = crateOf
        /\ owner' = owner /\ closure' = closure
        /\ \A a \in lifted' : BinLocal(a) /\ ~Reachable(a)
    BY <1>3 DEF Certify, partitionVars
  <2> QED BY <2>1, BinaryStays DEF LiftInv
<1>4. CASE UNCHANGED vars
  <2>1. /\ stage' = stage /\ rule' = rule /\ lifted' = lifted /\ line' = line /\ crateOf' = crateOf
        /\ owner' = owner /\ closure' = closure
    BY <1>4 DEF vars, partitionVars, actorVars
  <2> QED BY <2>1, BinaryStays DEF LiftInv
<1> QED BY <1>1, <1>2, <1>3, <1>4 DEF Next

(* The binary is where main is defined, and nothing else defines it.       *)
LEMMA MainIsInTheBinary ==
  ASSUME line \in Lines, MainKey \in Defined
  PROVE  InTheBinary(MainKey)
<1>1. PICK u \in Units : \E s \in line[u].defs \intersect Function : MainKey = Key(u, s)
  BY DEF Defined
<1>2. Main \in line[u].defs /\ u \in Units /\ Main \in Symbol
  BY <1>1, MainAssumption, Numbered DEF MainKey, Key, Symbol
<1>3. ASSUME NEW v \in Units, Main \in line[v].defs PROVE v = u
  <2>1. u # v => line[u].defs \intersect line[v].defs \subseteq Static \union Record
    BY <1>2, Numbered DEF WellFormedLine, Units
  <2> QED BY <1>2, <1>3, <2>1, MainAssumption
<1>4. Main \in Indexed
  BY <1>2 DEF Indexed
<1>5. FirstDef(Main) = u
  BY <1>3, <1>4, FirstDefinition
<1>6. BinUnits = {u}
  BY <1>2, <1>4, <1>5 DEF BinUnits
<1>7. CrateOf(MainKey) = {crateOf[u]}
  <2>1. {v \in Units : MainKey[1] \in {0, v} /\ MainKey[2] \in line[v].defs} = {u}
    BY <1>2, <1>3 DEF MainKey
  <2> QED BY <2>1 DEF CrateOf
<1> QED BY <1>6, <1>7 DEF InTheBinary

LEMMA LiftedStayHome ==
  ASSUME line \in Lines, ActorInv, LiftInv
  PROVE  LiftStaysHome
<1> SUFFICES ASSUME rule = "certified", NEW a \in lifted
             PROVE  /\ \A x \in DOMAIN owner \ {Stdout} : owner[x] = a => InTheBinary(x)
                    /\ \A f \in Defined :
                         (\E g \in MayRun[f] : \E x \in Touches(g) \ {Stdout} : owner[x] = a)
                           => InTheBinary(f) /\ (f = MainKey \/ f \notin AddressTaken)
  BY DEF LiftStaysHome
<1>1. BinLocal(a) /\ ~Reachable(a)
  BY DEF LiftInv
<1>2. DOMAIN owner = Universe /\ closure = ClosureOf(Linked({"Calls"}))
  BY DEF ActorInv, ActorShape, Late
<1>3. ASSUME NEW f \in Defined, NEW g \in MayRun[f], NEW x \in Touches(g) \ {Stdout}, owner[x] = a, f # MainKey
      PROVE  a \in ActorsOf(f)
  <2>1. x \in Universe
    BY TouchedElements
  <2>2. x \in Footprint(f)
    <3>1. CASE IsPoisoned(f)
      BY <2>1, <3>1 DEF Footprint
    <3>2. CASE ~IsPoisoned(f)
      <4>1. g \in closure[f]
        BY <1>2, <3>2, RunsItsClosure
      <4> QED BY <3>2, <4>1 DEF Footprint
    <3> QED BY <3>1, <3>2
  <2> QED BY <1>2, <1>3, <2>1, <2>2 DEF ActorsOf, OwnersOf
<1>4. ASSUME NEW f \in Defined, NEW g \in MayRun[f], NEW x \in Touches(g) \ {Stdout}, owner[x] = a
      PROVE  InTheBinary(f) /\ (f = MainKey \/ f \notin AddressTaken)
  <2>1. CASE f = MainKey
    BY <2>1, MainIsInTheBinary
  <2>2. CASE f # MainKey
    <3>1. a \in ActorsOf(f)
      BY <1>3, <1>4, <2>2
    <3> QED BY <1>1, <3>1 DEF BinLocal, Reachable
  <2> QED BY <2>1, <2>2
<1>5. \A x \in DOMAIN owner \ {Stdout} : owner[x] = a => InTheBinary(x)
  BY <1>1 DEF BinLocal
<1> QED BY <1>4, <1>5

-----------------------------------------------------------------------------
(* The whole.                                                              *)

WorkspaceInv ==
  /\ line \in Lines
  /\ PartitionInv /\ FinenessInv
  /\ ActorInv /\ AgreeInv
  /\ LiftInv

LEMMA WorkspaceStarts == Init => WorkspaceInv
BY PartitionStarts, FinenessStarts, ActorStarts, AgreementStarts
DEF Init, WorkspaceInv, LiftInv, ActorInit

LEMMA WorkspaceSteps == WorkspaceInv /\ [Next]_vars => WorkspaceInv'
<1> SUFFICES ASSUME WorkspaceInv, [Next]_vars PROVE WorkspaceInv'
  OBVIOUS
<1> USE DEF WorkspaceInv
<1>1. line' = line
  BY DEF Next, Certify, vars
<1>2. LiftInv'
  BY LiftStepsHome
<1>3. CASE PartitionNext /\ UNCHANGED <<line, actorVars, lifted>>
  <2>1. UNCHANGED <<pins, owner, closure>> /\ rule' = rule /\ rest' = rest
    BY <1>3 DEF actorVars
  <2> QED BY <1>1, <1>2, <1>3, <2>1, PartitionSteps, FinenessSteps, PlanRests, AgreementRests
<1>4. CASE stage = "planned" /\ ActorNext /\ UNCHANGED <<line, partitionVars, lifted>>
  BY <1>1, <1>2, <1>4, PartitionRests, FinenessRests, ActorSteps, AgreementSteps
<1>5. CASE Certify
  <2>1. UNCHANGED partitionVars /\ UNCHANGED <<pins, owner, closure>> /\ rule = "planned" /\ rule' = "certified"
    BY <1>5 DEF Certify
  <2>2. rule' \in Late <=> rule \in Late
    BY <2>1 DEF Late
  <2> QED BY <1>1, <1>2, <2>1, <2>2, PartitionRests, FinenessRests, PlanRests, AgreementRests
<1>6. CASE UNCHANGED vars
  <2>1. UNCHANGED partitionVars /\ UNCHANGED <<pins, owner, closure>> /\ rule' = rule /\ rest' = rest
    BY <1>6 DEF vars, actorVars
  <2> QED BY <1>1, <1>2, <2>1, PartitionRests, FinenessRests, PlanRests, AgreementRests
<1> QED BY <1>3, <1>4, <1>5, <1>6 DEF Next

(* The inductive invariant of both planners and the lift.                  *)
THEOREM WorkspaceInvariant == Spec => []WorkspaceInv
BY WorkspaceStarts, WorkspaceSteps, PTL DEF Spec

(* FR-59: a finished partition is a workspace cargo accepts, whatever the  *)
(* units refer to (planPartition).                                         *)
THEOREM PartitionBuilds == Spec => []CargoCanBuild
<1>1. WorkspaceInv => CargoCanBuild
  BY PlannedCratesBuild DEF WorkspaceInv
<1> QED BY <1>1, WorkspaceInvariant, PTL

(* FR-59: and the finest there is, where statics are spelled apart: every  *)
(* other grouping of the directories that builds keeps together what this  *)
(* one keeps together.                                                     *)
THEOREM PartitionIsFinest == Spec => []CondensesNoMore
<1>1. WorkspaceInv => CondensesNoMore
  BY PlannedCratesAreNeeded DEF WorkspaceInv
<1> QED BY <1>1, WorkspaceInvariant, PTL

(* FR-59: so the workspace is a function of what the texts say: in whatever *)
(* order pairs are forced and cycles found, the plan is the one finest     *)
(* grouping of the directories that builds, over the references as the     *)
(* planner reads them.                                                     *)
THEOREM PartitionIsDetermined ==
  Spec => [](stage = "planned" => \A at : Finest(at) <=> at = crateOf)
<1>1. Init => CoarseInv
  BY CoarseStarts DEF Init
<1>2. WorkspaceInv /\ CoarseInv /\ [Next]_vars => CoarseInv'
  BY CoarseSteps DEF WorkspaceInv, Next, Certify, vars
<1>3. WorkspaceInv /\ CoarseInv => (stage = "planned" => \A at : Finest(at) <=> at = crateOf)
  BY PlannedIsFinest, OneIsFinest DEF WorkspaceInv
<1> QED BY <1>1, <1>2, <1>3, WorkspaceInvariant, PTL DEF Spec

(* FR-62: all that a function other than main can write, through whatever  *)
(* calls and pointers, has one owner (planActors).                         *)
THEOREM PlanKeepsWriters == Spec => []WritersHaveOneOwner
<1>1. WorkspaceInv => WritersHaveOneOwner
  BY PlanKeepsWritersTogether DEF WorkspaceInv
<1> QED BY <1>1, WorkspaceInvariant, PTL

(* FR-62: and no two globals have one owner that no chain of the rules'    *)
(* ties joins, in whatever order the rules are applied.                    *)
THEOREM PlanIsFinest == Spec => []MergesNoMore
<1>1. WorkspaceInv => MergesNoMore
  BY PlanMergesNoMore DEF WorkspaceInv
<1> QED BY <1>1, WorkspaceInvariant, PTL

(* FR-62: so the plan is a function of what the units refer to: in whatever *)
(* order each rule visits, two globals end with one owner exactly when no   *)
(* set that respects every tie of the rules separates them.                *)
THEOREM PlanIsDetermined ==
  Spec => [](rule \in {"planned", "certified"} =>
               \A x, y \in Universe : owner[x] = owner[y] <=> Joined(x, y))
<1>1. Init => SeededInv
  BY SeededStarts DEF Init
<1>2. WorkspaceInv /\ SeededInv /\ [Next]_vars => SeededInv'
  <2> SUFFICES ASSUME WorkspaceInv, SeededInv, [Next]_vars PROVE SeededInv'
    OBVIOUS
  <2>1. line' = line
    BY DEF Next, Certify, vars
  <2>2. CASE stage = "planned" /\ ActorNext
    BY <2>1, <2>2, SeededSteps DEF WorkspaceInv
  <2>3. CASE UNCHANGED actorVars
    BY <2>1, <2>3, SeededRests DEF actorVars
  <2>4. CASE Certify
    <3>1. rule = "planned" /\ rule' = "certified" /\ UNCHANGED <<pins, owner>>
      BY <2>4 DEF Certify
    <3> QED BY <2>1, <3>1, SeededRests
  <2> QED BY <2>2, <2>3, <2>4 DEF Next, vars
<1>3. WorkspaceInv /\ SeededInv
      => (rule \in {"planned", "certified"} => \A x, y \in Universe : owner[x] = owner[y] <=> Joined(x, y))
  BY PlannedIsJoined DEF WorkspaceInv
<1> QED BY <1>1, <1>2, <1>3, WorkspaceInvariant, PTL DEF Spec

(* FR-62 F1b: only the binary's functions come to a lifted actor's state,  *)
(* and none but main by a pointer of its own (liftPartitionBinActors).     *)
THEOREM LiftsStayHome == Spec => []LiftStaysHome
<1>1. WorkspaceInv => LiftStaysHome
  BY LiftedStayHome DEF WorkspaceInv
<1> QED BY <1>1, WorkspaceInvariant, PTL
=============================================================================
