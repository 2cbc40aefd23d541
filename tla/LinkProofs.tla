------------------------------ MODULE LinkProofs ------------------------------
(***************************************************************************)
(* What the link step guarantees for every link line.                      *)
(*                                                                         *)
(* The renaming of the tags: whatever the symbols, the uses and the         *)
(* positions, no reference is captured and no two file-statics end up with  *)
(* one name.  The naming of the modules: injective for every set of source  *)
(* paths, every reserved set and every order of the link line.             *)
(*                                                                         *)
(* The whole link, from the groups to the last obligation: LinkInv, the     *)
(* conjunction of an invariant for each step, holds for every line that     *)
(* LinesAssumption admits.  From it: what the objects define survives,      *)
(* every call fits its one callee, every record means what it meant.        *)
(***************************************************************************)
EXTENDS LinkMerge, FiniteSetTheorems, WellFoundedInduction, TLAPS

-----------------------------------------------------------------------------
(* Step 1: the tags (LinkTags).                                            *)

(* A symbol has its final name once its shard is done, or once its rename  *)
(* in the current shard is.                                                *)
Settled(s) ==
  \/ shardOf[s] < shard
  \/ shardOf[s] = shard /\ tagStep = "rename" /\ s \notin renames

Shape ==
  /\ WellFormed /\ PositionsOK
  /\ shard \in Nat \ {0}
  /\ tagStep \in {"collect", "rename", "failed"}
  /\ renames \subseteq Symbols
  /\ name \in [Symbols -> Names]
  /\ use \in [Uses -> Names]

(* Every shard that was collected passed the two checks.                   *)
Checked ==
  \A i \in Shards : (i < shard \/ (i = shard /\ tagStep = "rename")) =>
     \A s \in TaggedIn(i) : Ordinal(s) < Len(ordinalMaps[i])

CheckedMaps ==
  \A i \in Shards : (i < shard \/ (i = shard /\ tagStep = "rename")) =>
     StrictlyIncreasing(ordinalMaps[i])

(* What is left to rename is what has a new name, and nothing that was     *)
(* renamed has a smaller ordinal than anything left.                       *)
Descending ==
  tagStep = "rename" =>
    /\ shard \in Shards
    /\ \A s \in renames : s \in TaggedIn(shard) /\ Renamed(s) # imported[s]
    /\ \A s \in TaggedIn(shard) \ renames :
          Renamed(s) = imported[s] \/ \A r \in renames : Ordinal(r) <= Ordinal(s)

Idle == tagStep # "rename" => renames = {}

NamesSettle == \A s \in Symbols : name[s] = IF Settled(s) THEN Final(s) ELSE imported[s]

UsesSettle ==
  \A u \in Uses :
     use[u] = IF u \in textual
              THEN IF shardOf[bound[u]] < shard THEN Final(bound[u]) ELSE imported[bound[u]]
              ELSE name[bound[u]]

TagInv ==
  Shape /\ Checked /\ CheckedMaps /\ Descending /\ Idle /\ NamesSettle /\ UsesSettle

-----------------------------------------------------------------------------
(* The new name of a checked symbol is a name with a tag.                  *)
LEMMA RenamedIsAName ==
  ASSUME WellFormed, NEW s \in Symbols, Ordinal(s) # Untagged,
         Ordinal(s) < Len(ordinalMaps[shardOf[s]])
  PROVE  /\ Ordinal(s) \in Nat
         /\ Ordinal(s) + 1 \in DOMAIN ordinalMaps[shardOf[s]]
         /\ Renamed(s) \in Names
         /\ Renamed(s).tag = ordinalMaps[shardOf[s]][Ordinal(s) + 1]
         /\ Renamed(s).rest = imported[s].rest
         /\ Renamed(s).tag \in Nat
<1>1. imported[s] \in Names /\ shardOf[s] \in Shards
  BY DEF WellFormed
<1>2. Ordinal(s) \in Nat /\ imported[s].rest \in Rest
  BY <1>1 DEF Names, Ordinal, Untagged
<1>3. ordinalMaps[shardOf[s]] \in Seq(Nat)
  BY <1>1 DEF WellFormed, Shards
<1>4. Ordinal(s) + 1 \in DOMAIN ordinalMaps[shardOf[s]]
  BY <1>2, <1>3
<1>5. ordinalMaps[shardOf[s]][Ordinal(s) + 1] \in Nat
  BY <1>3, <1>4
<1> QED BY <1>2, <1>4, <1>5 DEF Renamed, Names

(* The fact the order of the renames rests on: while s is the next to be   *)
(* renamed, no other symbol of its shard carries its name.                 *)
LEMMA NobodyElseHasTheName ==
  ASSUME TagInv, tagStep = "rename", NEW s \in renames, NextToRename(s),
         NEW t \in Symbols, shardOf[t] = shard, name[t] = name[s]
  PROVE  t = s
<1>1. s \in Symbols /\ s \in TaggedIn(shard) /\ shardOf[s] = shard /\ Ordinal(s) # Untagged
  BY DEF TagInv, Shape, Descending, TaggedIn
<1>2. name[s] = imported[s]
  BY <1>1 DEF TagInv, Shape, NamesSettle, Settled, WellFormed, Shards
<1>3. shard \in Shards /\ shardOf[s] = shard
  BY <1>1 DEF TagInv, Descending
<1>4. CASE name[t] = imported[t]
  BY <1>1, <1>2, <1>4 DEF TagInv, Shape, WellFormed
<1>5. CASE name[t] # imported[t]
  <2>1. name[t] = Final(t) /\ t \notin renames /\ Final(t) # imported[t]
    BY <1>3, <1>5 DEF TagInv, Shape, NamesSettle, Settled, WellFormed, Shards
  <2>2. Ordinal(t) # Untagged /\ t \in TaggedIn(shard) /\ Final(t) = Renamed(t)
    BY <2>1 DEF Final, TaggedIn
  <2>3. Ordinal(s) < Len(ordinalMaps[shard]) /\ Ordinal(t) < Len(ordinalMaps[shard])
    BY <1>1, <1>3, <2>2 DEF TagInv, Checked
  <2>4. /\ Ordinal(t) \in Nat /\ Ordinal(t) + 1 \in DOMAIN ordinalMaps[shard]
        /\ Renamed(t).tag = ordinalMaps[shard][Ordinal(t) + 1]
        /\ Renamed(t).rest = imported[t].rest
        /\ Ordinal(s) \in Nat /\ Ordinal(s) + 1 \in DOMAIN ordinalMaps[shard]
    BY <1>1, <2>2, <2>3, RenamedIsAName DEF TagInv, Shape
  <2>5. Ordinal(s) <= Ordinal(t)
    BY <1>3, <2>1, <2>2 DEF TagInv, Descending
  <2>6. ordinalMaps[shard][Ordinal(t) + 1] = Ordinal(s)
    BY <1>2, <2>1, <2>2, <2>4 DEF Ordinal
  <2>7. Ordinal(t) <= ordinalMaps[shard][Ordinal(t) + 1]
    <3>1. (Ordinal(t) + 1) - 1 <= ordinalMaps[shard][Ordinal(t) + 1]
      BY <1>3, <2>4 DEF TagInv, Shape, PositionsOK
    <3> QED BY <3>1, <2>4
  <2>8. Ordinal(t) = Ordinal(s)
    BY <2>4, <2>5, <2>6, <2>7
  <2>9. imported[t] = imported[s]
    <3>1. imported[t] \in Names /\ imported[s] \in Names
      BY <1>1 DEF TagInv, Shape, WellFormed
    <3>2. imported[t].rest = imported[s].rest
      BY <1>2, <2>1, <2>2, <2>4
    <3> QED BY <3>1, <3>2, <2>8 DEF Names, Ordinal
  <2> QED BY <1>1, <2>9 DEF TagInv, Shape, WellFormed
<1> QED BY <1>4, <1>5

LEMMA InitTagInv == WellFormed /\ PositionsOK /\ TagStart => TagInv
<1> SUFFICES ASSUME WellFormed, PositionsOK, TagStart PROVE TagInv
  OBVIOUS
<1>1. \A s \in Symbols : shardOf[s] \in Nat \ {0}
  BY DEF WellFormed, Shards
<1>2. \A s \in Symbols : ~Settled(s)
  BY <1>1 DEF Settled, TagStart
<1>3. Shape
  BY DEF Shape, TagStart, WellFormed
<1>4. Checked /\ CheckedMaps /\ Descending /\ Idle
  BY DEF Checked, CheckedMaps, Descending, Idle, TagStart, Shards
<1>5. NamesSettle /\ UsesSettle
  BY <1>1, <1>2, WellFormed DEF NamesSettle, UsesSettle, TagStart, WellFormed
<1> QED BY <1>3, <1>4, <1>5 DEF TagInv

LEMMA CollectKeeps == TagInv /\ Collect => TagInv'
<1> SUFFICES ASSUME TagInv, Collect PROVE TagInv'
  OBVIOUS
<1> USE DEF TagInv, shardVars
<1>1. Shape'
  BY DEF Shape, Collect, WellFormed, PositionsOK, TaggedIn, Shards, Symbols, Uses
<1>2. Checked' /\ CheckedMaps'
  <2>1. shard \in Nat BY DEF Shape
  <2> QED BY <2>1 DEF Checked, CheckedMaps, Collect, Shards, Symbols, TaggedIn, Ordinal, StrictlyIncreasing
<1>3. Descending' /\ Idle'
  BY DEF Descending, Idle, Collect, Shards, Symbols, TaggedIn, Ordinal, Renamed
<1>4. \A s \in Symbols : name[s] = IF Settled(s)' THEN Final(s) ELSE imported[s]
  <2> SUFFICES ASSUME NEW s \in Symbols
               PROVE name[s] = IF Settled(s)' THEN Final(s) ELSE imported[s]
    OBVIOUS
  <2>1. shardOf[s] \in Nat /\ shard \in Nat
    BY DEF Shape, WellFormed, Shards
  <2>2. CASE shardOf[s] # shard
    BY <2>1, <2>2 DEF NamesSettle, Settled, Collect
  <2>3. CASE shardOf[s] = shard
    <3>1. name[s] = imported[s]
      BY <2>1, <2>3 DEF NamesSettle, Settled, Collect
    <3>2. s \notin renames' => Final(s) = imported[s]
      BY <2>3 DEF Collect, TaggedIn, Final
    <3> QED BY <3>1, <3>2, <2>1, <2>3 DEF Settled, Collect
  <2> QED BY <2>2, <2>3
<1>5. NamesSettle' /\ UsesSettle'
  <2>1. \A s \in Symbols : Final(s)' = Final(s) /\ Symbols' = Symbols /\ Uses' = Uses
    BY DEF Collect, Final, Renamed, Ordinal, Symbols, Uses
  <2>2. NamesSettle'
    BY <1>4, <2>1 DEF NamesSettle, Collect, Symbols
  <2>3. UsesSettle'
    BY <2>1 DEF UsesSettle, Collect, Uses, Shape, WellFormed, Final, Renamed, Ordinal
  <2> QED BY <2>2, <2>3
<1> QED BY <1>1, <1>2, <1>3, <1>5

LEMMA RenameKeeps == TagInv /\ Rename => TagInv'
<1> SUFFICES ASSUME TagInv, Rename PROVE TagInv'
  OBVIOUS
<1>1. PICK s \in renames :
        /\ NextToRename(s)
        /\ use' = [u \in Uses |->
                     IF u \notin textual /\ shardOf[bound[u]] = shard /\ use[u] = name[s]
                     THEN Renamed(s) ELSE use[u]]
        /\ name' = [name EXCEPT ![s] = Renamed(s)]
        /\ renames' = renames \ {s}
  BY DEF Rename
<1>2. tagStep = "rename" /\ tagStep' = tagStep /\ shard' = shard /\ UNCHANGED shardVars
  BY DEF Rename
<1>3. /\ ordinalMaps' = ordinalMaps /\ imported' = imported /\ shardOf' = shardOf
      /\ bound' = bound /\ textual' = textual
  BY <1>2 DEF shardVars
<1>4. s \in Symbols /\ s \in TaggedIn(shard) /\ shardOf[s] = shard /\ Ordinal(s) # Untagged
      /\ shard \in Shards
  BY <1>2 DEF TagInv, Shape, Descending, TaggedIn
<1>5. Ordinal(s) < Len(ordinalMaps[shardOf[s]])
  BY <1>2, <1>4 DEF TagInv, Checked
<1>6. Renamed(s) \in Names
  BY <1>4, <1>5, RenamedIsAName DEF TagInv, Shape
<1>7. Shape'
  BY <1>1, <1>2, <1>3, <1>6
     DEF TagInv, Shape, WellFormed, PositionsOK, Shards, Symbols, Uses
<1>8. Checked' /\ CheckedMaps' /\ Idle'
  BY <1>2, <1>3 DEF TagInv, Checked, CheckedMaps, Idle, Shards, Symbols, TaggedIn, Ordinal,
                    StrictlyIncreasing
<1>9. Descending'
  <2>1. \A t \in renames : Ordinal(t) <= Ordinal(s)
    BY <1>1 DEF NextToRename
  <2>2. TaggedIn(shard)' = TaggedIn(shard)
        /\ \A t : Ordinal(t)' = Ordinal(t) /\ Renamed(t)' = Renamed(t)
    BY <1>2, <1>3 DEF TaggedIn, Ordinal, Renamed, Symbols
  <2> QED BY <1>1, <1>2, <1>3, <2>1, <2>2 DEF TagInv, Descending, Shards
<1>10. NamesSettle'
  <2> SUFFICES ASSUME NEW t \in Symbols
               PROVE name'[t] = IF Settled(t)' THEN Final(t) ELSE imported[t]
    BY <1>3 DEF NamesSettle, Symbols, Final, Renamed, Ordinal
  <2>1. name[t] = IF Settled(t) THEN Final(t) ELSE imported[t]
    BY DEF TagInv, NamesSettle
  <2>2. CASE t = s
    BY <1>1, <1>2, <1>3, <1>4, <2>2 DEF TagInv, Shape, Settled, Final
  <2>3. CASE t # s
    <3>1. Settled(t)' = Settled(t)
      BY <1>1, <1>2, <1>3, <2>3 DEF Settled
    <3>2. name'[t] = name[t]
      BY <1>1, <2>3 DEF TagInv, Shape
    <3> QED BY <2>1, <3>1, <3>2
  <2> QED BY <2>2, <2>3
<1>11. UsesSettle'
  <2> SUFFICES ASSUME NEW u \in Uses
               PROVE use'[u] = IF u \in textual
                               THEN IF shardOf[bound[u]] < shard THEN Final(bound[u])
                                                                 ELSE imported[bound[u]]
                               ELSE name'[bound[u]]
    BY <1>2, <1>3 DEF UsesSettle, Uses, Final, Renamed, Ordinal
  <2>1. use[u] = IF u \in textual
                 THEN IF shardOf[bound[u]] < shard THEN Final(bound[u]) ELSE imported[bound[u]]
                 ELSE name[bound[u]]
    BY DEF TagInv, UsesSettle
  <2>2. bound[u] \in Symbols
    BY DEF TagInv, Shape, WellFormed
  <2>3. CASE u \in textual
    BY <1>1, <2>1, <2>3
  <2>4. CASE u \notin textual /\ shardOf[bound[u]] = shard /\ use[u] = name[s]
    <3>1. bound[u] = s
      BY <1>1, <1>2, <2>1, <2>2, <2>4, NobodyElseHasTheName
    <3> QED BY <1>1, <1>4, <2>4, <3>1 DEF TagInv, Shape
  <2>5. CASE u \notin textual /\ ~(shardOf[bound[u]] = shard /\ use[u] = name[s])
    <3>1. bound[u] # s
      BY <1>4, <2>1, <2>5
    <3> QED BY <1>1, <2>1, <2>2, <2>5, <3>1 DEF TagInv, Shape
  <2> QED BY <2>3, <2>4, <2>5
<1> QED BY <1>7, <1>8, <1>9, <1>10, <1>11 DEF TagInv

LEMMA RewriteTextsKeeps == TagInv /\ RewriteTexts => TagInv'
<1> SUFFICES ASSUME TagInv, RewriteTexts PROVE TagInv'
  OBVIOUS
<1>1. /\ tagStep = "rename" /\ renames = {} /\ shard' = shard + 1 /\ tagStep' = "collect"
      /\ name' = name /\ renames' = {}
      /\ ordinalMaps' = ordinalMaps /\ imported' = imported /\ shardOf' = shardOf
      /\ bound' = bound /\ textual' = textual
  BY DEF RewriteTexts, shardVars
<1>2. shard \in Nat \ {0} /\ shard \in Shards /\ \A s \in Symbols : shardOf[s] \in Nat
  BY <1>1 DEF TagInv, Shape, Descending, WellFormed, Shards
<1>3. \A s \in Symbols : Settled(s)' <=> Settled(s)
  BY <1>1, <1>2 DEF Settled
<1>4. \A s : Final(s)' = Final(s) /\ Symbols' = Symbols /\ Uses' = Uses
  BY <1>1 DEF Final, Renamed, Ordinal, Symbols, Uses
<1>5. \A s \in TaggedIn(shard) : Renamed(s) \in Names /\ Renamed(s) = Final(s)
  <2> SUFFICES ASSUME NEW s \in TaggedIn(shard)
               PROVE  Renamed(s) \in Names /\ Renamed(s) = Final(s)
    OBVIOUS
  <2>1. s \in Symbols /\ shardOf[s] = shard /\ Ordinal(s) # Untagged
    BY DEF TaggedIn
  <2>2. Ordinal(s) < Len(ordinalMaps[shardOf[s]])
    BY <1>1, <1>2, <2>1 DEF TagInv, Checked
  <2> QED BY <2>1, <2>2, RenamedIsAName DEF TagInv, Shape, Final
<1>6. \A s \in Symbols : shardOf[s] = shard => TextRename(imported[s]) = Final(s)
  <2> SUFFICES ASSUME NEW s \in Symbols, shardOf[s] = shard
               PROVE  TextRename(imported[s]) = Final(s)
    OBVIOUS
  <2>1. CASE Ordinal(s) # Untagged
    <3>1. s \in TaggedIn(shard)
      BY <2>1 DEF TaggedIn
    <3>2. \A t \in TaggedIn(shard) : imported[t] = imported[s] => t = s
      BY DEF TaggedIn, TagInv, Shape, WellFormed
    <3> QED BY <1>5, <3>1, <3>2 DEF TextRename
  <2>2. CASE Ordinal(s) = Untagged
    <3>1. \A t \in TaggedIn(shard) : imported[t] # imported[s]
      BY <2>2 DEF TaggedIn, Ordinal
    <3> QED BY <2>2, <3>1 DEF TextRename, Final
  <2> QED BY <2>1, <2>2
<1>7. UsesSettle'
  <2> SUFFICES ASSUME NEW u \in Uses
               PROVE use'[u] = IF u \in textual
                               THEN IF shardOf[bound[u]] < shard + 1 THEN Final(bound[u])
                                                                     ELSE imported[bound[u]]
                               ELSE name[bound[u]]
    BY <1>1, <1>4 DEF UsesSettle
  <2>1. bound[u] \in Symbols /\ shardOf[bound[u]] \in Nat
    BY <1>2 DEF TagInv, Shape, WellFormed
  <2>2. use[u] = IF u \in textual
                 THEN IF shardOf[bound[u]] < shard THEN Final(bound[u]) ELSE imported[bound[u]]
                 ELSE name[bound[u]]
    BY DEF TagInv, UsesSettle
  <2>3. use'[u] = IF u \in textual /\ shardOf[bound[u]] = shard THEN TextRename(use[u]) ELSE use[u]
    BY DEF RewriteTexts
  <2>4. CASE u \in textual /\ shardOf[bound[u]] = shard
    BY <1>2, <1>6, <2>1, <2>2, <2>3, <2>4
  <2>5. CASE u \in textual /\ shardOf[bound[u]] # shard
    BY <1>2, <2>1, <2>2, <2>3, <2>5
  <2>6. CASE u \notin textual
    BY <2>2, <2>3, <2>6
  <2> QED BY <2>4, <2>5, <2>6
<1>8. use' \in [Uses -> Names]
  <2>1. \A s \in Symbols : imported[s] \in Names
    BY DEF TagInv, Shape, WellFormed
  <2>2. \A s \in Symbols : shardOf[s] = shard => Final(s) \in Names
    BY <1>5, <2>1 DEF Final, TaggedIn
  <2>3. \A u \in Uses : use'[u] \in Names
    <3> SUFFICES ASSUME NEW u \in Uses PROVE use'[u] \in Names
      OBVIOUS
    <3>1. bound[u] \in Symbols /\ use[u] \in Names /\ shardOf[bound[u]] \in Nat
      BY <1>2 DEF TagInv, Shape, WellFormed
    <3>2. use'[u] = IF u \in textual /\ shardOf[bound[u]] = shard THEN TextRename(use[u]) ELSE use[u]
      BY DEF RewriteTexts
    <3>3. CASE u \in textual /\ shardOf[bound[u]] = shard
      <4>1. use[u] = imported[bound[u]]
        BY <1>2, <3>1, <3>3 DEF TagInv, UsesSettle
      <4> QED BY <1>6, <2>2, <3>1, <3>2, <3>3, <4>1
    <3>4. CASE ~(u \in textual /\ shardOf[bound[u]] = shard)
      BY <3>1, <3>2, <3>4
    <3> QED BY <3>3, <3>4
  <2>4. use' = [u \in Uses |-> use'[u]]
    BY DEF RewriteTexts
  <2> QED BY <2>3, <2>4
<1>9. Shape'
  BY <1>1, <1>2, <1>4, <1>8 DEF TagInv, Shape, WellFormed, PositionsOK, Shards, Symbols, Uses
<1>10. Checked' /\ CheckedMaps' /\ Descending' /\ Idle'
  BY <1>1, <1>2 DEF TagInv, Checked, CheckedMaps, Descending, Idle, Shards, Symbols, TaggedIn,
                    Ordinal, StrictlyIncreasing
<1>11. NamesSettle'
  BY <1>1, <1>3, <1>4 DEF TagInv, NamesSettle
<1> QED BY <1>7, <1>9, <1>10, <1>11 DEF TagInv

LEMMA RejectKeeps == TagInv /\ RejectShard => TagInv'
<1> SUFFICES ASSUME TagInv, RejectShard PROVE TagInv'
  OBVIOUS
<1>1. /\ tagStep = "collect" /\ tagStep' = "failed" /\ shard' = shard /\ renames' = renames
      /\ name' = name /\ use' = use /\ ordinalMaps' = ordinalMaps /\ imported' = imported
      /\ shardOf' = shardOf /\ bound' = bound /\ textual' = textual
  BY DEF RejectShard, shardVars
<1>2. Shape' /\ Checked' /\ CheckedMaps' /\ Descending' /\ Idle'
  BY <1>1 DEF TagInv, Shape, WellFormed, PositionsOK, Shards, Symbols, Uses, Checked, CheckedMaps,
              Descending, Idle, TaggedIn, Ordinal, StrictlyIncreasing
<1>3. NamesSettle' /\ UsesSettle'
  BY <1>1 DEF TagInv, NamesSettle, UsesSettle, Settled, Symbols, Uses, Final, Renamed, Ordinal
<1> QED BY <1>2, <1>3 DEF TagInv

LEMMA StutterKeepsTags == TagInv /\ UNCHANGED tagVars => TagInv'
<1> SUFFICES ASSUME TagInv, UNCHANGED tagVars PROVE TagInv'
  OBVIOUS
<1>1. /\ tagStep' = tagStep /\ shard' = shard /\ renames' = renames
      /\ name' = name /\ use' = use /\ ordinalMaps' = ordinalMaps /\ imported' = imported
      /\ shardOf' = shardOf /\ bound' = bound /\ textual' = textual
  BY DEF tagVars, shardVars
<1>2. Shape' /\ Checked' /\ CheckedMaps' /\ Descending' /\ Idle'
  BY <1>1 DEF TagInv, Shape, WellFormed, PositionsOK, Shards, Symbols, Uses, Checked, CheckedMaps,
              Descending, Idle, TaggedIn, Ordinal, StrictlyIncreasing, Renamed
<1>3. NamesSettle' /\ UsesSettle'
  BY <1>1 DEF TagInv, NamesSettle, UsesSettle, Settled, Symbols, Uses, Final, Renamed, Ordinal
<1> QED BY <1>2, <1>3 DEF TagInv

(* The renaming of every link line keeps TagInv.                           *)
THEOREM TagsInvariant == TagSpec => []TagInv
<1>1. WellFormed /\ PositionsOK /\ TagStart => TagInv
  BY InitTagInv
<1>2. TagInv /\ [TagNext]_tagVars => TagInv'
  BY CollectKeeps, RejectKeeps, RenameKeeps, RewriteTextsKeeps, StutterKeepsTags DEF TagNext
<1> QED BY <1>1, <1>2, PTL DEF TagSpec

(* Uses and symbols settle together.                                      *)
LEMMA NothingIsCaptured == TagInv => UsesFollowTheirSymbols
<1> SUFFICES ASSUME TagInv, NEW u \in Uses, u \notin textual \/ shard > shardOf[bound[u]]
             PROVE  use[u] = name[bound[u]]
  BY DEF UsesFollowTheirSymbols
<1>1. bound[u] \in Symbols /\ shardOf[bound[u]] \in Nat /\ shard \in Nat
  BY DEF TagInv, Shape, WellFormed, Shards
<1> QED BY <1>1 DEF TagInv, UsesSettle, NamesSettle, Settled

(* For every link line, no rename captures a reference: at every step each *)
(* symbol reference spells the current name of the symbol it was bound to  *)
(* at import, and so does every plain-text mention of a shard that is done. *)
THEOREM NoCapture == TagSpec => []UsesFollowTheirSymbols
BY NothingIsCaptured, TagsInvariant, PTL

(* Two settled names with a tag come from one position and one spelling.    *)
LEMMA StaticsAreApart == TagInv => StaticsNeverMeet
<1> SUFFICES ASSUME TagInv, TagsDone, NEW s \in Symbols, NEW t \in Symbols,
                    Ordinal(s) # Untagged, Ordinal(t) # Untagged, name[s] = name[t]
             PROVE  s = t
  BY DEF StaticsNeverMeet
<1>1. /\ shard \in Nat /\ shardOf[s] \in Shards /\ shardOf[t] \in Shards
      /\ shardOf[s] < shard /\ shardOf[t] < shard
  BY DEF TagInv, Shape, WellFormed, Shards, TagsDone
<1>2. name[s] = Renamed(s) /\ name[t] = Renamed(t)
  BY <1>1 DEF TagInv, NamesSettle, Settled, Final
<1>3. /\ s \in TaggedIn(shardOf[s]) /\ t \in TaggedIn(shardOf[t])
      /\ Ordinal(s) < Len(ordinalMaps[shardOf[s]]) /\ Ordinal(t) < Len(ordinalMaps[shardOf[t]])
  BY <1>1 DEF TagInv, Checked, TaggedIn
<1>4. /\ Ordinal(s) \in Nat /\ Ordinal(t) \in Nat
      /\ Ordinal(s) + 1 \in DOMAIN ordinalMaps[shardOf[s]]
      /\ Ordinal(t) + 1 \in DOMAIN ordinalMaps[shardOf[t]]
      /\ ordinalMaps[shardOf[s]][Ordinal(s) + 1] = ordinalMaps[shardOf[t]][Ordinal(t) + 1]
      /\ imported[s].rest = imported[t].rest
  <2>1. WellFormed BY DEF TagInv, Shape
  <2>2. /\ Ordinal(s) \in Nat /\ Ordinal(s) + 1 \in DOMAIN ordinalMaps[shardOf[s]]
        /\ Renamed(s).tag = ordinalMaps[shardOf[s]][Ordinal(s) + 1]
        /\ Renamed(s).rest = imported[s].rest
    BY <1>3, <2>1, RenamedIsAName
  <2>3. /\ Ordinal(t) \in Nat /\ Ordinal(t) + 1 \in DOMAIN ordinalMaps[shardOf[t]]
        /\ Renamed(t).tag = ordinalMaps[shardOf[t]][Ordinal(t) + 1]
        /\ Renamed(t).rest = imported[t].rest
    BY <1>3, <2>1, RenamedIsAName
  <2>4. Renamed(s) = Renamed(t) BY <1>2
  <2> QED BY <2>2, <2>3, <2>4
<1>5. shardOf[s] = shardOf[t]
  BY <1>1, <1>4 DEF TagInv, Shape, PositionsOK
<1>6. Ordinal(s) = Ordinal(t)
  <2>1. StrictlyIncreasing(ordinalMaps[shardOf[s]])
    BY <1>1 DEF TagInv, CheckedMaps
  <2>2. ordinalMaps[shardOf[s]] \in Seq(Nat)
    BY <1>1 DEF TagInv, Shape, WellFormed, Shards
  <2>3. ordinalMaps[shardOf[s]][Ordinal(s) + 1] \in Nat
    BY <1>4, <2>2
  <2> QED BY <1>4, <1>5, <2>1, <2>3 DEF StrictlyIncreasing
<1>7. imported[s] \in Names /\ imported[t] \in Names
  BY DEF TagInv, Shape, WellFormed
<1>8. imported[s] = imported[t]
  BY <1>4, <1>6, <1>7 DEF Names, Ordinal
<1> QED BY <1>5, <1>8 DEF TagInv, Shape, WellFormed

(* For every link line, two file-statics never share a name once the       *)
(* renaming is over.                                                       *)
THEOREM StaticsApart == TagSpec => []StaticsNeverMeet
BY StaticsAreApart, TagsInvariant, PTL

-----------------------------------------------------------------------------
(* The names of the modules (LinkNames).                                   *)

NamingShape ==
  /\ NamingOK
  /\ nameStep \in {"first", "round"}
  /\ modNames \in [Indices -> ModName \union {NoName}]
  /\ rank \in [Indices -> Nat \ {0}]
  /\ pool \subseteq Indices /\ visits \subseteq pool
  /\ assigned \subseteq ModName

(* Every member of the pool points at a candidate it has, and during a     *)
(* round nobody still to be visited has moved.                             *)
RungsExist ==
  /\ \A i \in pool : rank[i] <= Len(ladder[i])
  /\ \A i \in visits : i \in DOMAIN wanted /\ wanted[i] = ladder[i][rank[i]]

(* Only the pool is unnamed; a name is the one of the position or a taken  *)
(* candidate, which has its holder.                                        *)
NamedApart ==
  nameStep = "round" =>
    /\ \A i \in Indices : i \in pool <=> modNames[i] = NoName
    /\ \A i \in Indices \ pool : modNames[i] = ByPosition(i) \/ modNames[i] \in assigned
    /\ \A i, j \in Indices \ pool : modNames[i] = modNames[j] => i = j

Fresh ==
  /\ nameStep = "first" => /\ pool = {} /\ assigned = {}
                           /\ rank = [i \in Indices |-> 1]
                           /\ modNames = [i \in Indices |-> NoName]
  /\ assigned \intersect Unusable = {}

NamingInv == NamingShape /\ RungsExist /\ NamedApart /\ Fresh

LEMMA InitNaming == NamingOK /\ NamingStart => NamingInv
BY DEF NamingStart, NamingInv, NamingShape, RungsExist, NamedApart, Fresh

LEMMA PositionNames ==
  ASSUME NamingOK
  PROVE  /\ \A i \in Indices : ByPosition(i) \in ModName \intersect OrdinalShaped
         /\ \A i, j \in Indices : ByPosition(i) = ByPosition(j) => i = j
BY OrdinalNames DEF NamingOK, ByPosition

LEMMA FirstPassKeeps == NamingInv /\ FirstPass => NamingInv'
<1> SUFFICES ASSUME NamingInv, FirstPass PROVE NamingInv'
  OBVIOUS
<1>1. /\ ladder' = ladder /\ ordinal' = ordinal /\ reserved' = reserved /\ assigned' = assigned
      /\ rank' = rank /\ wanted' = wanted /\ visits' = visits /\ nameStep' = "round"
      /\ nameStep = "first" /\ pool = {} /\ assigned = {} /\ visits = {}
      /\ pool' = {i \in Indices : ladder[i] # <<>> /\ Usable(ladder[i][1])}
      /\ modNames' = [i \in Indices |-> IF i \in pool' THEN NoName ELSE ByPosition(i)]
  BY DEF FirstPass, namingInput, NamingInv, Fresh, NamingShape
<1>2. NamingOK /\ NamingOK' /\ Indices' = Indices /\ pool' \subseteq Indices
  BY <1>1 DEF NamingInv, NamingShape, NamingOK, Indices
<1>3. /\ NoName \notin ModName
      /\ \A i \in Indices : ByPosition(i) \in ModName
      /\ \A i : ByPosition(i)' = ByPosition(i)
  BY <1>1, <1>2, PositionNames, OrdinalNames DEF ByPosition
<1>4. NamingShape'
  BY <1>1, <1>2, <1>3 DEF NamingInv, NamingShape
<1>5. RungsExist'
  <2> SUFFICES ASSUME NEW i \in pool' PROVE rank[i] <= Len(ladder[i])
    BY <1>1 DEF RungsExist
  <2>1. ladder[i] \in Seq(ModName) /\ ladder[i] # <<>>
    BY <1>1, <1>2 DEF NamingOK
  <2>2. rank[i] = 1
    BY <1>1, <1>2 DEF NamingInv, Fresh
  <2> QED BY <2>1, <2>2
<1>6. NamedApart'
  BY <1>1, <1>2, <1>3, PositionNames DEF NamedApart
<1>7. Fresh'
  BY <1>1 DEF NamingInv, Fresh, Unusable
<1> QED BY <1>4, <1>5, <1>6, <1>7 DEF NamingInv

LEMMA BeginRoundKeeps == NamingInv /\ BeginRound => NamingInv'
<1> SUFFICES ASSUME NamingInv, BeginRound PROVE NamingInv'
  OBVIOUS
<1>1. /\ ladder' = ladder /\ ordinal' = ordinal /\ reserved' = reserved /\ assigned' = assigned
      /\ rank' = rank /\ modNames' = modNames /\ pool' = pool /\ nameStep' = nameStep
      /\ nameStep = "round" /\ visits' = pool /\ wanted' = [i \in pool |-> ladder[i][rank[i]]]
  BY DEF BeginRound, namingInput
<1>2. NamingShape' /\ RungsExist'
  BY <1>1 DEF NamingInv, NamingShape, NamingOK, RungsExist, Indices
<1>3. NamedApart' /\ Fresh'
  BY <1>1 DEF NamingInv, NamedApart, Fresh, Indices, ByPosition, Unusable
<1> QED BY <1>2, <1>3 DEF NamingInv

LEMMA VisitKeeps == NamingInv /\ Visit => NamingInv'
<1> SUFFICES ASSUME NamingInv, Visit PROVE NamingInv'
  OBVIOUS
<1>1. PICK i \in visits :
        /\ Take(i) \/ Climb(i) \/ FallBack(i)
        /\ visits' = visits \ {i}
  BY DEF Visit
<1>2. /\ ladder' = ladder /\ ordinal' = ordinal /\ reserved' = reserved /\ wanted' = wanted
      /\ nameStep = "round" /\ nameStep' = "round"
  BY DEF Visit, namingInput
<1>3. /\ NamingOK' /\ NamingOK /\ Indices' = Indices /\ Unusable' = Unusable
      /\ \A j : ByPosition(j)' = ByPosition(j)
  BY <1>2 DEF NamingInv, NamingShape, NamingOK, Indices, Unusable, ByPosition
<1>4. /\ i \in pool /\ i \in Indices /\ ladder[i] \in Seq(ModName)
      /\ rank[i] \in Nat \ {0} /\ rank[i] <= Len(ladder[i])
      /\ wanted[i] = ladder[i][rank[i]]
  BY <1>3 DEF NamingInv, NamingShape, RungsExist, NamingOK
<1>5. wanted[i] \in ModName /\ wanted[i] # NoName
  BY <1>4, OrdinalNames
<1>6. /\ ByPosition(i) \in ModName /\ ByPosition(i) # NoName
      /\ \A j \in Indices : ByPosition(j) \in OrdinalShaped
      /\ \A j \in Indices : ByPosition(j) = ByPosition(i) => j = i
  BY <1>3, <1>4, PositionNames, OrdinalNames
<1>7. assigned \intersect Unusable = {} /\ OrdinalShaped \subseteq Unusable
  BY DEF NamingInv, Fresh, Unusable
<1>8. CASE Take(i)
  <2>1. /\ modNames' = [modNames EXCEPT ![i] = wanted[i]] /\ pool' = pool \ {i} /\ rank' = rank
        /\ assigned' = assigned \union {wanted[i]} /\ wanted[i] \notin Unusable \union assigned
    BY <1>8 DEF Take, Claimed, Usable
  <2>2. NamingShape'
    BY <1>1, <1>2, <1>3, <1>4, <1>5, <2>1 DEF NamingInv, NamingShape
  <2>3. RungsExist'
    BY <1>1, <1>2, <2>1 DEF NamingInv, RungsExist
  <2>4. \A j \in Indices \ pool : modNames[j] # wanted[i] /\ modNames'[j] = modNames[j]
    BY <1>2, <1>4, <1>6, <1>7, <2>1 DEF NamingInv, NamedApart, NamingShape
  <2>5. modNames'[i] = wanted[i] /\ \A j \in Indices \ {i} : modNames'[j] = modNames[j]
    BY <1>4, <2>1 DEF NamingInv, NamingShape
  <2>6. NamedApart'
    BY <1>2, <1>3, <1>4, <1>5, <2>1, <2>4, <2>5 DEF NamingInv, NamedApart
  <2>7. Fresh'
    BY <1>2, <1>3, <1>7, <2>1 DEF Fresh
  <2> QED BY <2>2, <2>3, <2>6, <2>7 DEF NamingInv
<1>9. CASE Climb(i)
  <2>1. /\ rank' = [rank EXCEPT ![i] = @ + 1] /\ rank[i] + 1 <= Len(ladder[i])
        /\ modNames' = modNames /\ assigned' = assigned /\ pool' = pool
    BY <1>9 DEF Climb, CanClimb
  <2>2. NamingShape'
    BY <1>1, <1>2, <1>3, <1>4, <2>1 DEF NamingInv, NamingShape
  <2>3. RungsExist'
    BY <1>1, <1>2, <1>4, <2>1 DEF NamingInv, RungsExist, NamingShape
  <2>4. NamedApart' /\ Fresh'
    BY <1>2, <1>3, <2>1 DEF NamingInv, NamedApart, Fresh
  <2> QED BY <2>2, <2>3, <2>4 DEF NamingInv
<1>10. CASE FallBack(i)
  <2>1. /\ modNames' = [modNames EXCEPT ![i] = ByPosition(i)] /\ pool' = pool \ {i}
        /\ rank' = rank /\ assigned' = assigned
    BY <1>10 DEF FallBack
  <2>2. NamingShape'
    BY <1>1, <1>2, <1>3, <1>4, <1>6, <2>1 DEF NamingInv, NamingShape
  <2>3. RungsExist'
    BY <1>1, <1>2, <2>1 DEF NamingInv, RungsExist
  <2>4. \A j \in Indices \ pool : modNames[j] # ByPosition(i) /\ modNames'[j] = modNames[j]
    <3> SUFFICES ASSUME NEW j \in Indices \ pool
                 PROVE modNames[j] # ByPosition(i) /\ modNames'[j] = modNames[j]
      OBVIOUS
    <3>1. j # i BY <1>4
    <3>2. ByPosition(i) \notin assigned
      BY <1>4, <1>6, <1>7
    <3>3. modNames[j] = ByPosition(j) \/ modNames[j] \in assigned
      BY <1>2 DEF NamingInv, NamedApart
    <3> QED BY <1>6, <2>1, <3>1, <3>2, <3>3 DEF NamingInv, NamingShape
  <2>5. modNames'[i] = ByPosition(i) /\ \A j \in Indices \ {i} : modNames'[j] = modNames[j]
    BY <1>4, <2>1 DEF NamingInv, NamingShape
  <2>6. NamedApart'
    BY <1>2, <1>3, <1>4, <1>6, <2>1, <2>4, <2>5 DEF NamingInv, NamedApart
  <2>7. Fresh'
    BY <1>2, <1>3, <2>1, <1>7 DEF Fresh
  <2> QED BY <2>2, <2>3, <2>6, <2>7 DEF NamingInv
<1> QED BY <1>1, <1>8, <1>9, <1>10

LEMMA StutterKeepsNames == NamingInv /\ UNCHANGED nameVars => NamingInv'
<1> SUFFICES ASSUME NamingInv, UNCHANGED nameVars PROVE NamingInv'
  OBVIOUS
<1>1. /\ ladder' = ladder /\ ordinal' = ordinal /\ reserved' = reserved /\ wanted' = wanted
      /\ rank' = rank /\ modNames' = modNames /\ pool' = pool /\ nameStep' = nameStep
      /\ visits' = visits /\ assigned' = assigned
  BY DEF nameVars, namingInput
<1> QED BY <1>1 DEF NamingInv, NamingShape, NamingOK, RungsExist, NamedApart, Fresh, Indices,
                    Unusable, ByPosition

(* The naming keeps NamingInv for every link line.                         *)
THEOREM NamingInvariant == NamingSpec => []NamingInv
<1>1. NamingOK /\ NamingStart => NamingInv
  BY InitNaming
<1>2. NamingInv /\ [NamingNext]_nameVars => NamingInv'
  BY FirstPassKeeps, BeginRoundKeeps, VisitKeeps, StutterKeepsNames DEF NamingNext
<1> QED BY <1>1, <1>2, PTL DEF NamingSpec

(* A taken candidate has one holder and is no type at the root.            *)
LEMMA NamesAreApart == NamingInv => ModuleNamesApart
<1> SUFFICES ASSUME NamingInv, NEW i \in Indices, modNames[i] # NoName
             PROVE  /\ \A j \in Indices : modNames[j] = modNames[i] => i = j
                    /\ modNames[i] # ByPosition(i) => modNames[i] \notin reserved
  BY DEF ModuleNamesApart
<1>1. nameStep = "round" /\ i \notin pool
  BY DEF NamingInv, NamingShape, Fresh, NamedApart
<1> QED BY <1>1 DEF NamingInv, NamedApart, Fresh, Unusable

(* For every link line, no two shards are given one module and no module   *)
(* the name of a type at the root.                                         *)
THEOREM OneModulePerShard == NamingSpec => []ModuleNamesApart
BY NamesAreApart, NamingInvariant, PTL
-----------------------------------------------------------------------------
(* Step 0: the groups. First, lists of finite sets in an order (InOrder).   *)

(* A strict order of S in which any two members compare.                    *)
StrictOrder(S, r) ==
  /\ \A x \in S : <<x, x>> \notin r
  /\ \A x, y \in S : x = y \/ <<x, y>> \in r \/ <<y, x>> \in r
  /\ \A x, y, z \in S : <<x, y>> \in r /\ <<y, z>> \in r => <<x, z>> \in r

(* InOrder lists a finite set: every member once, each at its rank.         *)
LEMMA InOrderLists ==
  ASSUME NEW S, IsFiniteSet(S), NEW r, StrictOrder(S, r)
  PROVE  /\ Cardinality(S) \in Nat
         /\ DOMAIN InOrder(S, r) = 1..Cardinality(S)
         /\ \A n \in 1..Cardinality(S) :
              /\ InOrder(S, r)[n] \in S
              /\ IsFiniteSet({y \in S : <<y, InOrder(S, r)[n]>> \in r})
              /\ Cardinality({y \in S : <<y, InOrder(S, r)[n]>> \in r}) = n - 1
         /\ \A x \in S : \E n \in 1..Cardinality(S) : InOrder(S, r)[n] = x
         /\ \A m, n \in 1..Cardinality(S) : InOrder(S, r)[m] = InOrder(S, r)[n] => m = n
<1> DEFINE below(x) == {y \in S : <<y, x>> \in r}
           slot == [x \in S |-> Cardinality(below(x)) + 1]
           N == Cardinality(S)
<1>1. N \in Nat
  BY FS_CardinalityType
<1>2. \A x \in S : /\ IsFiniteSet(below(x)) /\ Cardinality(below(x)) \in Nat
                   /\ Cardinality(below(x)) < N
  <2> SUFFICES ASSUME NEW x \in S
               PROVE  IsFiniteSet(below(x)) /\ Cardinality(below(x)) \in Nat /\ Cardinality(below(x)) < N
    OBVIOUS
  <2>1. below(x) \in SUBSET S /\ below(x) # S
    BY DEF StrictOrder
  <2>2. IsFiniteSet(below(x)) /\ Cardinality(below(x)) <= N /\ Cardinality(below(x)) # N
    BY <2>1, FS_Subset
  <2>3. Cardinality(below(x)) \in Nat
    BY <2>2, FS_CardinalityType
  <2> QED BY <1>1, <2>2, <2>3
<1>3. \A x, y \in S : <<x, y>> \in r => Cardinality(below(x)) < Cardinality(below(y))
  <2> SUFFICES ASSUME NEW x \in S, NEW y \in S, <<x, y>> \in r
               PROVE  Cardinality(below(x)) < Cardinality(below(y))
    OBVIOUS
  <2>1. below(x) \in SUBSET below(y) /\ x \in below(y) /\ x \notin below(x)
    BY DEF StrictOrder
  <2>2. Cardinality(below(x)) <= Cardinality(below(y)) /\ Cardinality(below(x)) # Cardinality(below(y))
    BY <1>2, <2>1, FS_Subset
  <2> QED BY <1>2, <2>2
<1>4. slot \in [S -> 1..N]
  <2>1. \A x \in S : Cardinality(below(x)) + 1 \in 1..N
    <3> SUFFICES ASSUME NEW x \in S PROVE Cardinality(below(x)) + 1 \in 1..N
      OBVIOUS
    <3>1. \A c \in Nat : c < N => c + 1 \in 1..N
      BY <1>1
    <3> QED BY <1>2, <3>1
  <2> QED BY <2>1
<1>5. \A x, y \in S : slot[x] = slot[y] => x = y
  <2> SUFFICES ASSUME NEW x \in S, NEW y \in S, slot[x] = slot[y] PROVE x = y
    OBVIOUS
  <2>1. Cardinality(below(x)) = Cardinality(below(y))
    <3>1. \A c, d \in Nat : c + 1 = d + 1 => c = d
      OBVIOUS
    <3> QED BY <1>2, <3>1
  <2>2. ~(Cardinality(below(x)) < Cardinality(below(y))) /\ ~(Cardinality(below(y)) < Cardinality(below(x)))
    <3>1. \A c, d \in Nat : c = d => ~(c < d) /\ ~(d < c)
      OBVIOUS
    <3> HIDE DEF below
    <3> QED BY <1>2, <2>1, <3>1
  <2> QED BY <1>3, <2>2 DEF StrictOrder
<1>6. \A n \in 1..N : \E x \in S : slot[x] = n
  <2>1. slot \in Injection(S, 1..N)
    BY <1>4, <1>5 DEF Injection, IsInjective
  <2>2. IsFiniteSet(1..N) /\ Cardinality(1..N) = N
    BY <1>1, FS_Interval
  <2>3. slot \in Surjection(S, 1..N)
    BY <2>1, <2>2, FS_Injection
  <2> QED BY <2>3 DEF Surjection
<1>7. \A n \in 1..N : \E x \in S : Cardinality(below(x)) = n - 1
  <2> SUFFICES ASSUME NEW n \in 1..N PROVE \E x \in S : Cardinality(below(x)) = n - 1
    OBVIOUS
  <2>1. PICK x \in S : slot[x] = n
    BY <1>6
  <2>2. Cardinality(below(x)) \in Nat /\ Cardinality(below(x)) + 1 = n
    BY <1>2, <2>1
  <2> HIDE DEF below
  <2>3. \A c \in Nat : c + 1 = n => c = n - 1
    BY <1>1
  <2> QED BY <2>2, <2>3
<1>8. /\ DOMAIN InOrder(S, r) = 1..N
      /\ \A n \in 1..N : InOrder(S, r)[n] \in S /\ Cardinality(below(InOrder(S, r)[n])) = n - 1
  <2>1. InOrder(S, r) = [n \in 1..N |-> CHOOSE x \in S : Cardinality(below(x)) = n - 1]
    BY DEF InOrder
  <2>2. \A n \in 1..N : LET c == CHOOSE x \in S : Cardinality(below(x)) = n - 1
                        IN  c \in S /\ Cardinality(below(c)) = n - 1
    BY <1>7
  <2> QED BY <2>1, <2>2
<1>9. \A x \in S : \E n \in 1..N : InOrder(S, r)[n] = x
  <2> SUFFICES ASSUME NEW x \in S PROVE \E n \in 1..N : InOrder(S, r)[n] = x
    OBVIOUS
  <2>1. PICK n \in 1..N : slot[x] = n
    BY <1>4
  <2>2. InOrder(S, r)[n] \in S /\ slot[InOrder(S, r)[n]] = n
    <3>1. Cardinality(below(InOrder(S, r)[n])) = n - 1 /\ InOrder(S, r)[n] \in S
      BY <1>8
    <3>2. (n - 1) + 1 = n
      BY <1>1
    <3> QED BY <3>1, <3>2
  <2> QED BY <1>5, <2>1, <2>2
<1>10. \A m, n \in 1..N : InOrder(S, r)[m] = InOrder(S, r)[n] => m = n
  <2> SUFFICES ASSUME NEW m \in 1..N, NEW n \in 1..N, InOrder(S, r)[m] = InOrder(S, r)[n]
               PROVE  m = n
    OBVIOUS
  <2>1. m - 1 = n - 1
    BY <1>8
  <2> QED BY <1>1, <2>1
<1> QED BY <1>1, <1>2, <1>8, <1>9, <1>10

(* A set of naturals has a least member.                                    *)
LEMMA LeastNatural ==
  ASSUME NEW S, S \subseteq Nat, S # {}
  PROVE  \E x \in S : \A y \in S : x <= y
<1>1. PICK x \in S : \A y \in S : ~(<<y, x>> \in OpToRel(<, Nat))
  BY NatLessThanWellFounded, WFMin
<1>2. \A y \in S : ~(y < x)
  BY <1>1 DEF OpToRel
<1>3. \A y \in S : x <= y
  BY <1>2
<1> QED BY <1>3

(* The first of some items, in the order of the line.                      *)
LEMMA FirstExists ==
  ASSUME NEW S, S \subseteq Nat \X Nat, S # {}
  PROVE  First(S) \in S /\ \A q \in S : First(S) = q \/ Before(First(S), q)
<1> DEFINE units0 == {p[1] : p \in S}
<1>1. PICK i \in units0 : \A j \in units0 : i <= j
  <2>1. units0 \subseteq Nat /\ units0 # {}
    OBVIOUS
  <2> QED BY <2>1, LeastNatural
<1> DEFINE ks == {p[2] : p \in {p \in S : p[1] = i}}
<1>2. PICK k \in ks : \A l \in ks : k <= l
  <2>1. ks \subseteq Nat /\ ks # {}
    OBVIOUS
  <2> QED BY <2>1, LeastNatural
<1>3. PICK p \in S : p[1] = i /\ p[2] = k
  OBVIOUS
<1>4. \A q \in S : p = q \/ Before(p, q)
  <2> SUFFICES ASSUME NEW q \in S PROVE p = q \/ Before(p, q)
    OBVIOUS
  <2>1. i <= q[1] /\ q[1] \in Nat /\ q[2] \in Nat /\ i \in Nat /\ k \in Nat
    BY <1>1, <1>3
  <2>2. CASE i = q[1]
    <3>1. k <= q[2]
      BY <1>2, <2>2
    <3> QED BY <1>3, <2>1, <2>2, <3>1 DEF Before
  <2>3. CASE i # q[1]
    BY <1>3, <2>1, <2>3 DEF Before
  <2> QED BY <2>2, <2>3
<1> QED BY <1>3, <1>4 DEF First

-----------------------------------------------------------------------------
(* The objects of a link line and the group module that is made of them.    *)

(* What LinesAssumption says of one link line.                              *)
LEMMA LineShape ==
  ASSUME NEW l \in Lines
  PROVE  /\ l \in Seq(Artifact)
         /\ DOMAIN l = 1..Len(l) /\ Len(l) \in Nat /\ IsFiniteSet(DOMAIN l)
         /\ \A i \in DOMAIN l :
              /\ i \in Nat /\ WellFormedOps(l[i].ops) /\ l[i].ops \in Seq(Item)
              /\ l[i].path \in Seq(Seq(STRING))
              /\ DOMAIN l[i].ops = 1..Len(l[i].ops) /\ Len(l[i].ops) \in Nat
              /\ \A k \in DOMAIN l[i].ops : k \in Nat /\ l[i].ops[k] \in Item
<1>1. l \in Seq(Artifact) /\ \A i \in DOMAIN l : WellFormedOps(l[i].ops)
  BY LinesAssumption
<1>2. DOMAIN l = 1..Len(l) /\ Len(l) \in Nat /\ \A i \in DOMAIN l : i \in Nat /\ l[i] \in Artifact
  BY <1>1
<1>3. IsFiniteSet(DOMAIN l)
  BY <1>2, FS_Interval
<1>4. \A i \in DOMAIN l : l[i].ops \in Seq(Item)
  BY <1>1 DEF WellFormedOps
<1>5. \A i \in DOMAIN l : l[i].path \in Seq(Seq(STRING))
  <2> DEFINE paths == Seq(Seq(STRING))
  <2>1. \A i \in DOMAIN l : l[i].path \in paths
    <3> HIDE DEF paths
    <3> QED BY <1>2 DEF Artifact, paths
  <2> QED BY <2>1
<1>6. ASSUME NEW ops \in Seq(Item)
      PROVE  /\ DOMAIN ops = 1..Len(ops) /\ Len(ops) \in Nat
             /\ \A k \in DOMAIN ops : k \in Nat /\ ops[k] \in Item
  OBVIOUS
<1> QED BY <1>1, <1>2, <1>3, <1>4, <1>5, <1>6

(* The items of a group: finitely many, each an item of a member.           *)
LEMMA ItemsShape ==
  ASSUME NEW l \in Lines, NEW g \in SUBSET DOMAIN l
  PROVE  /\ IsFiniteSet(g) /\ IsFiniteSet(Items(l, g)) /\ Items(l, g) \subseteq Nat \X Nat
         /\ \A p \in Items(l, g) :
              /\ p[1] \in g /\ p[2] \in DOMAIN l[p[1]].ops /\ p = <<p[1], p[2]>>
              /\ ItemAt(l, p) \in Item
         /\ \A i \in g : \A k \in DOMAIN l[i].ops : <<i, k>> \in Items(l, g)
<1> DEFINE row(i) == {<<i, k>> : k \in DOMAIN l[i].ops}
           rows == {row(i) : i \in g}
<1>1. IsFiniteSet(g)
  BY LineShape, FS_Subset
<1>2. Items(l, g) = UNION rows
  BY DEF Items
<1>3. \A i \in g : IsFiniteSet(row(i))
  <2> SUFFICES ASSUME NEW i \in g PROVE IsFiniteSet(row(i))
    OBVIOUS
  <2>1. IsFiniteSet(DOMAIN l[i].ops)
    <3>1. DOMAIN l[i].ops = 1..Len(l[i].ops) /\ Len(l[i].ops) \in Int
      BY LineShape
    <3> QED BY <3>1, FS_Interval
  <2>2. [k \in DOMAIN l[i].ops |-> <<i, k>>] \in Surjection(DOMAIN l[i].ops, row(i))
    BY DEF Surjection
  <2> QED BY <2>1, <2>2, FS_Surjection
<1>4. IsFiniteSet(rows)
  <2>1. [i \in g |-> row(i)] \in Surjection(g, rows)
    BY DEF Surjection
  <2> QED BY <1>1, <2>1, FS_Surjection
<1>5. IsFiniteSet(Items(l, g))
  <2>1. \A T \in rows : IsFiniteSet(T)
    BY <1>3
  <2> HIDE DEF rows
  <2> QED BY <1>2, <1>4, <2>1, FS_UNION
<1>6. \A p \in Items(l, g) : \E i \in g : \E k \in DOMAIN l[i].ops : p = <<i, k>>
  BY DEF Items
<1>7. \A i \in g : \A k \in DOMAIN l[i].ops : i \in Nat /\ k \in Nat /\ l[i].ops[k] \in Item
  BY LineShape
<1>8. \A i \in g : \A k \in DOMAIN l[i].ops : <<i, k>> \in Items(l, g)
  BY DEF Items
<1> QED BY <1>1, <1>5, <1>6, <1>7, <1>8 DEF ItemAt

(* What stands for an item in the group module.                            *)
LEMMA Standings ==
  ASSUME NEW l \in Lines, NEW g \in SUBSET DOMAIN l, NEW p \in Items(l, g)
  PROVE  LET q == StandsFor(l, g, p) IN
         /\ q \in Items(l, g) /\ Matching(l, p, q)
         /\ ItemAt(l, q).kind = "decl" => ItemAt(l, p).kind = "decl"
         /\ \A r \in Items(l, g) : Matching(l, p, r) => StandsFor(l, g, r) = q
<1> DEFINE I == Items(l, g)
           same(x) == {q \in I : Matching(l, x, q)}
           dfs(x) == {q \in same(x) : ItemAt(l, q).kind # "decl"}
           pool0(x) == IF dfs(x) # {} THEN dfs(x) ELSE same(x)
<1>1. \A x \in I : StandsFor(l, g, x) = First(pool0(x))
  BY DEF StandsFor
<1>2. \A x \in I : x \in same(x)
  BY DEF Matching
<1>3. \A x \in I : pool0(x) \subseteq same(x) /\ pool0(x) # {} /\ pool0(x) \subseteq Nat \X Nat
  <2>1. I \subseteq Nat \X Nat
    BY ItemsShape
  <2> QED BY <1>2, <2>1
<1>4. \A x \in I : First(pool0(x)) \in pool0(x)
  <2> HIDE DEF pool0
  <2> QED BY <1>3, FirstExists
<1>5. StandsFor(l, g, p) \in same(p)
  BY <1>1, <1>3, <1>4
<1>6. ItemAt(l, StandsFor(l, g, p)).kind = "decl" => ItemAt(l, p).kind = "decl"
  <2> SUFFICES ASSUME ItemAt(l, p).kind # "decl" PROVE ItemAt(l, StandsFor(l, g, p)).kind # "decl"
    OBVIOUS
  <2>1. p \in dfs(p)
    BY <1>2
  <2>2. pool0(p) = dfs(p)
    BY <2>1
  <2> QED BY <1>1, <1>4, <2>2
<1>7. \A r \in I : Matching(l, p, r) => same(r) = same(p)
  <2> SUFFICES ASSUME NEW r \in I, Matching(l, p, r), NEW q \in I
               PROVE  Matching(l, p, q) <=> Matching(l, r, q)
    OBVIOUS
  <2> QED BY DEF Matching
<1>8. \A r \in I : Matching(l, p, r) => StandsFor(l, g, r) = StandsFor(l, g, p)
  <2> SUFFICES ASSUME NEW r \in I, Matching(l, p, r) PROVE StandsFor(l, g, r) = StandsFor(l, g, p)
    OBVIOUS
  <2>1. same(r) = same(p)
    BY <1>7
  <2>2. pool0(r) = pool0(p)
    BY <2>1
  <2> QED BY <1>1, <2>2
<1> QED BY <1>5, <1>6, <1>8

(* The line order is a strict order.                                        *)
LEMMA BeforeOrders ==
  ASSUME NEW S, S \subseteq Nat \X Nat
  PROVE  StrictOrder(S, {e \in S \X S : Before(e[1], e[2])})
<1> DEFINE r == {e \in S \X S : Before(e[1], e[2])}
<1>1. \A x, y \in S : <<x, y>> \in r <=> Before(x, y)
  OBVIOUS
<1>2. \A x \in S : x \in Nat \X Nat /\ x[1] \in Nat /\ x[2] \in Nat /\ x = <<x[1], x[2]>>
  OBVIOUS
<1>3. \A x \in S : ~Before(x, x)
  BY <1>2 DEF Before
<1>4. \A x, y \in S : x = y \/ Before(x, y) \/ Before(y, x)
  BY <1>2 DEF Before
<1>5. \A x, y, z \in S : Before(x, y) /\ Before(y, z) => Before(x, z)
  BY <1>2 DEF Before
<1> HIDE DEF r
<1> QED BY <1>1, <1>3, <1>4, <1>5 DEF StrictOrder, r

(* Stays lists the items that stand for themselves, and Place finds there   *)
(* what stands for any other.                                               *)
LEMMA Staying ==
  ASSUME NEW l \in Lines, NEW g \in SUBSET DOMAIN l
  PROVE  /\ \E N \in Nat : DOMAIN Stays(l, g) = 1..N
         /\ \A n \in DOMAIN Stays(l, g) :
              /\ Stays(l, g)[n] \in Items(l, g)
              /\ StandsFor(l, g, Stays(l, g)[n]) = Stays(l, g)[n]
         /\ \A m, n \in DOMAIN Stays(l, g) : Stays(l, g)[m] = Stays(l, g)[n] => m = n
         /\ \A p \in Items(l, g) :
              /\ Place(l, g, p) \in DOMAIN Stays(l, g)
              /\ Stays(l, g)[Place(l, g, p)] = StandsFor(l, g, p)
<1> DEFINE S == {p \in Items(l, g) : StandsFor(l, g, p) = p}
           r == {e \in S \X S : Before(e[1], e[2])}
<1>1. IsFiniteSet(S) /\ S \subseteq Nat \X Nat
  <2>1. S \in SUBSET Items(l, g)
    OBVIOUS
  <2> QED BY <2>1, ItemsShape, FS_Subset
<1>2. StrictOrder(S, r)
  <2> HIDE DEF S
  <2> QED BY <1>1, BeforeOrders
<1>3. Stays(l, g) = InOrder(S, r)
  BY DEF Stays, InLineOrder
<1>4. /\ Cardinality(S) \in Nat /\ DOMAIN Stays(l, g) = 1..Cardinality(S)
      /\ \A n \in 1..Cardinality(S) : Stays(l, g)[n] \in S
      /\ \A x \in S : \E n \in 1..Cardinality(S) : Stays(l, g)[n] = x
      /\ \A m, n \in 1..Cardinality(S) : Stays(l, g)[m] = Stays(l, g)[n] => m = n
  <2> HIDE DEF S, r
  <2>1. /\ Cardinality(S) \in Nat /\ DOMAIN InOrder(S, r) = 1..Cardinality(S)
        /\ \A n \in 1..Cardinality(S) : InOrder(S, r)[n] \in S
        /\ \A x \in S : \E n \in 1..Cardinality(S) : InOrder(S, r)[n] = x
        /\ \A m, n \in 1..Cardinality(S) : InOrder(S, r)[m] = InOrder(S, r)[n] => m = n
    BY <1>1, <1>2, InOrderLists
  <2> QED BY <1>3, <2>1
<1>5. \A p \in Items(l, g) : StandsFor(l, g, p) \in S
  BY Standings
<1>6. \A p \in Items(l, g) : /\ Place(l, g, p) \in DOMAIN Stays(l, g)
                             /\ Stays(l, g)[Place(l, g, p)] = StandsFor(l, g, p)
  <2> SUFFICES ASSUME NEW p \in Items(l, g)
               PROVE  /\ Place(l, g, p) \in DOMAIN Stays(l, g)
                      /\ Stays(l, g)[Place(l, g, p)] = StandsFor(l, g, p)
    OBVIOUS
  <2>1. \E n \in DOMAIN Stays(l, g) : Stays(l, g)[n] = StandsFor(l, g, p)
    <3> HIDE DEF S
    <3> QED BY <1>4, <1>5
  <2> QED BY <2>1 DEF Place
<1>7. \A n \in DOMAIN Stays(l, g) : Stays(l, g)[n] \in S
  <2> HIDE DEF S
  <2> QED BY <1>4
<1>8. \A m, n \in DOMAIN Stays(l, g) : Stays(l, g)[m] = Stays(l, g)[n] => m = n
  <2> HIDE DEF S
  <2> QED BY <1>4
<1> QED BY <1>4, <1>6, <1>7, <1>8

(* The three ways an argument can be shaped.                                *)
LEMMA ShapeTable ==
  /\ Shapes("slice") = {"slice", "tail", "view", "value"}
  /\ Shapes("scalar") = {"cursor", "here", "object", "value"}
  /\ \A m : m # "slice" /\ m # "scalar" => Shapes(m) = {"other", "ref", "value"}
BY DEF Shapes

(* What the joint import makes of an argument for a slice.                  *)
LEMMA WidenTable ==
  \A arg : Widen(arg) = IF arg = "cursor" THEN "slice" ELSE IF arg = "here" THEN "tail" ELSE arg
BY DEF Widen

(* What stands for an item that calls can name is one too, and a call of    *)
(* the item's shape, reshaped, is of the shape of what stands for it.      *)
LEMMA StandInsFit ==
  ASSUME NEW l \in Lines, NEW g \in SUBSET DOMAIN l, CanJoin(l, g), NEW p \in Items(l, g),
         ItemAt(l, p).kind \in {"fn", "decl", "global"}
  PROVE  LET b == ItemAt(l, StandsFor(l, g, p)) IN
         /\ b.kind \in {"fn", "decl", "global"}
         /\ \A arg \in Shapes(ItemAt(l, p).model) :
              /\ arg \in Ways /\ Widen(arg) \in Ways
              /\ b.model # "slice" => arg \in Shapes(b.model)
              /\ b.model = "slice" => arg = "object" \/ Widen(arg) \in Shapes(b.model)
<1> DEFINE q == StandsFor(l, g, p)
           a == ItemAt(l, p)
           b == ItemAt(l, q)
<1>1. q \in Items(l, g) /\ Matching(l, p, q)
  BY Standings
<1>2. IF a.kind = "decl" THEN Refines(a, b)
      ELSE b.kind = "decl" \/ p = q \/ (a = b /\ a.kind # "fn")
  BY <1>1 DEF CanJoin
<1>3. a.kind = b.kind \/ (IsFunction(a) <=> IsFunction(b))
  BY <1>1 DEF Matching
<1>4. b.kind = "decl" => a.kind = "decl"
  BY Standings
<1>5. a \in Item /\ b \in Item
  BY <1>1, ItemsShape
<1>6. b.kind \in {"fn", "decl", "global"}
  <2> HIDE DEF a, b, q
  <2> QED BY <1>2, <1>3, <1>4 DEF IsFunction, a, b
<1>7. b.model = a.model \/ (a.model = "scalar" /\ b.model = "slice")
  BY <1>2, <1>4 DEF Refines
<1> HIDE DEF a, b, q
<1>8. \A arg \in Shapes(a.model) :
         /\ arg \in Ways /\ Widen(arg) \in Ways
         /\ b.model # "slice" => arg \in Shapes(b.model)
         /\ b.model = "slice" => arg = "object" \/ Widen(arg) \in Shapes(b.model)
  <2> SUFFICES ASSUME NEW arg \in Shapes(a.model)
               PROVE  /\ arg \in Ways /\ Widen(arg) \in Ways
                      /\ b.model # "slice" => arg \in Shapes(b.model)
                      /\ b.model = "slice" => arg = "object" \/ Widen(arg) \in Shapes(b.model)
    OBVIOUS
  <2>1. CASE a.model = "slice" /\ b.model = "slice"
    BY <2>1, ShapeTable, WidenTable DEF Ways
  <2>2. CASE a.model = "scalar" /\ b.model = "scalar"
    BY <2>2, ShapeTable, WidenTable DEF Ways
  <2>3. CASE a.model = "scalar" /\ b.model = "slice"
    BY <2>3, ShapeTable, WidenTable DEF Ways
  <2>4. CASE a.model \notin {"slice", "scalar"} /\ b.model = a.model
    BY <2>4, ShapeTable, WidenTable DEF Ways
  <2> QED BY <1>7, <2>1, <2>2, <2>3, <2>4
<1> QED BY <1>6, <1>8 DEF a, b, q

(* A call of a well-formed unit names an item that calls can name, shaped   *)
(* for it.                                                                 *)
LEMMA CallsInUnit ==
  ASSUME NEW l \in Lines, NEW g \in SUBSET DOMAIN l, NEW p \in Items(l, g),
         NEW c \in DOMAIN ItemAt(l, p).calls
  PROVE  LET call == ItemAt(l, p).calls[c] IN
         /\ <<p[1], call.to>> \in Items(l, g)
         /\ ItemAt(l, <<p[1], call.to>>).kind \in {"fn", "decl", "global"}
         /\ call.arg \in Shapes(ItemAt(l, <<p[1], call.to>>).model)
<1>1. p[1] \in g /\ p[1] \in DOMAIN l /\ p[2] \in DOMAIN l[p[1]].ops
  BY ItemsShape
<1>2. WellFormedOps(l[p[1]].ops)
  BY <1>1, LineShape
<1>3. c \in DOMAIN l[p[1]].ops[p[2]].calls
  BY DEF ItemAt
<1>4. LET call == l[p[1]].ops[p[2]].calls[c] IN
      /\ call.to \in DOMAIN l[p[1]].ops
      /\ l[p[1]].ops[call.to].kind \in {"fn", "decl", "global"}
      /\ call.arg \in Shapes(l[p[1]].ops[call.to].model)
  BY <1>1, <1>2, <1>3 DEF WellFormedOps
<1>5. <<p[1], l[p[1]].ops[p[2]].calls[c].to>> \in Items(l, g)
  BY <1>1, <1>4, ItemsShape
<1> QED BY <1>4, <1>5 DEF ItemAt

(* A call that is not refused fits what stands for its callee.             *)
LEMMA ShapedFits ==
  ASSUME NEW l \in Lines, NEW g \in SUBSET DOMAIN l, CanJoin(l, g), NEW p \in Items(l, g),
         ~LendsAnObject(l, g, p), NEW c \in DOMAIN ItemAt(l, p).calls
  PROVE  LET new == Shaped(l, g, p[1], ItemAt(l, p).calls[c])
             b   == ItemAt(l, Stays(l, g)[new.to])
         IN  /\ new.to \in DOMAIN Stays(l, g) /\ new.to \in Nat /\ new.arg \in Ways
             /\ new \in [to : Nat, arg : Ways]
             /\ b.kind \in {"fn", "decl", "global"} /\ new.arg \in Shapes(b.model)
<1> DEFINE call == ItemAt(l, p).calls[c]
           q == <<p[1], call.to>>
           new == Shaped(l, g, p[1], call)
           b == ItemAt(l, StandsFor(l, g, q))
<1>1. q \in Items(l, g) /\ ItemAt(l, q).kind \in {"fn", "decl", "global"}
      /\ call.arg \in Shapes(ItemAt(l, q).model)
  BY CallsInUnit
<1>2. /\ Place(l, g, q) \in DOMAIN Stays(l, g)
      /\ Stays(l, g)[Place(l, g, q)] = StandsFor(l, g, q)
      /\ \A n \in DOMAIN Stays(l, g) : n \in Nat
  <2>1. q \in Items(l, g)
    BY <1>1
  <2>2. \A n \in DOMAIN Stays(l, g) : n \in Nat
    BY Staying
  <2> HIDE DEF q
  <2> QED BY <2>1, <2>2, Staying
<1>3. /\ new.to = Place(l, g, q)
      /\ new.arg = IF b.model = "slice" THEN Widen(call.arg) ELSE call.arg
      /\ new = [to |-> new.to, arg |-> new.arg]
  BY DEF Shaped
<1>4. /\ b.kind \in {"fn", "decl", "global"}
      /\ call.arg \in Ways /\ Widen(call.arg) \in Ways
      /\ b.model # "slice" => call.arg \in Shapes(b.model)
      /\ b.model = "slice" => call.arg = "object" \/ Widen(call.arg) \in Shapes(b.model)
  <2> HIDE DEF q, call
  <2> QED BY <1>1, StandInsFit
<1>5. b.model = "slice" => call.arg # "object"
  BY DEF LendsAnObject
<1>6. new.arg \in Ways /\ new.arg \in Shapes(b.model)
  BY <1>3, <1>4, <1>5
<1>7. Stays(l, g)[new.to] = StandsFor(l, g, q) /\ new.to \in DOMAIN Stays(l, g) /\ new.to \in Nat
  BY <1>2, <1>3
<1> HIDE DEF new
<1> QED BY <1>3, <1>4, <1>6, <1>7 DEF new

(* An item keeps its kind, name and model in the group module, and its      *)
(* calls fit what stands for their callees there.                           *)
LEMMA JoinedShape ==
  ASSUME NEW l \in Lines, NEW g \in SUBSET DOMAIN l, CanJoin(l, g), NEW p \in Items(l, g)
  PROVE  LET a == ItemAt(l, p)
             j == Joined(l, g, p)
         IN  /\ j \in Item /\ j.kind = a.kind /\ j.rest = a.rest /\ j.model = a.model
             /\ j.tag = IF a.tag = 0 THEN Cardinality({i \in g : i < p[1]}) ELSE a.tag
             /\ Cardinality({i \in g : i < p[1]}) \in Nat
             /\ External(j) <=> External(a)
             /\ \A c \in DOMAIN j.calls :
                  /\ ~LendsAnObject(l, g, p) /\ c \in DOMAIN a.calls
                  /\ j.calls[c] = Shaped(l, g, p[1], a.calls[c])
<1> DEFINE a == ItemAt(l, p)
           t == IF a.tag = 0 THEN Cardinality({i \in g : i < p[1]}) ELSE a.tag
           cs == IF LendsAnObject(l, g, p) THEN <<>>
                 ELSE [c \in DOMAIN a.calls |-> Shaped(l, g, p[1], a.calls[c])]
           j == Joined(l, g, p)
<1>1. a \in Item
  BY ItemsShape
<1>2. Cardinality({i \in g : i < p[1]}) \in Nat
  <2>1. IsFiniteSet(g) /\ {i \in g : i < p[1]} \in SUBSET g
    BY ItemsShape
  <2>2. IsFiniteSet({i \in g : i < p[1]})
    BY <2>1, FS_Subset
  <2> QED BY <2>2, FS_CardinalityType
<1>3. j = [a EXCEPT !.tag = t, !.calls = cs]
  BY <1>1 DEF Joined, Item
<1>4. t \in Nat \union {-1}
  BY <1>1, <1>2 DEF Item
<1>5. cs \in Seq([to : Nat, arg : Ways])
  <2>1. CASE LendsAnObject(l, g, p)
    BY <2>1
  <2>2. CASE ~LendsAnObject(l, g, p)
    <3>1. \A c \in DOMAIN a.calls : Shaped(l, g, p[1], a.calls[c]) \in [to : Nat, arg : Ways]
      BY <2>2, ShapedFits
    <3>2. a.calls \in Seq([to : Nat, arg : Ways])
      BY <1>1 DEF Item
    <3>3. DOMAIN a.calls = 1..Len(a.calls) /\ Len(a.calls) \in Nat
      BY <3>2
    <3>4. ASSUME NEW n \in Nat, NEW T, NEW f \in [1..n -> T]
          PROVE  f \in Seq(T)
      OBVIOUS
    <3>5. cs = [c \in 1..Len(a.calls) |-> Shaped(l, g, p[1], a.calls[c])]
      BY <2>2, <3>3
    <3>6. [c \in 1..Len(a.calls) |-> Shaped(l, g, p[1], a.calls[c])] \in Seq([to : Nat, arg : Ways])
      <4> DEFINE n == Len(a.calls)
      <4>1. \A c \in 1..n : Shaped(l, g, p[1], a.calls[c]) \in [to : Nat, arg : Ways]
        BY <3>1, <3>3
      <4>2. n \in Nat
        BY <3>3
      <4> DEFINE f == [c \in 1..n |-> Shaped(l, g, p[1], a.calls[c])]
                 T == [to : Nat, arg : Ways]
      <4>3. f \in [1..n -> T]
        BY <4>1
      <4> HIDE DEF n, f, T
      <4>4. f \in Seq(T)
        BY <3>4, <4>2, <4>3
      <4> QED BY <4>4 DEF f, n, T
    <3> QED BY <3>5, <3>6
  <2> QED BY <2>1, <2>2
<1>6. \A c \in DOMAIN cs : /\ ~LendsAnObject(l, g, p) /\ c \in DOMAIN a.calls
                           /\ cs[c] = Shaped(l, g, p[1], a.calls[c])
  OBVIOUS
<1> HIDE DEF cs, t, a, j
<1>7. j \in Item /\ j.kind = a.kind /\ j.rest = a.rest /\ j.model = a.model /\ j.tag = t /\ j.calls = cs
  BY <1>1, <1>3, <1>4, <1>5 DEF Item
<1>8. External(j) <=> External(a)
  BY <1>1, <1>2, <1>4, <1>7 DEF External, t, Item
<1> QED BY <1>2, <1>6, <1>7, <1>8 DEF a, j, t

(* A group module is as well formed as the objects it replaces, and every   *)
(* item of it comes from one of them.                                      *)
LEMMA GroupModuleIsWellFormed ==
  ASSUME NEW l \in Lines, NEW g \in SUBSET DOMAIN l, CanJoin(l, g),
         \A i \in g : l[i].path # <<>>
  PROVE  /\ WellFormedOps(JointImport(l, g))
         /\ \A n \in DOMAIN JointImport(l, g) :
              \E p \in Items(l, g) :
                 /\ ItemAt(l, p).rest = JointImport(l, g)[n].rest
                 /\ ItemAt(l, p).kind = JointImport(l, g)[n].kind
                 /\ External(ItemAt(l, p)) <=> External(JointImport(l, g)[n])
<1> DEFINE K == Stays(l, g)
           J == JointImport(l, g)
<1>1. /\ DOMAIN J = DOMAIN K
      /\ \A n \in DOMAIN K : J[n] = Joined(l, g, K[n])
  BY DEF JointImport
<1>2. /\ \E N \in Nat : DOMAIN K = 1..N
      /\ \A n \in DOMAIN K : K[n] \in Items(l, g) /\ StandsFor(l, g, K[n]) = K[n]
      /\ \A m, n \in DOMAIN K : K[m] = K[n] => m = n
  BY Staying
<1>3. \A n \in DOMAIN K :
        /\ J[n] \in Item /\ J[n].kind = ItemAt(l, K[n]).kind
        /\ J[n].rest = ItemAt(l, K[n]).rest /\ J[n].model = ItemAt(l, K[n]).model
        /\ J[n].tag = IF ItemAt(l, K[n]).tag = 0 THEN Cardinality({i \in g : i < K[n][1]})
                      ELSE ItemAt(l, K[n]).tag
        /\ Cardinality({i \in g : i < K[n][1]}) \in Nat
        /\ External(J[n]) <=> External(ItemAt(l, K[n]))
        /\ \A c \in DOMAIN J[n].calls :
             /\ ~LendsAnObject(l, g, K[n]) /\ c \in DOMAIN ItemAt(l, K[n]).calls
             /\ J[n].calls[c] = Shaped(l, g, K[n][1], ItemAt(l, K[n]).calls[c])
  <2> SUFFICES ASSUME NEW n \in DOMAIN K
      PROVE
        /\ J[n] \in Item /\ J[n].kind = ItemAt(l, K[n]).kind
        /\ J[n].rest = ItemAt(l, K[n]).rest /\ J[n].model = ItemAt(l, K[n]).model
        /\ J[n].tag = IF ItemAt(l, K[n]).tag = 0 THEN Cardinality({i \in g : i < K[n][1]})
                      ELSE ItemAt(l, K[n]).tag
        /\ Cardinality({i \in g : i < K[n][1]}) \in Nat
        /\ External(J[n]) <=> External(ItemAt(l, K[n]))
        /\ \A c \in DOMAIN J[n].calls :
             /\ ~LendsAnObject(l, g, K[n]) /\ c \in DOMAIN ItemAt(l, K[n]).calls
             /\ J[n].calls[c] = Shaped(l, g, K[n][1], ItemAt(l, K[n]).calls[c])
    OBVIOUS
  <2>1. PICK p \in Items(l, g) : p = K[n]
    BY <1>2
  <2>2. J[n] = Joined(l, g, p)
    BY <1>1, <2>1
  <2> DEFINE j == Joined(l, g, p)
  <2>3. /\ j \in Item /\ j.kind = ItemAt(l, p).kind
        /\ j.rest = ItemAt(l, p).rest /\ j.model = ItemAt(l, p).model
        /\ j.tag = IF ItemAt(l, p).tag = 0 THEN Cardinality({i \in g : i < p[1]})
                   ELSE ItemAt(l, p).tag
        /\ Cardinality({i \in g : i < p[1]}) \in Nat
        /\ External(j) <=> External(ItemAt(l, p))
        /\ \A c \in DOMAIN j.calls :
             /\ ~LendsAnObject(l, g, p) /\ c \in DOMAIN ItemAt(l, p).calls
             /\ j.calls[c] = Shaped(l, g, p[1], ItemAt(l, p).calls[c])
    BY JoinedShape
  <2>4. J[n] = j /\ K[n] = p
    BY <2>1, <2>2
  <2> HIDE DEF K, J, j
  <2> QED BY <2>3, <2>4
<1>4. J \in Seq(Item)
  <2>1. PICK N \in Nat : DOMAIN K = 1..N
    BY <1>2
  <2>2. J = [n \in DOMAIN K |-> J[n]]
    BY DEF JointImport
  <2> HIDE DEF J, K
  <2>3. J \in [1..N -> Item]
    BY <1>3, <2>1, <2>2
  <2> QED BY <2>3
<1>5. ASSUME NEW n \in DOMAIN K, NEW c \in DOMAIN J[n].calls
      PROVE  /\ J[n].calls[c].to \in DOMAIN J
             /\ J[J[n].calls[c].to].kind \in {"fn", "decl", "global"}
             /\ J[n].calls[c].arg \in Shapes(J[J[n].calls[c].to].model)
  <2>1. PICK p \in Items(l, g) : p = K[n]
    BY <1>2
  <2>2. /\ ~LendsAnObject(l, g, p) /\ c \in DOMAIN ItemAt(l, p).calls
        /\ J[n].calls[c] = Shaped(l, g, p[1], ItemAt(l, p).calls[c])
    BY <1>3, <2>1
  <2> DEFINE new == J[n].calls[c]
  <2>3. /\ new.to \in DOMAIN K /\ ItemAt(l, K[new.to]).kind \in {"fn", "decl", "global"}
        /\ new.arg \in Shapes(ItemAt(l, K[new.to]).model)
    <3> HIDE DEF J, K
    <3> QED BY <2>2, ShapedFits DEF K
  <2> HIDE DEF J, K
  <2> QED BY <1>1, <1>3, <2>3
<1>6. \A n \in DOMAIN K : J[n].kind \in {"decl", "record", "enum"} => External(J[n])
  <2> SUFFICES ASSUME NEW n \in DOMAIN K, J[n].kind \in {"decl", "record", "enum"}
               PROVE  External(J[n])
    OBVIOUS
  <2>1. K[n][1] \in DOMAIN l /\ K[n][2] \in DOMAIN l[K[n][1]].ops
    BY <1>2, ItemsShape
  <2>2. WellFormedOps(l[K[n][1]].ops)
    BY <2>1, LineShape
  <2>3. ItemAt(l, K[n]).kind \in {"decl", "record", "enum"} => External(ItemAt(l, K[n]))
    <3> HIDE DEF K
    <3> QED BY <2>1, <2>2 DEF WellFormedOps, ItemAt
  <2> HIDE DEF J, K
  <2> QED BY <1>3, <2>3
<1>7. \A n \in DOMAIN K : J[n].kind = "decl" => J[n].model # "slice"
  <2> SUFFICES ASSUME NEW n \in DOMAIN K PROVE J[n].kind = "decl" => J[n].model # "slice"
    OBVIOUS
  <2>1. K[n][1] \in DOMAIN l /\ K[n][2] \in DOMAIN l[K[n][1]].ops
    BY <1>2, ItemsShape
  <2>2. WellFormedOps(l[K[n][1]].ops)
    BY <2>1, LineShape
  <2>3. ItemAt(l, K[n]).kind = "decl" => ItemAt(l, K[n]).model # "slice"
    <3> HIDE DEF K
    <3> QED BY <2>1, <2>2 DEF WellFormedOps, ItemAt
  <2> HIDE DEF J, K
  <2> QED BY <1>3, <2>3
<1>8. ASSUME NEW m \in DOMAIN K, NEW n \in DOMAIN K, Named(J[m]), Named(J[n]),
             J[m].tag = J[n].tag, J[m].rest = J[n].rest
      PROVE  m = n
  <2>1. PICK p \in Items(l, g) : p = K[m] /\ StandsFor(l, g, p) = p
    BY <1>2
  <2>2. PICK q \in Items(l, g) : q = K[n] /\ StandsFor(l, g, q) = q
    BY <1>2
  <2> DEFINE a == ItemAt(l, p)
             b == ItemAt(l, q)
  <2>3. /\ a \in Item /\ b \in Item /\ p[1] \in g /\ q[1] \in g
        /\ p[2] \in DOMAIN l[p[1]].ops /\ q[2] \in DOMAIN l[q[1]].ops
        /\ p = <<p[1], p[2]>> /\ q = <<q[1], q[2]>> /\ p[1] \in Nat /\ q[1] \in Nat
        /\ p[1] \in DOMAIN l /\ q[1] \in DOMAIN l
    BY ItemsShape, LineShape
  <2>4. Named(a) /\ Named(b) /\ a.rest = b.rest /\ (External(J[m]) <=> External(a))
        /\ (External(J[n]) <=> External(b)) /\ (External(a) <=> External(b))
    BY <1>3, <1>8, <2>1, <2>2 DEF Named, External
  <2>5. CASE External(a)
    <3>1. SpelledApart(a, b)
      BY <2>3, LinesAssumption DEF ItemAt
    <3>2. Matching(l, p, q)
      BY <2>4, <2>5, <3>1 DEF SpelledApart, Matching
    <3>3. p = q
      BY <2>1, <2>2, <3>2, Standings
    <3> QED BY <1>2, <2>1, <2>2, <3>3
  <2>6. CASE ~External(a)
    <3>1. a.tag = 0 /\ b.tag = 0
      <4>1. a.tag < 1 /\ b.tag < 1
        BY <2>3, LinesAssumption DEF ItemAt
      <4>2. a.tag \in Nat \union {-1} /\ b.tag \in Nat \union {-1}
        BY <2>3 DEF Item
      <4> QED BY <2>4, <2>6, <4>1, <4>2 DEF External
    <3> DEFINE below(i) == {j \in g : j < i}
    <3>2. Cardinality(below(p[1])) = Cardinality(below(q[1]))
      <4>1. J[m].tag = Cardinality(below(p[1])) /\ J[n].tag = Cardinality(below(q[1]))
        BY <1>3, <2>1, <2>2, <3>1
      <4> QED BY <1>8, <4>1
    <3>3. \A i \in g, j \in g : i < j => Cardinality(below(i)) # Cardinality(below(j))
      <4> SUFFICES ASSUME NEW i \in g, NEW j \in g, i < j
                   PROVE  Cardinality(below(i)) # Cardinality(below(j))
        OBVIOUS
      <4>1. \A x \in g : x \in Nat
        BY LineShape
      <4>2. below(i) \in SUBSET below(j) /\ i \in below(j) /\ i \notin below(i)
        BY <4>1
      <4>3. IsFiniteSet(g) /\ below(j) \in SUBSET g
        BY ItemsShape
      <4>4. IsFiniteSet(below(j))
        <5> HIDE DEF below
        <5> QED BY <4>3, FS_Subset
      <4> HIDE DEF below
      <4> QED BY <4>2, <4>4, FS_Subset
    <3>4. p[1] = q[1]
      <4> HIDE DEF below
      <4>1. ~(p[1] < q[1]) /\ ~(q[1] < p[1])
        BY <2>3, <3>2, <3>3
      <4> QED BY <2>3, <4>1
    <3>5. WellFormedOps(l[p[1]].ops)
      BY <2>3, LineShape
    <3>6. p[2] = q[2]
      BY <2>3, <2>4, <3>1, <3>4, <3>5 DEF WellFormedOps, ItemAt
    <3>7. p = q
      BY <2>3, <3>4, <3>6
    <3> QED BY <1>2, <2>1, <2>2, <3>7
  <2> QED BY <2>5, <2>6
<1>9. WellFormedOps(J)
  <2> HIDE DEF J, K
  <2> QED BY <1>1, <1>4, <1>5, <1>6, <1>7, <1>8 DEF WellFormedOps
<1>10. \A n \in DOMAIN K :
              \E p \in Items(l, g) :
                 /\ ItemAt(l, p).rest = J[n].rest
                 /\ ItemAt(l, p).kind = J[n].kind
                 /\ External(ItemAt(l, p)) <=> External(J[n])
  <2> HIDE DEF J, K
  <2> QED BY <1>2, <1>3
<1> QED BY <1>1, <1>9, <1>10

(* The union-find: classes are closed, groups and group modules are         *)
(* classes, and what stands for a group is well formed and defines what     *)
(* its members did.                                                        *)
Classes == {class[i] : i \in DOMAIN line}

Origin(g, op) ==
  \E i \in g : \E m \in DOMAIN line[i].ops :
     /\ line[i].ops[m].rest = op.rest /\ line[i].ops[m].kind = op.kind
     /\ External(line[i].ops[m]) <=> External(op)

StandsIn(g, ops) ==
  WellFormedOps(ops) /\ ~Loses(g, ops) /\ \A k \in DOMAIN ops : Origin(g, ops[k])

GroupInv ==
  /\ line \in Lines
  /\ phase \in {"group", "tags", "names", "classify", "resolve", "done", "failed"}
  /\ class \in [DOMAIN line -> SUBSET DOMAIN line]
  /\ \A i \in DOMAIN line : i \in class[i] /\ \A j \in class[i] : class[j] = class[i]
  /\ edges \subseteq (DOMAIN line) \X (DOMAIN line)
  /\ groups \subseteq Classes
  /\ edges # {} => groups = {} /\ DOMAIN joined = {}
  /\ \A g \in DOMAIN joined : g \in Classes /\ StandsIn(g, joined[g])

(* What the later steps read was taken from the units, which are as well    *)
(* formed as the objects were and define no less.                          *)
UnitsInv ==
  phase # "group" =>
    /\ units \in Seq([path : Seq(Seq(STRING)), ops : Seq(Item)])
    /\ \A i \in DOMAIN units : WellFormedOps(units[i].ops)
    /\ \A i, j \in DOMAIN units : \A k \in DOMAIN units[i].ops, m \in DOMAIN units[j].ops :
         SpelledApart(units[i].ops[k], units[j].ops[m])
    /\ imported = [s \in SymbolsOf(units) |-> [tag |-> Op(s).tag, rest |-> Op(s).rest]]
    /\ shardOf = [s \in SymbolsOf(units) |-> s[1]]
    /\ bound = [u \in UsesOf(units) |-> <<u[1], units[u[1]].ops[u[2]].calls[u[3]].to>>]
    /\ Len(ordinalMaps) = Len(units)
    /\ \A i \in DOMAIN units :
         /\ Len(ordinalMaps[i]) > 0 /\ ordinalMaps[i][1] \in Positions
         /\ Ladder(units[i].path) \in Seq(ModName)
    /\ \A i \in DOMAIN line :
         Provides(line[i].ops) \subseteq UNION {Provides(units[n].ops) : n \in DOMAIN units}

PhaseInv ==
  /\ phase = "group" => tagStep = "collect" /\ shard = 1 /\ renames = {}
  /\ phase \in {"group", "tags"} => nameStep = "first"
  /\ phase \in {"names", "classify", "resolve", "done"} => TagsDone /\ Indices = DOMAIN units
  /\ phase \in {"classify", "resolve", "done"} => NamingDone

-----------------------------------------------------------------------------
Merging == phase \in {"classify", "resolve", "done"}

Visited(s) ==
  phase # "classify" \/ s[1] < cursor[1] \/ (s[1] = cursor[1] /\ s[2] < cursor[2])

(* A definition of the same name, kind and type stands for s.              *)
Replaced(s) ==
  s \in erased /\ \E d \in Bearers(name[s]) :
     Dedupable(s, d) /\ Op(s).model = Op(d).model /\ Op(s).iface = Op(d).iface

DefsInv ==
  /\ cursor \in (Nat \ {0}) \X (Nat \ {0})
  /\ defs \subseteq Symbols
  /\ \A d \in defs : Op(d).kind # "decl" /\ Visited(d) /\ d \notin erased
  /\ \A s \in erased : s \in (Nat \ {0}) \X (Nat \ {0}) /\ Visited(s)
  /\ \A d, e \in defs : ~Sunk(d) /\ ~Sunk(e) /\ name[d] = name[e] => d = e
  /\ \A s \in Symbols : Visited(s) /\ Op(s).kind # "decl" => s \in defs \/ Replaced(s)
  /\ \A s \in Symbols : Op(s).kind # "decl" /\ s \in erased => Replaced(s)

(* No record sinks that anyone outside its unit could name.                *)
SunkInv ==
  \A e \in sunk :
     /\ e[2] \notin Escapes(e[1])
     /\ \E d \in defs : d[1] = e[1] /\ Op(d).kind = "record" /\ Op(d).rest = e[2]

ObligedInv ==
  /\ obligations \in Seq(Symbols)
  /\ \A k \in DOMAIN obligations : Op(obligations[k]).kind = "decl"
  /\ \A s \in Symbols : Visited(s) /\ Op(s).kind = "decl" => s \in Range(obligations)
  /\ \A s \in Symbols : Op(s).kind = "decl" /\ s \in erased => 
       phase # "classify" /\ \E k \in DOMAIN obligations : k < cursor[1] /\ obligations[k] = s

MergeInv ==
  /\ phase \in {"group", "tags", "names"} =>
       /\ cursor = <<1, 1>> /\ defs = {} /\ erased = {} /\ sunk = {} /\ obligations = <<>>
  /\ Merging => DefsInv /\ SunkInv /\ ObligedInv

-----------------------------------------------------------------------------
Resliced == {"slice", "tail", "view"}

(* The definition d takes a slice where the declaration o knew of none.    *)
Widened(o, d) == Op(o).model = "scalar" /\ Op(d).model = "slice"

(* A declaration has met its definition: the types agree, or every call of *)
(* its unit is reshaped or about to be.                                    *)
Met(o) ==
  \E d \in Bearers(name[o]) :
     /\ IsFunction(Op(d)) /\ Op(d).iface = Op(o).iface
     /\ \/ Op(d).model = Op(o).model
        \/ Widened(o, d) /\ \A u \in Uses : bound[u] = o => u \in calls \/ shape[u] \in Resliced

ShapesInv ==
  phase # "group" =>
    /\ shape \in [Uses -> Ways]
    /\ \A u \in Uses :
         \/ shape[u] \in Shapes(Op(bound[u]).model)
         \/ /\ phase \in {"resolve", "done", "failed"} /\ shape[u] \in Resliced
            /\ \E d \in Bearers(name[bound[u]]) : Widened(bound[u], d)

ResolveInv ==
  /\ calls # {} => phase = "resolve"
  /\ phase \in {"resolve", "done"} =>
       /\ calls \subseteq Uses
       /\ \A u \in calls : \E d \in Bearers(name[bound[u]]) : Widened(bound[u], d)
       /\ \A k \in DOMAIN obligations : k < cursor[1] => linkFailed \/ Met(obligations[k])
  /\ phase = "done" => cursor[1] > Len(obligations) /\ calls = {} /\ ~linkFailed


LinkInv ==
  /\ GroupInv /\ UnitsInv /\ PhaseInv /\ TagInv /\ NamingInv
  /\ MergeInv /\ ShapesInv /\ ResolveInv

-----------------------------------------------------------------------------
(* A group module that lost definitions defines less than its members did, *)
(* so it is never kept.                                                    *)
LEMMA LostDefinitionIsALoss ==
  ASSUME line \in Lines, NEW g \in SUBSET DOMAIN line, CanJoin(line, g),
         \A i \in g : line[i].path # <<>>,
         NEW lost, NEW k \in lost, k \in DOMAIN JointImport(line, g),
         Defines(JointImport(line, g)[k])
  PROVE  Loses(g, Without(JointImport(line, g), lost))
<1> DEFINE J == JointImport(line, g)
           less == Without(J, lost)
           f == J[k].rest
<1>1. WellFormedOps(J) /\ J \in Seq(Item)
  BY GroupModuleIsWellFormed DEF WellFormedOps
<1>2. PICK p \in Items(line, g) : /\ ItemAt(line, p).rest = f /\ ItemAt(line, p).kind = J[k].kind
                                  /\ External(ItemAt(line, p))
  BY GroupModuleIsWellFormed DEF Defines
<1>3. p[1] \in g /\ f \in Provides(line[p[1]].ops)
  <2>1. p[1] \in g /\ p[2] \in DOMAIN line[p[1]].ops
    BY ItemsShape
  <2> QED BY <1>2, <2>1 DEF Provides, Defines, ItemAt
<1>4. DOMAIN less = DOMAIN J
  BY DEF Without
<1>5. \A j \in DOMAIN J : j \in lost => less[j].kind \in {"decl", "rejected"}
  <2> SUFFICES ASSUME NEW j \in DOMAIN J, j \in lost PROVE less[j].kind \in {"decl", "rejected"}
    OBVIOUS
  <2>1. J[j] \in Item
    BY <1>1
  <2> QED BY <2>1 DEF Without, Item
<1>6. \A j \in DOMAIN J : j \notin lost =>
         less[j].kind = J[j].kind /\ less[j].tag = J[j].tag /\ less[j].rest = J[j].rest
  <2> SUFFICES ASSUME NEW j \in DOMAIN J, j \notin lost
               PROVE  less[j].kind = J[j].kind /\ less[j].tag = J[j].tag /\ less[j].rest = J[j].rest
    OBVIOUS
  <2>1. J[j] \in Item
    BY <1>1
  <2> QED BY <2>1 DEF Without, Item
<1> HIDE DEF less
<1>7. f \notin Provides(less)
  <2> SUFFICES ASSUME NEW j \in DOMAIN less, Defines(less[j]), less[j].rest = f PROVE FALSE
    BY DEF Provides
  <2>1. j \in DOMAIN J /\ j \notin lost
    BY <1>4, <1>5 DEF Defines
  <2>2. Defines(J[j]) /\ J[j].rest = J[k].rest /\ j # k
    BY <1>6, <2>1 DEF Defines, External
  <2>3. J[j] \in Item /\ J[k] \in Item
    BY <1>1, <2>1
  <2> HIDE DEF J
  <2>4. J[j].tag = J[k].tag
    BY <2>2, <2>3 DEF Defines, External, Item, J
  <2>5. Named(J[j]) /\ Named(J[k])
    BY <2>2 DEF Named, Defines, J
  <2> QED BY <1>1, <2>1, <2>2, <2>4, <2>5 DEF WellFormedOps, J
<1> QED BY <1>3, <1>7 DEF Loses, less

(* A joint import that loses nothing may stand for its group.               *)
LEMMA JointImportStandsIn ==
  ASSUME line \in Lines, NEW g \in SUBSET DOMAIN line, CanJoin(line, g),
         \A i \in g : line[i].path # <<>>, ~Loses(g, JointImport(line, g))
  PROVE  StandsIn(g, JointImport(line, g))
<1>1. ASSUME NEW n \in DOMAIN JointImport(line, g)
      PROVE  Origin(g, JointImport(line, g)[n])
  <2>1. PICK p \in Items(line, g) :
                 /\ ItemAt(line, p).rest = JointImport(line, g)[n].rest
                 /\ ItemAt(line, p).kind = JointImport(line, g)[n].kind
                 /\ External(ItemAt(line, p)) <=> External(JointImport(line, g)[n])
    BY GroupModuleIsWellFormed
  <2>2. p[1] \in g /\ p[2] \in DOMAIN line[p[1]].ops
    BY ItemsShape
  <2> QED BY <2>1, <2>2 DEF Origin, ItemAt
<1> QED BY <1>1, GroupModuleIsWellFormed DEF StandsIn

(* Joining two classes keeps the union-find a partition.                    *)
LEMMA JoinKeepsGroups == GroupInv /\ Join => GroupInv'
<1> SUFFICES ASSUME GroupInv, Join PROVE GroupInv'
  OBVIOUS
<1>1. PICK e \in edges : /\ class' = [i \in DOMAIN class |-> IF i \in class[e[1]] \union class[e[2]]
                                       THEN class[e[1]] \union class[e[2]] ELSE class[i]]
                          /\ edges' = edges \ {e}
                          /\ groups' = IF edges' = {}
                              THEN {class'[i] : i \in {i \in DOMAIN class : Cardinality(class'[i]) > 1}}
                              ELSE {}
  BY DEF Join
<1>2. line' = line /\ joined' = joined /\ phase' = phase /\ DOMAIN joined = {}
  BY DEF Join, GroupInv
<1> DEFINE both == class[e[1]] \union class[e[2]]
<1>3. /\ DOMAIN class = DOMAIN line /\ both \subseteq DOMAIN line
      /\ \A i \in DOMAIN line : class[i] \subseteq DOMAIN line /\ i \in class[i]
      /\ \A i \in DOMAIN line : \A j \in class[i] : class[j] = class[i]
      /\ e[1] \in DOMAIN line /\ e[2] \in DOMAIN line
  BY <1>1 DEF GroupInv
<1>4. \A i \in DOMAIN line : class'[i] = IF i \in both THEN both ELSE class[i]
  BY <1>1, <1>3
<1>5. class' \in [DOMAIN line -> SUBSET DOMAIN line]
  BY <1>1, <1>3
<1>6. \A i \in DOMAIN line : i \in class'[i] /\ \A j \in class'[i] : class'[j] = class'[i]
  <2> SUFFICES ASSUME NEW i \in DOMAIN line
               PROVE  i \in class'[i] /\ \A j \in class'[i] : class'[j] = class'[i]
    OBVIOUS
  <2>1. CASE i \in both
    BY <1>3, <1>4, <2>1
  <2>2. CASE i \notin both
    <3>1. class'[i] = class[i]
      BY <1>4, <2>2
    <3>2. \A j \in class[i] : j \notin both /\ j \in DOMAIN line
      BY <1>3, <2>2
    <3> QED BY <1>3, <1>4, <3>1, <3>2
  <2> QED BY <2>1, <2>2
<1>7. groups' \subseteq Classes'
  BY <1>1, <1>2, <1>3 DEF Classes
<1>8. edges' \subseteq (DOMAIN line) \X (DOMAIN line) /\ (edges' # {} => groups' = {})
  BY <1>1 DEF GroupInv
<1> QED BY <1>2, <1>5, <1>6, <1>7, <1>8 DEF GroupInv

(* What Reimport keeps for a group stands for it.                           *)
LEMMA ReimportKeepsGroups == GroupInv /\ Reimport => GroupInv'
<1> SUFFICES ASSUME GroupInv, Reimport PROVE GroupInv'
  OBVIOUS
<1>1. /\ line' = line /\ class' = class /\ edges' = edges /\ phase' = phase /\ edges = {}
  BY DEF Reimport
<1>2. PICK g \in groups :
         /\ groups' = groups \ {g}
         /\ \/ UNCHANGED joined
            \/ /\ Viable(g) /\ CanJoin(line, g)
               /\ \/ ~Loses(g, JointImport(line, g)) /\ Keep(g, JointImport(line, g))
                  \/ \E lost \in (SUBSET {k \in DOMAIN JointImport(line, g) :
                                            Defines(JointImport(line, g)[k])}) \ {{}} :
                       IF Loses(g, Without(JointImport(line, g), lost)) THEN UNCHANGED joined
                       ELSE Keep(g, Without(JointImport(line, g), lost))
  BY DEF Reimport
<1>3. g \in Classes /\ g \in SUBSET DOMAIN line /\ line \in Lines
  BY DEF GroupInv, Classes
<1>4. joined' = joined \/ (StandsIn(g, JointImport(line, g)) /\ Keep(g, JointImport(line, g)))
  <2> SUFFICES ASSUME joined' # joined PROVE StandsIn(g, JointImport(line, g)) /\ Keep(g, JointImport(line, g))
    OBVIOUS
  <2>1. Viable(g) /\ CanJoin(line, g) /\ \A i \in g : line[i].path # <<>>
    BY <1>2 DEF Viable
  <2>2. \A lost \in SUBSET {k \in DOMAIN JointImport(line, g) : Defines(JointImport(line, g)[k])} :
           lost # {} => Loses(g, Without(JointImport(line, g), lost))
    <3> SUFFICES ASSUME NEW lost \in SUBSET {k \in DOMAIN JointImport(line, g) :
                                               Defines(JointImport(line, g)[k])},
                        NEW k \in lost
                 PROVE  Loses(g, Without(JointImport(line, g), lost))
      OBVIOUS
    <3>1. k \in DOMAIN JointImport(line, g) /\ Defines(JointImport(line, g)[k])
      OBVIOUS
    <3> QED BY <1>3, <2>1, <3>1, LostDefinitionIsALoss
  <2>3. ~Loses(g, JointImport(line, g)) /\ Keep(g, JointImport(line, g))
    <3>1. CASE \E lost \in (SUBSET {k \in DOMAIN JointImport(line, g) :
                                     Defines(JointImport(line, g)[k])}) \ {{}} :
                 IF Loses(g, Without(JointImport(line, g), lost)) THEN UNCHANGED joined
                 ELSE Keep(g, Without(JointImport(line, g), lost))
      <4>1. PICK lost \in (SUBSET {k \in DOMAIN JointImport(line, g) :
                                     Defines(JointImport(line, g)[k])}) \ {{}} :
              IF Loses(g, Without(JointImport(line, g), lost)) THEN UNCHANGED joined
              ELSE Keep(g, Without(JointImport(line, g), lost))
        BY <3>1
      <4>2. Loses(g, Without(JointImport(line, g), lost))
        <5>1. /\ lost \in SUBSET {k \in DOMAIN JointImport(line, g) : Defines(JointImport(line, g)[k])}
              /\ lost # {}
          BY <4>1
        <5> QED BY <5>1, <2>2, Zenon
      <4> QED BY <4>1, <4>2, Zenon
    <3>2. CASE ~Loses(g, JointImport(line, g)) /\ Keep(g, JointImport(line, g))
      BY <3>2
    <3> QED BY <1>2, <3>1, <3>2, Zenon
  <2> QED BY <1>3, <2>1, <2>3, JointImportStandsIn
<1>5. \A h \in DOMAIN joined' : h \in Classes /\ StandsIn(h, joined'[h])
  BY <1>3, <1>4 DEF GroupInv, Keep
<1>6. Classes' = Classes
  BY <1>1 DEF Classes
<1>7. \A h \in DOMAIN joined' : h \in Classes' /\ StandsIn(h, joined[h])'
  BY <1>1, <1>5, <1>6 DEF StandsIn, Loses, Origin
<1>8. groups' \subseteq Classes' /\ edges' = {}
  BY <1>1, <1>2, <1>6 DEF GroupInv
<1> QED BY <1>1, <1>7, <1>8 DEF GroupInv

(* The later phases leave the groups alone.                                 *)
LEMMA GroupsStay ==
  ASSUME GroupInv, UNCHANGED groupVars,
         phase' \in {"group", "tags", "names", "classify", "resolve", "done", "failed"}
  PROVE  GroupInv'
<1>1. /\ line' = line /\ class' = class /\ edges' = edges /\ groups' = groups
      /\ joined' = joined
  BY DEF groupVars
<1>2. \A h \in DOMAIN joined : StandsIn(h, joined[h])'
  BY <1>1 DEF GroupInv, StandsIn, Loses, Origin
<1> QED BY <1>1, <1>2 DEF GroupInv, Classes

-----------------------------------------------------------------------------
(* The shards the merge starts from.                                        *)

(* The members of a finite set of positions in ascending order: the k-th   *)
(* is k or more.                                                           *)
LEMMA AscendingLists ==
  ASSUME NEW S, IsFiniteSet(S), S \subseteq Nat \ {0}
  PROVE  /\ Cardinality(S) \in Nat
         /\ DOMAIN Ascending(S) = 1..Cardinality(S)
         /\ \A k \in 1..Cardinality(S) : Ascending(S)[k] \in S /\ k <= Ascending(S)[k]
         /\ \A x \in S : \E k \in 1..Cardinality(S) : Ascending(S)[k] = x
         /\ \A j, k \in 1..Cardinality(S) : Ascending(S)[j] = Ascending(S)[k] => j = k
<1> DEFINE r == {e \in S \X S : e[1] < e[2]}
           below(x) == {y \in S : <<y, x>> \in r}
<1>1. StrictOrder(S, r)
  BY DEF StrictOrder
<1>2. /\ Cardinality(S) \in Nat
      /\ DOMAIN InOrder(S, r) = 1..Cardinality(S)
      /\ \A k \in 1..Cardinality(S) :
           /\ InOrder(S, r)[k] \in S
           /\ IsFiniteSet(below(InOrder(S, r)[k]))
           /\ Cardinality(below(InOrder(S, r)[k])) = k - 1
      /\ \A x \in S : \E k \in 1..Cardinality(S) : InOrder(S, r)[k] = x
      /\ \A j, k \in 1..Cardinality(S) : InOrder(S, r)[j] = InOrder(S, r)[k] => j = k
  <2> HIDE DEF r
  <2> QED BY <1>1, InOrderLists
<1>3. ASSUME NEW k \in 1..Cardinality(S)
      PROVE  k <= InOrder(S, r)[k]
  <2> DEFINE x == InOrder(S, r)[k]
  <2>1. x \in S /\ Cardinality(below(x)) = k - 1 /\ x \in Nat \ {0}
    <3> HIDE DEF r
    <3> QED BY <1>2
  <2> HIDE DEF x
  <2>2. below(x) \in SUBSET (1..(x - 1))
    <3>1. \A y \in Nat \ {0} : y < x => y \in 1..(x - 1)
      BY <2>1
    <3>2. \A y \in below(x) : y \in Nat \ {0} /\ y < x
      OBVIOUS
    <3> HIDE DEF below
    <3> QED BY <3>1, <3>2
  <2>3. IsFiniteSet(1..(x - 1)) /\ Cardinality(1..(x - 1)) = x - 1
    <3>1. x - 1 \in Nat
      BY <2>1
    <3> DEFINE m == x - 1
    <3>2. m \in Nat
      BY <3>1
    <3> HIDE DEF m
    <3>3. IsFiniteSet(1..m) /\ Cardinality(1..m) = IF 1 > m THEN 0 ELSE m - 1 + 1
      BY <3>2, FS_Interval
    <3>4. Cardinality(1..m) = m
      BY <3>2, <3>3
    <3> QED BY <3>3, <3>4 DEF m
  <2>4. Cardinality(below(x)) <= Cardinality(1..(x - 1))
    <3> HIDE DEF below
    <3> QED BY <2>2, <2>3, FS_Subset
  <2>5. k - 1 <= x - 1 /\ k \in Nat /\ x \in Nat
    BY <2>1, <2>3, <2>4, <1>2
  <2>6. k <= x
    BY <2>5
  <2> QED BY <2>6 DEF x
<1>4. Ascending(S) = InOrder(S, r)
  BY DEF Ascending
<1> HIDE DEF r
<1> QED BY <1>2, <1>3, <1>4

(* The symbols and uses of well-formed units.                              *)
LEMMA UnitsShape ==
  ASSUME NEW us, us \in Seq([path : Seq(Seq(STRING)), ops : Seq(Item)]),
         \A i \in DOMAIN us : WellFormedOps(us[i].ops)
  PROVE  /\ \A s \in SymbolsOf(us) :
              /\ s[1] \in DOMAIN us /\ s[2] \in DOMAIN us[s[1]].ops /\ s = <<s[1], s[2]>>
              /\ s[1] \in Nat \ {0} /\ s[2] \in Nat \ {0}
              /\ us[s[1]].ops[s[2]] \in Item /\ Named(us[s[1]].ops[s[2]])
         /\ \A i \in DOMAIN us : \A k \in DOMAIN us[i].ops :
              Named(us[i].ops[k]) => <<i, k>> \in SymbolsOf(us)
         /\ \A u \in UsesOf(us) :
              LET call == us[u[1]].ops[u[2]].calls[u[3]]
                  to   == <<u[1], call.to>>
              IN  /\ u[1] \in DOMAIN us /\ u[2] \in DOMAIN us[u[1]].ops
                  /\ to \in SymbolsOf(us)
                  /\ us[u[1]].ops[call.to].kind \in {"fn", "decl", "global"}
                  /\ call.arg \in Ways
                  /\ call.arg \in Shapes(us[u[1]].ops[call.to].model)
<1>1. \A i \in DOMAIN us : us[i].ops \in Seq(Item) /\ i \in Nat \ {0}
  <2> DEFINE Unit == [path : Seq(Seq(STRING)), ops : Seq(Item)]
  <2>1. \A x \in Unit : x.ops \in Seq(Item)
    OBVIOUS
  <2>2. us \in Seq(Unit)
    OBVIOUS
  <2> HIDE DEF Unit
  <2>3. DOMAIN us = 1..Len(us) /\ Len(us) \in Nat /\ \A i \in DOMAIN us : us[i] \in Unit
    BY <2>2
  <2> QED BY <2>1, <2>3
<1>2. ASSUME NEW s \in SymbolsOf(us)
      PROVE  /\ s[1] \in DOMAIN us /\ s[2] \in DOMAIN us[s[1]].ops /\ s = <<s[1], s[2]>>
             /\ s[1] \in Nat \ {0} /\ s[2] \in Nat \ {0}
             /\ us[s[1]].ops[s[2]] \in Item /\ Named(us[s[1]].ops[s[2]])
  <2>1. PICK i \in DOMAIN us : s \in {<<i, k>> : k \in {k \in DOMAIN us[i].ops : Named(us[i].ops[k])}}
    BY DEF SymbolsOf
  <2>2. PICK k \in DOMAIN us[i].ops : s = <<i, k>> /\ Named(us[i].ops[k])
    BY <2>1
  <2>3. us[i].ops[k] \in Item /\ k \in Nat \ {0}
    BY <1>1
  <2> QED BY <1>1, <2>2, <2>3
<1>3. ASSUME NEW i \in DOMAIN us, NEW k \in DOMAIN us[i].ops, Named(us[i].ops[k])
      PROVE  <<i, k>> \in SymbolsOf(us)
  BY <1>3 DEF SymbolsOf
<1>4. ASSUME NEW u \in UsesOf(us)
      PROVE  LET call == us[u[1]].ops[u[2]].calls[u[3]]
                 to   == <<u[1], call.to>>
             IN  /\ u[1] \in DOMAIN us /\ u[2] \in DOMAIN us[u[1]].ops
                 /\ to \in SymbolsOf(us)
                 /\ us[u[1]].ops[call.to].kind \in {"fn", "decl", "global"}
                 /\ call.arg \in Ways
                 /\ call.arg \in Shapes(us[u[1]].ops[call.to].model)
  <2>1. PICK i \in DOMAIN us : u \in UNION {{<<i, k, c>> : c \in DOMAIN us[i].ops[k].calls} : k \in DOMAIN us[i].ops}
    BY DEF UsesOf
  <2>2. PICK k \in DOMAIN us[i].ops : u \in {<<i, k, c>> : c \in DOMAIN us[i].ops[k].calls}
    BY <2>1
  <2>3. PICK c \in DOMAIN us[i].ops[k].calls : u = <<i, k, c>>
    BY <2>2
  <2> DEFINE call == us[i].ops[k].calls[c]
  <2>4. us[u[1]].ops[u[2]].calls[u[3]] = call /\ u[1] = i /\ u[2] = k
    BY <2>3
  <2>5. /\ call.to \in DOMAIN us[i].ops /\ us[i].ops[call.to].kind \in {"fn", "decl", "global"}
        /\ call.arg \in Shapes(us[i].ops[call.to].model)
    BY DEF WellFormedOps
  <2>6. us[i].ops[k] \in Item
    BY <1>1
  <2>7. us[i].ops[k].calls \in Seq([to : Nat, arg : Ways])
    BY <2>6 DEF Item
  <2>9. call.arg \in Ways
    <3> DEFINE Call == [to : Nat, arg : Ways]
               cs == us[i].ops[k].calls
    <3>1. cs \in Seq(Call) /\ c \in DOMAIN cs /\ call = cs[c]
      BY <2>7
    <3>2. \A x \in Call : x.arg \in Ways
      OBVIOUS
    <3> HIDE DEF Call, cs
    <3>3. cs[c] \in Call
      BY <3>1
    <3> QED BY <3>1, <3>2, <3>3
  <2>10. Named(us[i].ops[call.to])
    BY <2>5 DEF Named
  <2>11. <<i, call.to>> \in SymbolsOf(us)
    BY <1>3, <2>5, <2>10
  <2> HIDE DEF call
  <2> QED BY <2>4, <2>5, <2>9, <2>11
<1> QED BY <1>2, <1>3, <1>4

(* The shards the merge starts from, as StartTags makes them.              *)
Stands   == Ascending({i \in DOMAIN line : Standing(i)})
NewUnits == [n \in DOMAIN Stands |-> UnitAt(Stands[n])]
NewMaps  == [n \in DOMAIN Stands |-> PositionsAt(Stands[n])]

(* The positions that the shard standing at i was made from.               *)
Members(i) == IF class[i] \in DOMAIN joined THEN class[i] ELSE {i}

(* The standing positions, listed in line order.                            *)
LEMMA StandsAre ==
  ASSUME GroupInv
  PROVE  /\ \E N \in Nat : DOMAIN Stands = 1..N
         /\ \A n \in DOMAIN Stands : Stands[n] \in DOMAIN line /\ Standing(Stands[n])
         /\ \A i \in DOMAIN line : Standing(i) => \E n \in DOMAIN Stands : Stands[n] = i
         /\ \A m, n \in DOMAIN Stands : Stands[m] = Stands[n] => m = n
<1> DEFINE S == {i \in DOMAIN line : Standing(i)}
<1>1. DOMAIN line = 1..Len(line) /\ Len(line) \in Nat /\ IsFiniteSet(DOMAIN line)
  BY LineShape DEF GroupInv
<1>2. IsFiniteSet(S) /\ S \subseteq Nat \ {0}
  BY <1>1, FS_Subset
<1>3. /\ Cardinality(S) \in Nat
      /\ DOMAIN Ascending(S) = 1..Cardinality(S)
      /\ \A k \in 1..Cardinality(S) : Ascending(S)[k] \in S
      /\ \A x \in S : \E k \in 1..Cardinality(S) : Ascending(S)[k] = x
      /\ \A j, k \in 1..Cardinality(S) : Ascending(S)[j] = Ascending(S)[k] => j = k
  <2> HIDE DEF S
  <2> QED BY <1>2, AscendingLists
<1>4. Stands = Ascending(S) /\ \A i : i \in S <=> i \in DOMAIN line /\ Standing(i)
  BY DEF Stands
<1> HIDE DEF S
<1> QED BY <1>3, <1>4

(* Shards that stand apart are made from different positions.              *)
LEMMA MembersApart ==
  ASSUME GroupInv
  PROVE  /\ \A i \in DOMAIN line : i \in Members(i) /\ Members(i) \subseteq DOMAIN line
         /\ \A i, j \in DOMAIN line :
              Standing(i) /\ Standing(j) /\ i # j => Members(i) \intersect Members(j) = {}
         /\ \A i \in DOMAIN line : \E j \in DOMAIN line : Standing(j) /\ i \in Members(j)
<1>1. /\ class \in [DOMAIN line -> SUBSET DOMAIN line]
      /\ \A i \in DOMAIN line : i \in class[i] /\ \A j \in class[i] : class[j] = class[i]
      /\ DOMAIN line \subseteq Nat
  BY LineShape DEF GroupInv
<1>2. \A i \in DOMAIN line : i \in Members(i) /\ Members(i) \subseteq DOMAIN line
  BY <1>1 DEF Members
<1>3. ASSUME NEW i \in DOMAIN line, NEW j \in DOMAIN line, Standing(i), Standing(j), i # j
      PROVE  Members(i) \intersect Members(j) = {}
  <2> SUFFICES ASSUME NEW x \in Members(i), x \in Members(j) PROVE FALSE
    OBVIOUS
  <2>1. CASE class[i] \in DOMAIN joined /\ class[j] \in DOMAIN joined
    <3>1. class[i] = class[x] /\ class[j] = class[x]
      BY <1>1, <2>1 DEF Members
    <3> QED BY <1>3, <2>1, <3>1 DEF Standing
  <2>2. CASE class[i] \notin DOMAIN joined
    BY <1>1, <1>3, <2>2 DEF Members
  <2>3. CASE class[j] \notin DOMAIN joined
    BY <1>1, <1>3, <2>3 DEF Members
  <2> QED BY <2>1, <2>2, <2>3
<1>4. ASSUME NEW i \in DOMAIN line
      PROVE  \E j \in DOMAIN line : Standing(j) /\ i \in Members(j)
  <2>1. CASE class[i] \notin DOMAIN joined
    BY <1>2, <2>1 DEF Standing
  <2>2. CASE class[i] \in DOMAIN joined
    <3> DEFINE j == Min(class[i])
    <3>1. class[i] \subseteq Nat /\ class[i] # {}
      BY <1>1
    <3>2. \E x \in class[i] : \A y \in class[i] : x <= y
      BY <3>1, LeastNatural
    <3>3. j \in class[i]
      BY <3>2 DEF Min
    <3>4. class[j] = class[i] /\ j \in DOMAIN line
      BY <1>1, <3>3
    <3>5. Standing(j) /\ i \in Members(j)
      BY <1>1, <2>2, <3>4 DEF Standing, Members
    <3> QED BY <3>4, <3>5
  <2> QED BY <2>1, <2>2
<1> QED BY <1>2, <1>3, <1>4

(* The ordinal map of a shard holds the positions of its members, none      *)
(* before its place.                                                        *)
LEMMA MapsAt ==
  ASSUME GroupInv, NEW i \in DOMAIN line
  PROVE  /\ PositionsAt(i) \in Seq(Nat) /\ Len(PositionsAt(i)) > 0
         /\ \A k \in DOMAIN PositionsAt(i) :
              /\ k - 1 <= PositionsAt(i)[k] /\ PositionsAt(i)[k] \in Positions
              /\ PositionsAt(i)[k] + 1 \in Members(i)
<1>1. /\ DOMAIN line = 1..Len(line) /\ Len(line) \in Nat /\ IsFiniteSet(DOMAIN line)
      /\ \A j \in DOMAIN line : j - 1 \in Positions /\ j \in Nat \ {0}
  BY LineShape, LinesAssumption DEF GroupInv
<1>2. CASE class[i] \notin DOMAIN joined
  <2>1. PositionsAt(i) = <<i - 1>> /\ Members(i) = {i}
    BY <1>2 DEF PositionsAt, Members
  <2>2. i - 1 \in Nat /\ i - 1 \in Positions /\ (i - 1) + 1 = i
    BY <1>1
  <2>3. <<i - 1>> \in Seq(Nat) /\ Len(<<i - 1>>) > 0 /\ DOMAIN <<i - 1>> = {1} /\ <<i - 1>>[1] = i - 1
    BY <2>2
  <2>4. 1 - 1 <= i - 1
    BY <2>2
  <2> QED BY <2>1, <2>2, <2>3, <2>4
<1>3. CASE class[i] \in DOMAIN joined
  <2> DEFINE g == class[i]
             A == Ascending(g)
             N == Cardinality(g)
  <2>1. g \subseteq DOMAIN line /\ i \in g
    BY DEF GroupInv
  <2>2. IsFiniteSet(g) /\ g \subseteq Nat \ {0}
    BY <1>1, <2>1, FS_Subset
  <2>3. /\ N \in Nat /\ DOMAIN A = 1..N
        /\ \A k \in 1..N : A[k] \in g /\ k <= A[k]
        /\ \E k \in 1..N : A[k] = i
    <3> HIDE DEF g
    <3> QED BY <2>1, <2>2, AscendingLists
  <2>4. PositionsAt(i) = [k \in 1..N |-> A[k] - 1] /\ Members(i) = g
    BY <1>3 DEF PositionsAt, Members
  <2> HIDE DEF g, A, N
  <2>5. \A k \in 1..N : /\ A[k] - 1 \in Nat /\ A[k] - 1 \in Positions /\ (A[k] - 1) + 1 \in g
                        /\ k - 1 <= A[k] - 1
    <3> SUFFICES ASSUME NEW k \in 1..N
                 PROVE  /\ A[k] - 1 \in Nat /\ A[k] - 1 \in Positions /\ (A[k] - 1) + 1 \in g
                        /\ k - 1 <= A[k] - 1
      OBVIOUS
    <3>1. A[k] \in g /\ k <= A[k] /\ A[k] \in Nat \ {0} /\ A[k] \in DOMAIN line
      BY <2>1, <2>2, <2>3
    <3>2. A[k] - 1 \in Positions
      BY <1>1, <3>1
    <3>3. A[k] - 1 \in Nat /\ (A[k] - 1) + 1 = A[k] /\ k - 1 <= A[k] - 1
      BY <2>3, <3>1
    <3> QED BY <3>1, <3>2, <3>3
  <2>6. N > 0
    BY <2>3
  <2>7. PositionsAt(i) \in Seq(Nat) /\ Len(PositionsAt(i)) = N /\ DOMAIN PositionsAt(i) = 1..N
    BY <2>3, <2>4, <2>5
  <2> QED BY <2>4, <2>5, <2>6, <2>7
<1> QED BY <1>2, <1>3

(* A shard is well formed, comes from its members and provides what they    *)
(* did.                                                                     *)
LEMMA UnitsAt ==
  ASSUME GroupInv, NEW i \in DOMAIN line
  PROVE  /\ UnitAt(i) \in [path : Seq(Seq(STRING)), ops : Seq(Item)]
         /\ WellFormedOps(UnitAt(i).ops)
         /\ Ladder(UnitAt(i).path) \in Seq(ModName)
         /\ \A k \in DOMAIN UnitAt(i).ops : Origin(Members(i), UnitAt(i).ops[k])
         /\ \A j \in Members(i) : Provides(line[j].ops) \subseteq Provides(UnitAt(i).ops)
<1> DEFINE Unit == [path : Seq(Seq(STRING)), ops : Seq(Item)]
<1>1. CASE class[i] \notin DOMAIN joined
  <2>1. UnitAt(i) = [path |-> line[i].path, ops |-> line[i].ops] /\ Members(i) = {i}
    BY <1>1 DEF UnitAt, Members
  <2>2. /\ WellFormedOps(line[i].ops) /\ Ladder(line[i].path) \in Seq(ModName)
        /\ line[i].path \in Seq(Seq(STRING)) /\ line[i].ops \in Seq(Item)
    BY LineShape, LinesAssumption DEF GroupInv
  <2>3. UnitAt(i) \in Unit
    BY <2>1, <2>2
  <2>4. \A k \in DOMAIN line[i].ops : Origin({i}, line[i].ops[k])
    BY DEF Origin
  <2>5. UnitAt(i).path = line[i].path /\ UnitAt(i).ops = line[i].ops
    BY <2>1
  <2> HIDE DEF Unit
  <2>6. WellFormedOps(UnitAt(i).ops) /\ Ladder(UnitAt(i).path) \in Seq(ModName)
    BY <2>2, <2>5
  <2>7. /\ \A k \in DOMAIN UnitAt(i).ops : Origin(Members(i), UnitAt(i).ops[k])
        /\ \A j \in Members(i) : Provides(line[j].ops) \subseteq Provides(UnitAt(i).ops)
    BY <2>1, <2>4, <2>5
  <2>8. UnitAt(i) \in [path : Seq(Seq(STRING)), ops : Seq(Item)]
    BY <2>3 DEF Unit
  <2> QED BY <2>6, <2>7, <2>8
<1>2. CASE class[i] \in DOMAIN joined
  <2> DEFINE g == class[i]
  <2>1. UnitAt(i) = [path |-> <<>>, ops |-> joined[g]] /\ Members(i) = g
    BY <1>2 DEF UnitAt, Members
  <2>2. StandsIn(g, joined[g])
    BY <1>2 DEF GroupInv
  <2>3. joined[g] \in Seq(Item)
    BY <2>2 DEF StandsIn, WellFormedOps
  <2>4. Ladder(<<>>) \in Seq(ModName)
    BY DEF Ladder
  <2>5. UnitAt(i) \in Unit
    BY <2>1, <2>3
  <2>6. \A j \in g : Provides(line[j].ops) \subseteq Provides(joined[g])
    BY <2>2 DEF StandsIn, Loses
  <2>7. UnitAt(i).path = <<>> /\ UnitAt(i).ops = joined[g]
    BY <2>1
  <2>8. WellFormedOps(joined[g]) /\ \A k \in DOMAIN joined[g] : Origin(g, joined[g][k])
    BY <2>2 DEF StandsIn
  <2> HIDE DEF Unit, g
  <2>9. WellFormedOps(UnitAt(i).ops) /\ Ladder(UnitAt(i).path) \in Seq(ModName)
    BY <2>4, <2>7, <2>8
  <2>10. /\ \A k \in DOMAIN UnitAt(i).ops : Origin(Members(i), UnitAt(i).ops[k])
         /\ \A j \in Members(i) : Provides(line[j].ops) \subseteq Provides(UnitAt(i).ops)
    BY <2>1, <2>6, <2>7, <2>8
  <2>11. UnitAt(i) \in [path : Seq(Seq(STRING)), ops : Seq(Item)]
    BY <2>5 DEF Unit
  <2> QED BY <2>9, <2>10, <2>11
<1> QED BY <1>1, <1>2

(* The units StartTags makes, one for each standing position.               *)
LEMMA StartUnits ==
  ASSUME GroupInv
  PROVE  /\ NewUnits \in Seq([path : Seq(Seq(STRING)), ops : Seq(Item)])
         /\ DOMAIN NewUnits = DOMAIN Stands /\ DOMAIN NewMaps = DOMAIN Stands
         /\ Len(NewMaps) = Len(NewUnits) /\ NewMaps \in Seq(Seq(Nat))
         /\ \A n \in DOMAIN NewUnits :
              /\ NewUnits[n] = UnitAt(Stands[n]) /\ NewMaps[n] = PositionsAt(Stands[n])
              /\ Stands[n] \in DOMAIN line /\ Standing(Stands[n])
<1>1. PICK N \in Nat : DOMAIN Stands = 1..N
  BY StandsAre
<1>2. \A n \in 1..N : Stands[n] \in DOMAIN line /\ Standing(Stands[n])
  BY <1>1, StandsAre
<1> DEFINE Unit == [path : Seq(Seq(STRING)), ops : Seq(Item)]
<1>3. \A n \in 1..N : UnitAt(Stands[n]) \in Unit /\ PositionsAt(Stands[n]) \in Seq(Nat)
  BY <1>2, UnitsAt, MapsAt
<1>4. /\ NewUnits = [n \in 1..N |-> UnitAt(Stands[n])]
      /\ NewMaps = [n \in 1..N |-> PositionsAt(Stands[n])]
  BY <1>1 DEF NewUnits, NewMaps
<1> HIDE DEF Unit
<1>5. NewUnits \in Seq(Unit) /\ NewMaps \in Seq(Seq(Nat)) /\ Len(NewMaps) = N /\ Len(NewUnits) = N
  BY <1>3, <1>4
<1>6. NewUnits \in Seq([path : Seq(Seq(STRING)), ops : Seq(Item)])
  BY <1>5 DEF Unit
<1>7. /\ DOMAIN NewUnits = DOMAIN Stands /\ DOMAIN NewMaps = DOMAIN Stands
      /\ \A n \in DOMAIN NewUnits :
              /\ NewUnits[n] = UnitAt(Stands[n]) /\ NewMaps[n] = PositionsAt(Stands[n])
              /\ Stands[n] \in DOMAIN line /\ Standing(Stands[n])
  BY <1>1, <1>2, <1>4
<1> QED BY <1>5, <1>6, <1>7

(* They are well formed, have disjoint ordinal maps, and spell functions    *)
(* apart.                                                                   *)
LEMMA StartIsGood ==
  ASSUME GroupInv
  PROVE  /\ \A n \in DOMAIN NewUnits :
              /\ WellFormedOps(NewUnits[n].ops) /\ Ladder(NewUnits[n].path) \in Seq(ModName)
              /\ Len(NewMaps[n]) > 0 /\ NewMaps[n][1] \in Positions
              /\ \A k \in DOMAIN NewMaps[n] : k - 1 <= NewMaps[n][k]
         /\ \A m, n \in DOMAIN NewUnits : m # n =>
              \A k \in DOMAIN NewMaps[m], l \in DOMAIN NewMaps[n] : NewMaps[m][k] # NewMaps[n][l]
         /\ \A m, n \in DOMAIN NewUnits : \A k \in DOMAIN NewUnits[m].ops, l \in DOMAIN NewUnits[n].ops :
              SpelledApart(NewUnits[m].ops[k], NewUnits[n].ops[l])
         /\ \A i \in DOMAIN line :
              Provides(line[i].ops) \subseteq UNION {Provides(NewUnits[n].ops) : n \in DOMAIN NewUnits}
<1>1. ASSUME NEW n \in DOMAIN NewUnits
      PROVE  /\ WellFormedOps(NewUnits[n].ops) /\ Ladder(NewUnits[n].path) \in Seq(ModName)
             /\ Len(NewMaps[n]) > 0 /\ NewMaps[n][1] \in Positions
             /\ \A k \in DOMAIN NewMaps[n] : k - 1 <= NewMaps[n][k]
  <2> DEFINE i == Stands[n]
  <2>1. NewUnits[n] = UnitAt(i) /\ NewMaps[n] = PositionsAt(i) /\ i \in DOMAIN line
    BY StartUnits
  <2> HIDE DEF i
  <2>2. WellFormedOps(UnitAt(i).ops) /\ Ladder(UnitAt(i).path) \in Seq(ModName)
    BY <2>1, UnitsAt
  <2>3. /\ PositionsAt(i) \in Seq(Nat) /\ Len(PositionsAt(i)) > 0
        /\ \A k \in DOMAIN PositionsAt(i) :
              k - 1 <= PositionsAt(i)[k] /\ PositionsAt(i)[k] \in Positions
    BY <2>1, MapsAt
  <2>4. 1 \in DOMAIN PositionsAt(i)
    <3> DEFINE m == PositionsAt(i)
    <3>1. m \in Seq(Nat) /\ Len(m) > 0
      BY <2>3
    <3> HIDE DEF m
    <3>2. 1 \in DOMAIN m
      BY <3>1
    <3> QED BY <3>2 DEF m
  <2> QED BY <2>1, <2>2, <2>3, <2>4
<1>2. ASSUME NEW m \in DOMAIN NewUnits, NEW n \in DOMAIN NewUnits, m # n
      PROVE  \A k \in DOMAIN NewMaps[m], l \in DOMAIN NewMaps[n] : NewMaps[m][k] # NewMaps[n][l]
  <2> DEFINE i == Stands[m]
             j == Stands[n]
  <2>1. /\ NewMaps[m] = PositionsAt(i) /\ NewMaps[n] = PositionsAt(j) /\ i \in DOMAIN line
        /\ j \in DOMAIN line /\ Standing(i) /\ Standing(j) /\ m \in DOMAIN Stands /\ n \in DOMAIN Stands
    BY StartUnits
  <2>2. i # j
    BY <1>2, <2>1, StandsAre
  <2> HIDE DEF i, j
  <2>3. Members(i) \intersect Members(j) = {}
    BY <2>1, <2>2, MembersApart
  <2>4. /\ \A k \in DOMAIN PositionsAt(i) : PositionsAt(i)[k] + 1 \in Members(i)
        /\ \A k \in DOMAIN PositionsAt(j) : PositionsAt(j)[k] + 1 \in Members(j)
    BY <2>1, MapsAt
  <2> QED BY <2>1, <2>3, <2>4
<1>3. ASSUME NEW m \in DOMAIN NewUnits, NEW n \in DOMAIN NewUnits,
             NEW k \in DOMAIN NewUnits[m].ops, NEW l \in DOMAIN NewUnits[n].ops
      PROVE  SpelledApart(NewUnits[m].ops[k], NewUnits[n].ops[l])
  <2> DEFINE i == Stands[m]
             j == Stands[n]
             a == NewUnits[m].ops[k]
             b == NewUnits[n].ops[l]
  <2>1. /\ NewUnits[m] = UnitAt(i) /\ NewUnits[n] = UnitAt(j) /\ i \in DOMAIN line
        /\ j \in DOMAIN line
    BY StartUnits
  <2>2. Origin(Members(i), a) /\ Members(i) \subseteq DOMAIN line
    <3> HIDE DEF i, j
    <3> QED BY <2>1, UnitsAt, MembersApart
  <2>3. Origin(Members(j), b) /\ Members(j) \subseteq DOMAIN line
    <3> HIDE DEF i, j
    <3> QED BY <2>1, UnitsAt, MembersApart
  <2> HIDE DEF i, j, a, b
  <2>4. PICK x \in DOMAIN line : \E c \in DOMAIN line[x].ops :
          /\ line[x].ops[c].rest = a.rest /\ line[x].ops[c].kind = a.kind
          /\ External(line[x].ops[c]) <=> External(a)
    BY <2>2 DEF Origin
  <2>5. PICK c \in DOMAIN line[x].ops :
          /\ line[x].ops[c].rest = a.rest /\ line[x].ops[c].kind = a.kind
          /\ External(line[x].ops[c]) <=> External(a)
    BY <2>4
  <2>6. PICK y \in DOMAIN line : \E d \in DOMAIN line[y].ops :
          /\ line[y].ops[d].rest = b.rest /\ line[y].ops[d].kind = b.kind
          /\ External(line[y].ops[d]) <=> External(b)
    BY <2>3 DEF Origin
  <2>7. PICK d \in DOMAIN line[y].ops :
          /\ line[y].ops[d].rest = b.rest /\ line[y].ops[d].kind = b.kind
          /\ External(line[y].ops[d]) <=> External(b)
    BY <2>6
  <2>8. SpelledApart(line[x].ops[c], line[y].ops[d])
    BY LinesAssumption DEF GroupInv
  <2>9. SpelledApart(a, b)
    BY <2>5, <2>7, <2>8 DEF SpelledApart, Named, IsFunction
  <2> QED BY <2>9 DEF a, b
<1>4. ASSUME NEW i \in DOMAIN line
      PROVE  Provides(line[i].ops) \subseteq UNION {Provides(NewUnits[n].ops) : n \in DOMAIN NewUnits}
  <2>1. PICK j \in DOMAIN line : Standing(j) /\ i \in Members(j)
    BY MembersApart
  <2>2. PICK n \in DOMAIN NewUnits : NewUnits[n] = UnitAt(j)
    <3>1. PICK n \in DOMAIN Stands : Stands[n] = j
      BY <2>1, StandsAre
    <3>2. n \in DOMAIN NewUnits /\ NewUnits[n] = UnitAt(Stands[n])
      BY StartUnits
    <3> QED BY <3>1, <3>2
  <2>3. Provides(line[i].ops) \subseteq Provides(NewUnits[n].ops)
    BY <2>1, <2>2, UnitsAt
  <2> QED BY <2>3
<1> QED BY <1>1, <1>2, <1>3, <1>4

(* What the renaming of the tags asks of the units.                        *)
LEMMA UnitsAreWellFormed ==
  ASSUME UnitsInv, phase # "group", ordinalMaps \in Seq(Seq(Nat))
  PROVE  WellFormed
<1>1. /\ units \in Seq([path : Seq(Seq(STRING)), ops : Seq(Item)])
      /\ \A i \in DOMAIN units : WellFormedOps(units[i].ops)
      /\ imported = [s \in SymbolsOf(units) |-> [tag |-> Op(s).tag, rest |-> Op(s).rest]]
      /\ shardOf = [s \in SymbolsOf(units) |-> s[1]]
      /\ bound = [u \in UsesOf(units) |-> <<u[1], units[u[1]].ops[u[2]].calls[u[3]].to>>]
      /\ Len(ordinalMaps) = Len(units)
  BY DEF UnitsInv
<1>2. /\ \A s \in SymbolsOf(units) :
              /\ s[1] \in DOMAIN units /\ s[2] \in DOMAIN units[s[1]].ops /\ s = <<s[1], s[2]>>
              /\ s[1] \in Nat \ {0} /\ s[2] \in Nat \ {0}
              /\ Op(s) \in Item /\ Named(Op(s))
      /\ \A u \in UsesOf(units) : <<u[1], units[u[1]].ops[u[2]].calls[u[3]].to>> \in SymbolsOf(units)
  BY <1>1, UnitsShape DEF Op
<1>3. Symbols = SymbolsOf(units) /\ Uses = UsesOf(units)
  BY <1>1 DEF Symbols, Uses
<1>4. imported \in [Symbols -> Names]
  <2>1. \A op \in Item : [tag |-> op.tag, rest |-> op.rest] \in Names
    BY DEF Item, Names, Untagged
  <2> QED BY <1>1, <1>2, <1>3, <2>1
<1>5. DOMAIN units = 1..Len(units)
  <2> DEFINE Unit == [path : Seq(Seq(STRING)), ops : Seq(Item)]
  <2>1. units \in Seq(Unit)
    BY <1>1
  <2> HIDE DEF Unit
  <2> QED BY <2>1
<1>6. shardOf \in [Symbols -> Shards]
  BY <1>1, <1>2, <1>3, <1>5 DEF Shards
<1>7. bound \in [Uses -> Symbols]
  BY <1>1, <1>2, <1>3
<1>8. ASSUME NEW s \in Symbols, NEW t \in Symbols, shardOf[s] = shardOf[t], imported[s] = imported[t]
      PROVE  s = t
  <2>1. s[1] = t[1] /\ Op(s).tag = Op(t).tag /\ Op(s).rest = Op(t).rest
    BY <1>1, <1>3, <1>8
  <2>2. s[2] = t[2]
    <3> DEFINE ops == units[s[1]].ops
    <3>1. /\ s[1] \in DOMAIN units /\ s[2] \in DOMAIN ops /\ t[2] \in DOMAIN ops
          /\ Named(ops[s[2]]) /\ Named(ops[t[2]])
          /\ ops[s[2]].tag = ops[t[2]].tag /\ ops[s[2]].rest = ops[t[2]].rest
      BY <1>2, <1>3, <2>1 DEF Op
    <3>2. WellFormedOps(ops)
      BY <1>1, <3>1
    <3> HIDE DEF ops
    <3> QED BY <3>1, <3>2 DEF WellFormedOps
  <2> QED BY <1>2, <1>3, <2>1, <2>2
<1> QED BY <1>4, <1>6, <1>7, <1>8 DEF WellFormed

(* What StartTags leaves to be read.                                        *)
LEMMA StartedUnits ==
  ASSUME StartTags
  PROVE  /\ units' = NewUnits /\ ordinalMaps' = NewMaps /\ line' = line /\ phase' = "tags"
         /\ imported' = [s \in SymbolsOf(units') |->
                           [tag |-> Op(s)'.tag, rest |-> Op(s)'.rest]]
         /\ shardOf' = [s \in SymbolsOf(units') |-> s[1]]
         /\ bound' = [u \in UsesOf(units') |-> <<u[1], units'[u[1]].ops[u[2]].calls[u[3]].to>>]
         /\ shape' = [u \in UsesOf(units') |-> units'[u[1]].ops[u[2]].calls[u[3]].arg]
<1>1. /\ units' = NewUnits /\ ordinalMaps' = NewMaps /\ line' = line /\ phase' = "tags"
  BY DEF StartTags, NewUnits, NewMaps, Stands, groupVars
<1>2. \A s : Op(s)' = units'[s[1]].ops[s[2]]
  BY DEF Op
<1> QED BY <1>1, <1>2 DEF StartTags

(* StartTags makes the units UnitsInv speaks of.                            *)
LEMMA StartTagsUnits == GroupInv /\ StartTags => UnitsInv'
<1> SUFFICES ASSUME GroupInv, StartTags PROVE UnitsInv'
  OBVIOUS
<1>1. /\ units' = NewUnits /\ ordinalMaps' = NewMaps /\ line' = line /\ phase' = "tags"
      /\ imported' = [s \in SymbolsOf(units') |->
                           [tag |-> Op(s)'.tag, rest |-> Op(s)'.rest]]
      /\ shardOf' = [s \in SymbolsOf(units') |-> s[1]]
      /\ bound' = [u \in UsesOf(units') |-> <<u[1], units'[u[1]].ops[u[2]].calls[u[3]].to>>]
  BY StartedUnits
<1>2. /\ units' \in Seq([path : Seq(Seq(STRING)), ops : Seq(Item)])
      /\ Len(ordinalMaps') = Len(units')
  BY <1>1, StartUnits
<1>3. /\ \A n \in DOMAIN units' :
              /\ WellFormedOps(units'[n].ops) /\ Ladder(units'[n].path) \in Seq(ModName)
              /\ Len(ordinalMaps'[n]) > 0 /\ ordinalMaps'[n][1] \in Positions
      /\ \A m, n \in DOMAIN units' : \A k \in DOMAIN units'[m].ops, l \in DOMAIN units'[n].ops :
              SpelledApart(units'[m].ops[k], units'[n].ops[l])
      /\ \A i \in DOMAIN line' :
              Provides(line'[i].ops) \subseteq UNION {Provides(units'[n].ops) : n \in DOMAIN units'}
  BY <1>1, StartIsGood
<1> QED BY <1>1, <1>2, <1>3 DEF UnitsInv

(* The renaming starts from a well-formed set of symbols and positions.     *)
LEMMA StartTagsTags == GroupInv /\ PhaseInv /\ StartTags => TagInv'
<1> SUFFICES ASSUME GroupInv, PhaseInv, StartTags PROVE TagInv'
  OBVIOUS
<1>1. /\ ordinalMaps' = NewMaps /\ phase' = "tags"
  BY StartedUnits
<1>2. (ordinalMaps \in Seq(Seq(Nat)))' /\ (phase # "group")'
  BY <1>1, StartUnits
<1>3. UnitsInv'
  BY StartTagsUnits
<1>4. WellFormed'
  BY <1>2, <1>3, UnitsAreWellFormed, PTL
<1>5. PositionsOK'
  <2>1. Shards' = DOMAIN NewUnits
    <3>1. NewMaps \in Seq(Seq(Nat)) /\ DOMAIN NewUnits = DOMAIN NewMaps
      BY StartUnits
    <3> QED BY <1>1, <3>1 DEF Shards
  <2> QED BY <1>1, <2>1, StartIsGood DEF PositionsOK
<1>6. TagStart'
  <2>1. /\ name' = imported' /\ shard' = 1 /\ renames' = {} /\ tagStep' = "collect"
        /\ bound' = [u \in UsesOf(units') |-> <<u[1], units'[u[1]].ops[u[2]].calls[u[3]].to>>]
        /\ use' = [u \in UsesOf(units') |-> imported'[bound'[u]]]
    BY DEF StartTags, PhaseInv
  <2>2. Uses' = UsesOf(units')
    BY <2>1 DEF Uses
  <2> QED BY <2>1, <2>2 DEF TagStart
<1> QED BY <1>4, <1>5, <1>6, InitTagInv, PTL

(* Every call is shaped for the item of its unit when the link starts.      *)
LEMMA StartTagsShapes == GroupInv /\ StartTags => ShapesInv'
<1> SUFFICES ASSUME GroupInv, StartTags PROVE ShapesInv'
  OBVIOUS
<1>1. /\ units' = NewUnits
      /\ bound' = [u \in UsesOf(units') |-> <<u[1], units'[u[1]].ops[u[2]].calls[u[3]].to>>]
      /\ shape' = [u \in UsesOf(units') |-> units'[u[1]].ops[u[2]].calls[u[3]].arg]
  BY StartedUnits
<1>2. Uses' = UsesOf(NewUnits)
  BY <1>1 DEF Uses
<1>3. \A u \in UsesOf(NewUnits) :
              LET call == NewUnits[u[1]].ops[u[2]].calls[u[3]]
              IN  /\ call.arg \in Ways
                  /\ call.arg \in Shapes(NewUnits[u[1]].ops[call.to].model)
  BY StartUnits, StartIsGood, UnitsShape
<1>4. shape' \in [Uses' -> Ways]
  BY <1>1, <1>2, <1>3
<1>5. \A u \in Uses' : shape'[u] \in Shapes(Op(bound[u])'.model)
  <2> SUFFICES ASSUME NEW u \in UsesOf(NewUnits)
               PROVE  shape'[u] \in Shapes(Op(bound[u])'.model)
    BY <1>2
  <2>1. Op(bound[u])' = NewUnits[u[1]].ops[NewUnits[u[1]].ops[u[2]].calls[u[3]].to]
    BY <1>1 DEF Op
  <2> QED BY <1>1, <1>3, <2>1
<1> QED BY <1>4, <1>5 DEF ShapesInv

-----------------------------------------------------------------------------
(* The steps that leave an invariant alone, and those that make it.         *)

(* The steps of the merge proper leave the line, the units, the tags and   *)
(* the module names alone.                                                 *)
MergeStep ==
  \/ Header \/ Oblige \/ Define \/ EndShard \/ StartResolve
  \/ Discharge \/ Refuse \/ Adapt \/ Reslice \/ AskFence \/ WalkFence \/ Lend \/ EndLink

(* What those steps may change.                                             *)
LEMMA MergeStepFrame ==
  ASSUME MergeStep
  PROVE  /\ UNCHANGED groupVars /\ units' = units /\ UNCHANGED tagVars /\ UNCHANGED nameVars
         /\ \/ phase' = phase
            \/ phase \in {"classify", "resolve"} /\ phase' \in {"resolve", "done", "failed"}
<1>1. CASE Header \/ Oblige \/ EndShard
  BY <1>1 DEF Header, Oblige, EndShard
<1>2. CASE Define
  BY <1>2 DEF Define, AtItem
<1>3. CASE StartResolve \/ EndLink
  BY <1>3 DEF StartResolve, EndLink
<1>4. CASE Discharge \/ Refuse \/ Adapt
  BY <1>4 DEF Discharge, Refuse, Adapt
<1>5. CASE Reslice \/ AskFence \/ WalkFence \/ Lend
  BY <1>5 DEF Reslice, AskFence, WalkFence, Lend
<1> QED BY <1>1, <1>2, <1>3, <1>4, <1>5 DEF MergeStep

Phases == {"group", "tags", "names", "classify", "resolve", "done", "failed"}

(* Every step of the link keeps GroupInv.                                   *)
LEMMA NextKeepsGroups == GroupInv /\ LinkNext => GroupInv'
<1> SUFFICES ASSUME GroupInv, LinkNext PROVE GroupInv'
  OBVIOUS
<1>1. CASE Join
  BY <1>1, JoinKeepsGroups
<1>2. CASE Reimport
  BY <1>2, ReimportKeepsGroups
<1>3. CASE StartTags \/ Tags \/ StartNames \/ Naming \/ StartClassify
  <2>1. UNCHANGED groupVars /\ (phase' = phase \/ phase' \in Phases)
    BY <1>3 DEF StartTags, Tags, StartNames, Naming, StartClassify, Phases
  <2>2. phase \in Phases
    BY DEF GroupInv, Phases
  <2> QED BY <2>1, <2>2, GroupsStay DEF Phases
<1>4. CASE MergeStep
  <2>1. UNCHANGED groupVars /\ (phase' = phase \/ phase' \in Phases)
    BY <1>4, MergeStepFrame DEF Phases
  <2>2. phase \in Phases
    BY DEF GroupInv, Phases
  <2> QED BY <2>1, <2>2, GroupsStay DEF Phases
<1> QED BY <1>1, <1>2, <1>3, <1>4 DEF LinkNext, MergeStep

(* UnitsInv holds as long as what it reads stays.                           *)
LEMMA UnitsStay ==
  ASSUME UnitsInv, units' = units, line' = line, imported' = imported, shardOf' = shardOf,
         bound' = bound, ordinalMaps' = ordinalMaps, phase' # "group" => phase # "group"
  PROVE  UnitsInv'
<1> SUFFICES ASSUME phase' # "group" PROVE UnitsInv'
  BY DEF UnitsInv
<1>1. phase # "group" /\ \A s : Op(s)' = Op(s)
  BY DEF Op
<1>2. imported' = [s \in SymbolsOf(units)' |-> [tag |-> Op(s)'.tag, rest |-> Op(s)'.rest]]
  <2>1. imported = [s \in SymbolsOf(units) |-> [tag |-> Op(s).tag, rest |-> Op(s).rest]]
    BY <1>1 DEF UnitsInv
  <2>2. imported' = [s \in SymbolsOf(units') |-> [tag |-> Op(s).tag, rest |-> Op(s).rest]]
    BY <2>1
  <2> QED BY <1>1, <2>2
<1>3. /\ shardOf' = [s \in SymbolsOf(units)' |-> s[1]]
      /\ bound' = [u \in UsesOf(units)' |-> <<u[1], units'[u[1]].ops[u[2]].calls[u[3]].to>>]
  BY <1>1 DEF UnitsInv
<1>4. /\ (units \in Seq([path : Seq(Seq(STRING)), ops : Seq(Item)]))'
      /\ (\A i \in DOMAIN units : WellFormedOps(units[i].ops))'
      /\ (\A i, j \in DOMAIN units : \A k \in DOMAIN units[i].ops, m \in DOMAIN units[j].ops :
             SpelledApart(units[i].ops[k], units[j].ops[m]))'
  BY <1>1 DEF UnitsInv
<1>5. (Len(ordinalMaps) = Len(units))'
  BY <1>1 DEF UnitsInv
<1>6. (\A i \in DOMAIN units :
         /\ Len(ordinalMaps[i]) > 0 /\ ordinalMaps[i][1] \in Positions
         /\ Ladder(units[i].path) \in Seq(ModName))'
  BY <1>1 DEF UnitsInv
<1>7. (\A i \in DOMAIN line :
         Provides(line[i].ops) \subseteq UNION {Provides(units[n].ops) : n \in DOMAIN units})'
  <2>1. \A i \in DOMAIN line :
         Provides(line[i].ops) \subseteq UNION {Provides(units[n].ops) : n \in DOMAIN units}
    BY <1>1 DEF UnitsInv
  <2> QED BY <2>1
<1> QED BY <1>2, <1>3, <1>4, <1>5, <1>6, <1>7 DEF UnitsInv

(* Every step keeps UnitsInv.                                               *)
LEMMA NextKeepsUnits == GroupInv /\ UnitsInv /\ LinkNext => UnitsInv'
<1> SUFFICES ASSUME GroupInv, UnitsInv, LinkNext PROVE UnitsInv'
  OBVIOUS
<1>1. CASE Join \/ Reimport
  BY <1>1 DEF Join, Reimport, UnitsInv
<1>2. CASE StartTags
  BY <1>2, StartTagsUnits
<1>3. CASE Tags
  <2>1. /\ units' = units /\ line' = line /\ UNCHANGED shardVars /\ phase # "group"
    BY <1>3 DEF Tags, groupVars, TagNext, Collect, RejectShard, Rename, RewriteTexts
  <2> QED BY <2>1, UnitsStay DEF shardVars
<1>4. CASE StartNames \/ Naming \/ StartClassify
  <2>1. units' = units /\ line' = line /\ UNCHANGED tagVars /\ phase # "group"
    BY <1>4 DEF StartNames, Naming, StartClassify, groupVars
  <2> QED BY <2>1, UnitsStay DEF tagVars, shardVars
<1>5. CASE MergeStep
  <2>1. units' = units /\ UNCHANGED groupVars /\ UNCHANGED tagVars
        /\ (phase' # "group" => phase # "group")
    BY <1>5, MergeStepFrame
  <2> QED BY <2>1, UnitsStay DEF tagVars, shardVars, groupVars
<1> QED BY <1>1, <1>2, <1>3, <1>4, <1>5 DEF LinkNext, MergeStep

(* Every step keeps TagInv: the tags phase by the steps of LinkTags,        *)
(* StartTags by starting it, the others by leaving it alone.                *)
LEMMA NextKeepsTags == GroupInv /\ PhaseInv /\ TagInv /\ LinkNext => TagInv'
<1> SUFFICES ASSUME GroupInv, PhaseInv, TagInv, LinkNext PROVE TagInv'
  OBVIOUS
<1>1. CASE StartTags
  BY <1>1, StartTagsTags
<1>2. CASE Tags
  BY <1>2, CollectKeeps, RejectKeeps, RenameKeeps, RewriteTextsKeeps DEF Tags, TagNext
<1>3. CASE Join \/ Reimport \/ StartNames \/ Naming \/ StartClassify
  <2>1. UNCHANGED tagVars
    BY <1>3 DEF Join, Reimport, StartNames, Naming, StartClassify
  <2> QED BY <2>1, StutterKeepsTags
<1>4. CASE MergeStep
  BY <1>4, MergeStepFrame, StutterKeepsTags
<1> QED BY <1>1, <1>2, <1>3, <1>4 DEF LinkNext, MergeStep

(* The naming starts from names that a link line can have.                 *)
LEMMA StartNamesNames == UnitsInv /\ PhaseInv /\ TagInv /\ NamingInv /\ StartNames => NamingInv'
<1> SUFFICES ASSUME UnitsInv, PhaseInv, TagInv, NamingInv, StartNames PROVE NamingInv'
  OBVIOUS
<1>1. /\ ladder' = [i \in DOMAIN units |-> Ladder(units[i].path)]
      /\ ordinal' = [i \in DOMAIN units |-> ordinalMaps[i][1]]
      /\ modNames' = [i \in DOMAIN units |-> NoName]
      /\ rank' = [i \in DOMAIN units |-> 1]
      /\ assigned' = assigned /\ pool' = pool /\ wanted' = wanted /\ visits' = visits
      /\ nameStep' = nameStep /\ phase = "tags"
  BY DEF StartNames
<1>2. nameStep = "first" /\ pool = {} /\ assigned = {} /\ visits = {}
  BY <1>1 DEF PhaseInv, NamingInv, Fresh, NamingShape
<1>3. Indices' = DOMAIN units
  BY <1>1 DEF Indices
<1>4. /\ \A i \in DOMAIN units :
           /\ Len(ordinalMaps[i]) > 0 /\ ordinalMaps[i][1] \in Positions
           /\ Ladder(units[i].path) \in Seq(ModName)
      /\ Len(ordinalMaps) = Len(units)
  BY <1>1 DEF UnitsInv
<1>5. DOMAIN units = 1..Len(units) /\ Len(units) \in Nat
  <2> DEFINE Unit == [path : Seq(Seq(STRING)), ops : Seq(Item)]
  <2>1. units \in Seq(Unit)
    BY <1>1 DEF UnitsInv
  <2> HIDE DEF Unit
  <2> QED BY <2>1
<1>6. \A i, j \in DOMAIN units : ordinalMaps[i][1] = ordinalMaps[j][1] => i = j
  <2>1. ordinalMaps \in Seq(Seq(Nat)) /\ DOMAIN units = Shards
    BY <1>4, <1>5 DEF TagInv, Shape, WellFormed, Shards
  <2>2. \A i \in Shards : 1 \in DOMAIN ordinalMaps[i]
    BY <1>4, <2>1 DEF Shards
  <2> QED BY <2>1, <2>2 DEF TagInv, Shape, PositionsOK
<1>7. NamingOK'
  <2>1. ladder' \in [Indices' -> Seq(ModName)]
    BY <1>1, <1>3, <1>4
  <2>2. ordinal' \in [Indices' -> Positions]
    BY <1>1, <1>3, <1>4
  <2>3. \A i, j \in Indices' : ordinal'[i] = ordinal'[j] => i = j
    BY <1>1, <1>3, <1>6
  <2>4. Indices' \subseteq Nat
    BY <1>3, <1>5
  <2> QED BY <2>1, <2>2, <2>3, <2>4 DEF NamingOK
<1>9. NamingShape'
  BY <1>1, <1>2, <1>3, <1>7 DEF NamingShape
<1>10. RungsExist' /\ NamedApart' /\ Fresh'
  BY <1>1, <1>2, <1>3 DEF RungsExist, NamedApart, Fresh
<1> QED BY <1>9, <1>10 DEF NamingInv

(* Every step keeps NamingInv.                                              *)
LEMMA NextKeepsNames == UnitsInv /\ PhaseInv /\ TagInv /\ NamingInv /\ LinkNext => NamingInv'
<1> SUFFICES ASSUME UnitsInv, PhaseInv, TagInv, NamingInv, LinkNext PROVE NamingInv'
  OBVIOUS
<1>1. CASE StartNames
  BY <1>1, StartNamesNames
<1>2. CASE Naming
  BY <1>2, FirstPassKeeps, BeginRoundKeeps, VisitKeeps DEF Naming, NamingNext
<1>3. CASE Join \/ Reimport \/ StartTags \/ Tags \/ StartClassify
  <2>1. UNCHANGED nameVars
    BY <1>3 DEF Join, Reimport, StartTags, Tags, StartClassify
  <2> QED BY <2>1, StutterKeepsNames
<1>4. CASE MergeStep
  BY <1>4, MergeStepFrame, StutterKeepsNames
<1> QED BY <1>1, <1>2, <1>3, <1>4 DEF LinkNext, MergeStep

(* Every step keeps the order of the phases.                                *)
LEMMA NextKeepsPhases == GroupInv /\ PhaseInv /\ LinkNext => PhaseInv'
<1> SUFFICES ASSUME GroupInv, PhaseInv, LinkNext PROVE PhaseInv'
  OBVIOUS
<1>1. phase \in Phases
  BY DEF GroupInv, Phases
<1>2. CASE Join \/ Reimport \/ StartTags
  <2>1. /\ phase = "group" /\ phase' \in {"group", "tags"}
        /\ tagStep' = tagStep /\ shard' = shard /\ renames' = renames /\ nameStep' = nameStep
    BY <1>2 DEF Join, Reimport, StartTags, tagVars, nameVars
  <2> QED BY <2>1 DEF PhaseInv
<1>3. CASE Tags
  <2>1. phase = "tags" /\ phase' \in {"tags", "failed"} /\ nameStep' = nameStep
    BY <1>3 DEF Tags, nameVars
  <2> QED BY <2>1 DEF PhaseInv
<1>4. CASE StartNames
  <2>1. /\ phase = "tags" /\ phase' = "names" /\ TagsDone /\ tagStep' = tagStep /\ shard' = shard
        /\ ordinalMaps' = ordinalMaps /\ units' = units
        /\ ladder' = [i \in DOMAIN units |-> Ladder(units[i].path)]
    BY <1>4 DEF StartNames, tagVars, shardVars
  <2> QED BY <2>1 DEF PhaseInv, TagsDone, Indices
<1>5. CASE Naming
  <2>1. /\ phase = "names" /\ phase' = "names" /\ tagStep' = tagStep /\ shard' = shard
        /\ ordinalMaps' = ordinalMaps /\ units' = units
    BY <1>5 DEF Naming, tagVars, shardVars
  <2>2. ladder' = ladder
    BY <1>5 DEF Naming, NamingNext, FirstPass, BeginRound, Visit, namingInput
  <2> QED BY <2>1, <2>2 DEF PhaseInv, TagsDone, Indices
<1>6. CASE StartClassify
  <2>1. /\ phase = "names" /\ phase' = "classify" /\ tagStep' = tagStep /\ shard' = shard
        /\ ordinalMaps' = ordinalMaps /\ units' = units /\ ladder' = ladder /\ nameStep' = nameStep
        /\ pool' = pool /\ visits' = visits /\ NamingDone
    BY <1>6 DEF StartClassify, tagVars, shardVars, nameVars, namingInput
  <2> QED BY <2>1 DEF PhaseInv, TagsDone, Indices, NamingDone
<1>7. CASE MergeStep
  <2>1. /\ units' = units /\ UNCHANGED tagVars /\ UNCHANGED nameVars
        /\ \/ phase' = phase
           \/ phase \in {"classify", "resolve"} /\ phase' \in {"resolve", "done", "failed"}
    BY <1>7, MergeStepFrame
  <2>2. /\ tagStep' = tagStep /\ shard' = shard /\ ordinalMaps' = ordinalMaps /\ ladder' = ladder
        /\ renames' = renames /\ nameStep' = nameStep /\ pool' = pool /\ visits' = visits
    BY <2>1 DEF tagVars, shardVars, nameVars, namingInput
  <2> QED BY <2>1, <2>2 DEF PhaseInv, TagsDone, Indices, NamingDone
<1> QED BY <1>2, <1>3, <1>4, <1>5, <1>6, <1>7 DEF LinkNext, MergeStep

-----------------------------------------------------------------------------
(* What the merge reads: names, uses and modules are final.                 *)

(* What UnitsInv says of a symbol and of a use.                             *)
LEMMA MergeUnits ==
  ASSUME UnitsInv, phase # "group"
  PROVE  /\ DOMAIN units = 1..Len(units) /\ Len(units) \in Nat
         /\ \A i \in DOMAIN units :
              /\ WellFormedOps(units[i].ops) /\ units[i].ops \in Seq(Item)
              /\ DOMAIN units[i].ops = 1..Len(units[i].ops) /\ Len(units[i].ops) \in Nat
              /\ \A k \in DOMAIN units[i].ops : Named(units[i].ops[k]) => <<i, k>> \in Symbols
         /\ \A s \in Symbols :
              /\ s[1] \in DOMAIN units /\ s[2] \in DOMAIN units[s[1]].ops /\ s = <<s[1], s[2]>>
              /\ s[1] \in Nat \ {0} /\ s[2] \in Nat \ {0}
              /\ Op(s) \in Item /\ Named(Op(s))
              /\ imported[s] = [tag |-> Op(s).tag, rest |-> Op(s).rest] /\ shardOf[s] = s[1]
              /\ Op(s).kind \in {"decl", "record", "enum"} => External(Op(s))
              /\ Op(s).kind = "decl" => Op(s).model # "slice"
         /\ \A u \in Uses :
              /\ bound[u] \in Symbols /\ bound[u][1] = u[1]
              /\ Op(bound[u]).kind \in {"fn", "decl", "global"}
<1> DEFINE Unit == [path : Seq(Seq(STRING)), ops : Seq(Item)]
<1>1. /\ units \in Seq([path : Seq(Seq(STRING)), ops : Seq(Item)])
      /\ \A i \in DOMAIN units : WellFormedOps(units[i].ops)
      /\ imported = [s \in SymbolsOf(units) |-> [tag |-> Op(s).tag, rest |-> Op(s).rest]]
      /\ shardOf = [s \in SymbolsOf(units) |-> s[1]]
      /\ bound = [u \in UsesOf(units) |-> <<u[1], units[u[1]].ops[u[2]].calls[u[3]].to>>]
  BY DEF UnitsInv
<1>2. /\ \A s \in SymbolsOf(units) :
              /\ s[1] \in DOMAIN units /\ s[2] \in DOMAIN units[s[1]].ops /\ s = <<s[1], s[2]>>
              /\ s[1] \in Nat \ {0} /\ s[2] \in Nat \ {0}
              /\ Op(s) \in Item /\ Named(Op(s))
      /\ \A i \in DOMAIN units : \A k \in DOMAIN units[i].ops :
              Named(units[i].ops[k]) => <<i, k>> \in SymbolsOf(units)
      /\ \A u \in UsesOf(units) :
            LET to == units[u[1]].ops[u[2]].calls[u[3]].to
            IN  /\ <<u[1], to>> \in SymbolsOf(units)
                /\ units[u[1]].ops[to].kind \in {"fn", "decl", "global"}
  BY <1>1, UnitsShape DEF Op
<1>3. Symbols = SymbolsOf(units) /\ Uses = UsesOf(units)
  BY <1>1 DEF Symbols, Uses
<1>4. DOMAIN units = 1..Len(units) /\ Len(units) \in Nat
  <2>1. units \in Seq(Unit)
    BY <1>1
  <2> HIDE DEF Unit
  <2> QED BY <2>1
<1>5. \A i \in DOMAIN units : /\ units[i].ops \in Seq(Item)
                              /\ DOMAIN units[i].ops = 1..Len(units[i].ops) /\ Len(units[i].ops) \in Nat
  BY <1>1 DEF WellFormedOps
<1>6. ASSUME NEW s \in Symbols
      PROVE  /\ imported[s] = [tag |-> Op(s).tag, rest |-> Op(s).rest] /\ shardOf[s] = s[1]
             /\ Op(s).kind \in {"decl", "record", "enum"} => External(Op(s))
             /\ Op(s).kind = "decl" => Op(s).model # "slice"
  <2>1. imported[s] = [tag |-> Op(s).tag, rest |-> Op(s).rest] /\ shardOf[s] = s[1]
    BY <1>1, <1>3
  <2> DEFINE ops == units[s[1]].ops
  <2>2. WellFormedOps(ops) /\ s[2] \in DOMAIN ops /\ Op(s) = ops[s[2]]
    BY <1>1, <1>2, <1>3 DEF Op
  <2> HIDE DEF ops
  <2>3. /\ Op(s).kind \in {"decl", "record", "enum"} => External(Op(s))
        /\ Op(s).kind = "decl" => Op(s).model # "slice"
    BY <2>2 DEF WellFormedOps
  <2> QED BY <2>1, <2>3
<1>7. ASSUME NEW u \in Uses
      PROVE  /\ bound[u] \in Symbols /\ bound[u][1] = u[1]
             /\ Op(bound[u]).kind \in {"fn", "decl", "global"}
  BY <1>1, <1>2, <1>3 DEF Op
<1> QED BY <1>1, <1>2, <1>3, <1>4, <1>5, <1>6, <1>7

(* Once the tags are done a name says who is meant: an external symbol      *)
(* keeps its name and a static has one of its own.                         *)
LEMMA FinalNames ==
  ASSUME UnitsInv, PhaseInv, TagInv, Merging, NEW s \in Symbols, NEW t \in Symbols,
         name[s] = name[t]
  PROVE  /\ Op(s).rest = Op(t).rest
         /\ External(Op(s)) <=> External(Op(t))
         /\ ~External(Op(s)) => s = t
         /\ s[1] = t[1] => s = t
         /\ IsFunction(Op(s)) <=> IsFunction(Op(t))
<1>1. phase # "group" /\ TagsDone
  BY DEF Merging, PhaseInv
<1>2. /\ imported[s] = [tag |-> Op(s).tag, rest |-> Op(s).rest] /\ shardOf[s] = s[1]
      /\ imported[t] = [tag |-> Op(t).tag, rest |-> Op(t).rest] /\ shardOf[t] = t[1]
      /\ Op(s) \in Item /\ Op(t) \in Item
      /\ s[1] \in DOMAIN units /\ s[2] \in DOMAIN units[s[1]].ops
      /\ t[1] \in DOMAIN units /\ t[2] \in DOMAIN units[t[1]].ops
      /\ Named(Op(s)) /\ Named(Op(t))
  BY <1>1, MergeUnits
<1>3. /\ Op(s).tag \in Nat \union {-1} /\ Op(t).tag \in Nat \union {-1}
      /\ Ordinal(s) = Op(s).tag /\ Ordinal(t) = Op(t).tag
  BY <1>2 DEF Item, Ordinal
<1>4. name[s] = Final(s) /\ name[t] = Final(t)
  BY <1>1 DEF TagInv, Shape, WellFormed, Shards, NamesSettle, Settled, TagsDone
<1>5. \A x \in {s, t} : Ordinal(x) # Untagged => /\ Final(x).tag \in Nat
                                                /\ Final(x).rest = imported[x].rest
  <2> SUFFICES ASSUME NEW x \in {s, t}, Ordinal(x) # Untagged
               PROVE  Final(x).tag \in Nat /\ Final(x).rest = imported[x].rest
    OBVIOUS
  <2>1. x \in Symbols /\ shardOf[x] \in Shards /\ shardOf[x] < shard /\ WellFormed
    BY <1>1 DEF TagInv, Shape, WellFormed, Shards, TagsDone
  <2>2. Ordinal(x) < Len(ordinalMaps[shardOf[x]])
    BY <2>1 DEF TagInv, Checked, TaggedIn
  <2> QED BY <2>1, <2>2, RenamedIsAName DEF Final
<1>6. \A x \in {s, t} : Ordinal(x) = Untagged => Final(x) = imported[x]
  BY DEF Final
<1>7. \A x \in {s, t} : /\ Final(x).rest = Op(x).rest
                        /\ Op(x).tag = -1 => Final(x).tag = -1
                        /\ Op(x).tag # -1 => Final(x).tag \in Nat
  <2> SUFFICES ASSUME NEW x \in {s, t}
               PROVE  /\ Final(x).rest = Op(x).rest
                      /\ Op(x).tag = -1 => Final(x).tag = -1
                      /\ Op(x).tag # -1 => Final(x).tag \in Nat
    OBVIOUS
  <2>1. imported[x].tag = Op(x).tag /\ imported[x].rest = Op(x).rest /\ Ordinal(x) = Op(x).tag
    BY <1>2, <1>3
  <2>2. CASE Op(x).tag = -1
    BY <1>6, <2>1, <2>2 DEF Untagged
  <2>3. CASE Op(x).tag # -1
    BY <1>5, <2>1, <2>3 DEF Untagged
  <2> QED BY <2>2, <2>3
<1>8. Op(s).rest = Op(t).rest /\ (External(Op(s)) <=> External(Op(t)))
  <2>1. Final(s) = Final(t)
    BY <1>4
  <2>2. Op(s).rest = Op(t).rest
    BY <1>7, <2>1
  <2>3. (Op(s).tag = -1) <=> (Op(t).tag = -1)
    BY <1>7, <2>1
  <2>4. \A x \in {s, t} : External(Op(x)) <=> Op(x).tag = -1
    BY <1>3 DEF External
  <2> QED BY <2>2, <2>3, <2>4
<1>9. ~External(Op(s)) => s = t
  BY <1>1, <1>3, <1>8, StaticsAreApart DEF StaticsNeverMeet, External, Untagged
<1>10. s[1] = t[1] => s = t
  <2> SUFFICES ASSUME s[1] = t[1], External(Op(s)) PROVE s = t
    BY <1>9
  <2>1. Op(s).tag = Op(t).tag
    BY <1>3, <1>8 DEF External
  <2> QED BY <1>2, <1>8, <2>1 DEF TagInv, Shape, WellFormed
<1>11. IsFunction(Op(s)) <=> IsFunction(Op(t))
  <2>1. CASE ~External(Op(s))
    BY <1>9, <2>1
  <2>2. CASE External(Op(s))
    <3>1. SpelledApart(units[s[1]].ops[s[2]], units[t[1]].ops[t[2]])
      BY <1>1, <1>2 DEF UnitsInv
    <3> QED BY <1>2, <1>8, <2>2, <3>1 DEF SpelledApart, Op
  <2> QED BY <2>1, <2>2
<1> QED BY <1>8, <1>9, <1>10, <1>11

(* Two external symbols of one spelling have one name.                     *)
LEMMA ExternalNames ==
  ASSUME UnitsInv, PhaseInv, TagInv, Merging, NEW s \in Symbols, NEW t \in Symbols,
         External(Op(s)), External(Op(t)), Op(s).rest = Op(t).rest
  PROVE  name[s] = name[t]
<1>1. phase # "group" /\ TagsDone
  BY DEF Merging, PhaseInv
<1>2. /\ imported[s] = [tag |-> Op(s).tag, rest |-> Op(s).rest]
      /\ imported[t] = [tag |-> Op(t).tag, rest |-> Op(t).rest]
      /\ Op(s) \in Item /\ Op(t) \in Item
  BY <1>1, MergeUnits
<1>3. Op(s).tag = -1 /\ Op(t).tag = -1
  BY <1>2 DEF Item, External
<1>4. name[s] = imported[s] /\ name[t] = imported[t]
  <2>1. Ordinal(s) = Untagged /\ Ordinal(t) = Untagged
    BY <1>2, <1>3 DEF Ordinal, Untagged
  <2>2. name[s] = Final(s) /\ name[t] = Final(t)
    BY <1>1 DEF TagInv, Shape, WellFormed, Shards, NamesSettle, Settled, TagsDone
  <2> QED BY <2>1, <2>2 DEF Final
<1> QED BY <1>2, <1>3, <1>4

(* Once the tags are done a use names the symbol it is bound to.            *)
LEMMA UsesMean ==
  ASSUME UnitsInv, PhaseInv, TagInv, Merging, NEW u \in Uses
  PROVE  use[u] = name[bound[u]]
<1>1. phase # "group" /\ TagsDone
  BY DEF Merging, PhaseInv
<1>2. bound[u] \in Symbols /\ shard > shardOf[bound[u]]
  BY <1>1 DEF TagInv, Shape, WellFormed, Shards, TagsDone
<1> QED BY <1>2, NothingIsCaptured DEF UsesFollowTheirSymbols

(* Once the names are done every shard has a module of its own.             *)
LEMMA FinalModules ==
  ASSUME PhaseInv, NamingInv, Merging, NEW i \in DOMAIN units
  PROVE  modNames[i] # Root /\ \A j \in DOMAIN units : modNames[i] = modNames[j] => i = j
<1>1. NamingDone /\ Indices = DOMAIN units
  BY DEF Merging, PhaseInv
<1>2. /\ modNames[i] = ByPosition(i) \/ modNames[i] \in assigned
      /\ \A j \in DOMAIN units : modNames[i] = modNames[j] => i = j
  BY <1>1 DEF NamingInv, NamedApart, NamingDone
<1>3. ByPosition(i) \in OrdinalShaped
  BY <1>1, PositionNames DEF NamingInv, NamingShape
<1>4. Root \in Unspellable \ OrdinalShaped
  BY RootIsNoModule DEF Root
<1> QED BY <1>2, <1>3, <1>4 DEF NamingInv, Fresh, Unusable

-----------------------------------------------------------------------------
(* Steps 3 and 4: the classification keeps MergeInv.                        *)

(* What the steps of the merge leave alone.                                *)
LEMMA MergeFrame ==
  ASSUME units' = units, UNCHANGED tagVars, UNCHANGED nameVars
  PROVE  /\ Symbols' = Symbols /\ Uses' = Uses /\ name' = name /\ use' = use /\ bound' = bound
         /\ modNames' = modNames /\ \A s : Op(s)' = Op(s) /\ \A i : Escapes(i)' = Escapes(i)
BY DEF tagVars, shardVars, nameVars, namingInput, Symbols, Uses, Op, Escapes

(* The bearers of a name depend on the definitions kept and the records     *)
(* sunk.                                                                    *)
LEMMA SameBearers ==
  ASSUME units' = units, name' = name, defs' = defs, sunk' = sunk
  PROVE  \A n : Bearers(n)' = Bearers(n)
BY DEF Bearers, Sunk, Op

(* NextItem visits the item at the cursor and no other.                     *)
LEMMA VisitStep ==
  ASSUME phase = "classify", phase' = "classify", cursor \in (Nat \ {0}) \X (Nat \ {0}), NextItem
  PROVE  /\ cursor' \in (Nat \ {0}) \X (Nat \ {0})
         /\ \A s \in (Nat \ {0}) \X (Nat \ {0}) : Visited(s)' <=> (Visited(s) \/ s = cursor)
         /\ ~Visited(cursor)
<1>1. cursor' = <<cursor[1], cursor[2] + 1>> /\ cursor = <<cursor[1], cursor[2]>>
      /\ cursor[1] \in Nat \ {0} /\ cursor[2] \in Nat \ {0}
  BY DEF NextItem
<1>2. cursor' \in (Nat \ {0}) \X (Nat \ {0})
  BY <1>1
<1>3. ASSUME NEW s \in (Nat \ {0}) \X (Nat \ {0})
      PROVE  Visited(s)' <=> (Visited(s) \/ s = cursor)
  <2>1. s = <<s[1], s[2]>> /\ s[1] \in Nat /\ s[2] \in Nat
    OBVIOUS
  <2>2. s = cursor <=> (s[1] = cursor[1] /\ s[2] = cursor[2])
    BY <1>1, <2>1
  <2>3. cursor'[1] = cursor[1] /\ cursor'[2] = cursor[2] + 1
    BY <1>1
  <2>4. Visited(s)' <=> (s[1] < cursor[1] \/ (s[1] = cursor[1] /\ s[2] < cursor[2] + 1))
    BY <2>3 DEF Visited
  <2>5. Visited(s) <=> (s[1] < cursor[1] \/ (s[1] = cursor[1] /\ s[2] < cursor[2]))
    BY DEF Visited
  <2>6. \A m, n \in Nat : m < n + 1 <=> m < n \/ m = n
    OBVIOUS
  <2> QED BY <1>1, <2>1, <2>2, <2>4, <2>5, <2>6
<1>4. ~Visited(cursor)
  BY <1>1 DEF Visited
<1> QED BY <1>2, <1>3, <1>4

(* The merge before an item of a shard.                                    *)
LEMMA AtCursor ==
  ASSUME UnitsInv, PhaseInv, MergeInv, AtItem
  PROVE  /\ phase = "classify" /\ DefsInv /\ SunkInv /\ ObligedInv
         /\ cursor \in (Nat \ {0}) \X (Nat \ {0}) /\ cursor = <<cursor[1], cursor[2]>>
         /\ Op(cursor) \in Item
         /\ Named(Op(cursor)) <=> cursor \in Symbols
         /\ Symbols \subseteq (Nat \ {0}) \X (Nat \ {0})
<1>1. phase = "classify" /\ phase # "group"
  BY DEF AtItem
<1>2. DefsInv /\ SunkInv /\ ObligedInv
  BY <1>1 DEF MergeInv, Merging
<1>3. cursor \in (Nat \ {0}) \X (Nat \ {0}) /\ cursor = <<cursor[1], cursor[2]>>
  BY <1>2 DEF DefsInv
<1>4. cursor[1] \in DOMAIN units /\ cursor[2] \in DOMAIN units[cursor[1]].ops
  BY DEF AtItem
<1>5. Op(cursor) \in Item
  <2>1. units[cursor[1]].ops \in Seq(Item)
    BY <1>1, <1>4, MergeUnits
  <2> QED BY <1>4, <2>1 DEF Op
<1>6. Named(Op(cursor)) => cursor \in Symbols
  BY <1>1, <1>3, <1>4, MergeUnits DEF Op
<1>7. cursor \in Symbols => Named(Op(cursor))
  BY <1>1, MergeUnits
<1>8. Symbols \subseteq (Nat \ {0}) \X (Nat \ {0})
  <2>1. \A s \in Symbols : s = <<s[1], s[2]>> /\ s[1] \in Nat \ {0} /\ s[2] \in Nat \ {0}
    BY <1>1, MergeUnits
  <2> QED BY <2>1
<1> QED BY <1>1, <1>2, <1>3, <1>5, <1>6, <1>7, <1>8

(* A header text is no symbol, so dropping it changes nothing MergeInv      *)
(* reads.                                                                   *)
LEMMA HeaderKeeps == UnitsInv /\ PhaseInv /\ MergeInv /\ Header => MergeInv'
<1> SUFFICES ASSUME UnitsInv, PhaseInv, MergeInv, Header PROVE MergeInv'
  OBVIOUS
<1>1. /\ AtItem /\ NextItem /\ Op(cursor).kind \in {"header", "rejected"}
      /\ phase' = phase /\ defs' = defs /\ sunk' = sunk /\ obligations' = obligations
      /\ erased' = erased \/ erased' = erased \union {cursor}
      /\ units' = units /\ UNCHANGED tagVars /\ UNCHANGED nameVars
  BY DEF Header
<1>2. /\ phase = "classify" /\ DefsInv /\ SunkInv /\ ObligedInv
      /\ cursor \in (Nat \ {0}) \X (Nat \ {0}) /\ cursor \notin Symbols
      /\ Symbols \subseteq (Nat \ {0}) \X (Nat \ {0})
  BY <1>1, AtCursor DEF Named
<1>3. /\ cursor' \in (Nat \ {0}) \X (Nat \ {0})
      /\ \A s \in (Nat \ {0}) \X (Nat \ {0}) : Visited(s)' <=> (Visited(s) \/ s = cursor)
  BY <1>1, <1>2, VisitStep
<1>4. /\ Symbols' = Symbols /\ name' = name /\ \A s : Op(s)' = Op(s) /\ \A i : Escapes(i)' = Escapes(i)
      /\ \A n : Bearers(n)' = Bearers(n)
  BY <1>1, MergeFrame, SameBearers
<1>5. \A s \in Symbols : Replaced(s)' <=> Replaced(s)
  BY <1>1, <1>2, <1>4 DEF Replaced, Dedupable
<1>6. DefsInv'
  <2>1. \A d : Sunk(d)' <=> Sunk(d)
    BY <1>1, <1>4 DEF Sunk
  <2>2. erased \subseteq (Nat \ {0}) \X (Nat \ {0})
    BY <1>2 DEF DefsInv
  <2> QED BY <1>1, <1>2, <1>3, <1>4, <1>5, <2>1, <2>2 DEF DefsInv
<1>7. SunkInv'
  BY <1>1, <1>2, <1>4 DEF SunkInv
<1>8. ObligedInv'
  BY <1>1, <1>2, <1>3, <1>4 DEF ObligedInv
<1> QED BY <1>1, <1>2, <1>6, <1>7, <1>8 DEF MergeInv, Merging

(* A declaration becomes an obligation.                                     *)
LEMMA ObligeKeeps == UnitsInv /\ PhaseInv /\ MergeInv /\ Oblige => MergeInv'
<1> SUFFICES ASSUME UnitsInv, PhaseInv, MergeInv, Oblige PROVE MergeInv'
  OBVIOUS
<1>1. /\ AtItem /\ NextItem /\ Op(cursor).kind = "decl"
      /\ phase' = phase /\ defs' = defs /\ sunk' = sunk /\ obligations' = Append(obligations, cursor)
      /\ erased' = erased
      /\ units' = units /\ UNCHANGED tagVars /\ UNCHANGED nameVars
  BY DEF Oblige
<1>2. /\ phase = "classify" /\ DefsInv /\ SunkInv /\ ObligedInv
      /\ cursor \in (Nat \ {0}) \X (Nat \ {0}) /\ cursor \in Symbols
      /\ Symbols \subseteq (Nat \ {0}) \X (Nat \ {0})
  BY <1>1, AtCursor DEF Named
<1>3. /\ cursor' \in (Nat \ {0}) \X (Nat \ {0})
      /\ \A s \in (Nat \ {0}) \X (Nat \ {0}) : Visited(s)' <=> (Visited(s) \/ s = cursor)
  BY <1>1, <1>2, VisitStep
<1>4. /\ Symbols' = Symbols /\ name' = name /\ \A s : Op(s)' = Op(s) /\ \A i : Escapes(i)' = Escapes(i)
      /\ \A n : Bearers(n)' = Bearers(n)
  BY <1>1, MergeFrame, SameBearers
<1>5. \A s \in Symbols : Replaced(s)' <=> Replaced(s)
  BY <1>1, <1>4 DEF Replaced, Dedupable
<1>6. DefsInv'
  <2>1. \A d : Sunk(d)' <=> Sunk(d)
    BY <1>1, <1>4 DEF Sunk
  <2> QED BY <1>1, <1>2, <1>3, <1>4, <1>5, <2>1 DEF DefsInv
<1>7. SunkInv'
  BY <1>1, <1>2, <1>4 DEF SunkInv
<1>8. ObligedInv'
  <2> DEFINE new == obligations'
             old == obligations
  <2>1. /\ old \in Seq(Symbols) /\ new = Append(old, cursor)
        /\ new \in Seq(Symbols) /\ Len(new) = Len(old) + 1 /\ Len(old) \in Nat
        /\ DOMAIN old = 1..Len(old) /\ DOMAIN new = 1..(Len(old) + 1)
        /\ new[Len(old) + 1] = cursor /\ \A k \in 1..Len(old) : new[k] = old[k]
    BY <1>1, <1>2 DEF ObligedInv
  <2>2. \A k \in DOMAIN new : Op(new[k]).kind = "decl"
    <3> SUFFICES ASSUME NEW k \in DOMAIN new PROVE Op(new[k]).kind = "decl"
      OBVIOUS
    <3>1. k = Len(old) + 1 \/ k \in 1..Len(old)
      BY <2>1
    <3> QED BY <1>1, <1>2, <2>1, <3>1 DEF ObligedInv
  <2>3. Range(old) \subseteq Range(new) /\ cursor \in Range(new)
    <3>1. \A k \in DOMAIN old : k \in DOMAIN new /\ new[k] = old[k]
      BY <2>1
    <3>2. Len(old) + 1 \in DOMAIN new
      BY <2>1
    <3> QED BY <2>1, <3>1, <3>2 DEF Range
  <2>4. \A s \in Symbols : Visited(s)' /\ Op(s).kind = "decl" => s \in Range(new)
    BY <1>2, <1>3, <2>3 DEF ObligedInv
  <2>5. \A s \in Symbols : ~(Op(s).kind = "decl" /\ s \in erased)
    BY <1>2 DEF ObligedInv
  <2> QED BY <1>1, <1>4, <2>1, <2>2, <2>4, <2>5 DEF ObligedInv
<1> QED BY <1>1, <1>2, <1>6, <1>7, <1>8 DEF MergeInv, Merging

(* The next shard begins where the items of this one end.                   *)
LEMMA EndShardKeeps == UnitsInv /\ PhaseInv /\ MergeInv /\ EndShard => MergeInv'
<1> SUFFICES ASSUME UnitsInv, PhaseInv, MergeInv, EndShard PROVE MergeInv'
  OBVIOUS
<1>1. /\ phase = "classify" /\ cursor[1] \in DOMAIN units /\ cursor[2] > Len(units[cursor[1]].ops)
      /\ cursor' = <<cursor[1] + 1, 1>>
      /\ phase' = phase /\ defs' = defs /\ sunk' = sunk /\ obligations' = obligations
      /\ erased' = erased
      /\ units' = units /\ UNCHANGED tagVars /\ UNCHANGED nameVars
  BY DEF EndShard
<1>2. /\ DefsInv /\ SunkInv /\ ObligedInv /\ cursor \in (Nat \ {0}) \X (Nat \ {0})
  BY <1>1 DEF MergeInv, Merging, DefsInv
<1>3. cursor' \in (Nat \ {0}) \X (Nat \ {0})
  BY <1>1, <1>2
<1>4. /\ Symbols' = Symbols /\ name' = name /\ \A s : Op(s)' = Op(s) /\ \A i : Escapes(i)' = Escapes(i)
      /\ \A n : Bearers(n)' = Bearers(n)
  BY <1>1, MergeFrame, SameBearers
<1>5. \A s \in Symbols : Replaced(s)' <=> Replaced(s)
  BY <1>1, <1>4 DEF Replaced, Dedupable
<1>6. \A s : s \in (Nat \ {0}) \X (Nat \ {0}) /\ Visited(s) => Visited(s)'
  <2> SUFFICES ASSUME NEW s \in (Nat \ {0}) \X (Nat \ {0}), Visited(s) PROVE Visited(s)'
    OBVIOUS
  <2>1. s[1] \in Nat /\ cursor[1] \in Nat
    BY <1>2
  <2>2. s[1] < cursor[1] \/ s[1] = cursor[1]
    BY <1>1 DEF Visited
  <2>3. s[1] < cursor[1] + 1
    BY <2>1, <2>2
  <2> QED BY <1>1, <2>3 DEF Visited
<1>7. \A s \in Symbols : Visited(s)' => Visited(s)
  <2> SUFFICES ASSUME NEW s \in Symbols, Visited(s)' PROVE Visited(s)
    OBVIOUS
  <2>1. /\ s[1] \in Nat \ {0} /\ s[2] \in Nat \ {0} /\ s[1] \in DOMAIN units
        /\ s[2] \in 1..Len(units[s[1]].ops) /\ Len(units[s[1]].ops) \in Nat
    BY <1>1, MergeUnits
  <2>2. cursor[1] \in Nat /\ cursor[2] \in Nat
    BY <1>2
  <2>3. s[1] < cursor[1] + 1 \/ (s[1] = cursor[1] + 1 /\ s[2] < 1)
    BY <1>1 DEF Visited
  <2>4. s[1] < cursor[1] \/ s[1] = cursor[1]
    BY <2>1, <2>2, <2>3
  <2>5. s[1] = cursor[1] => s[2] < cursor[2]
    <3> SUFFICES ASSUME s[1] = cursor[1] PROVE s[2] < cursor[2]
      OBVIOUS
    <3>1. cursor[2] > Len(units[s[1]].ops)
      BY <1>1
    <3> QED BY <2>1, <2>2, <3>1
  <2> QED BY <2>4, <2>5 DEF Visited
<1>8. DefsInv'
  <2>1. \A d : Sunk(d)' <=> Sunk(d)
    BY <1>1, <1>4 DEF Sunk
  <2>2. \A d \in defs : d \in (Nat \ {0}) \X (Nat \ {0})
    <3>1. \A s \in Symbols : s = <<s[1], s[2]>> /\ s[1] \in Nat \ {0} /\ s[2] \in Nat \ {0}
      BY <1>1, MergeUnits
    <3> QED BY <1>2, <3>1 DEF DefsInv
  <2> QED BY <1>1, <1>2, <1>3, <1>4, <1>5, <1>6, <1>7, <2>1, <2>2 DEF DefsInv
<1>9. SunkInv'
  BY <1>1, <1>2, <1>4 DEF SunkInv
<1>10. ObligedInv'
  BY <1>1, <1>2, <1>4, <1>7 DEF ObligedInv
<1> QED BY <1>1, <1>8, <1>9, <1>10 DEF MergeInv, Merging

(* The three outcomes of Define that go on, in one frame: s is kept or     *)
(* dropped, and if it sinks, nothing else changes place.                   *)
LEMMA DefineOutcome ==
  ASSUME Define, phase' # "failed"
  PROVE  /\ AtItem /\ NextItem /\ Named(Op(cursor)) /\ Op(cursor).kind # "decl"
         /\ phase' = phase /\ obligations' = obligations
         /\ units' = units /\ UNCHANGED tagVars /\ UNCHANGED nameVars
         /\ \/ /\ Bearers(name[cursor]) = {} /\ defs' = defs \union {cursor}
               /\ erased' = erased /\ sunk' = sunk
            \/ /\ \E d \in Bearers(name[cursor]) : Dedupable(cursor, d) /\ SameType(cursor, d)
               /\ erased' = erased \union {cursor} /\ defs' = defs /\ sunk' = sunk
            \/ /\ Op(cursor).kind = "record" /\ Op(cursor).rest \notin Escapes(cursor[1])
               /\ sunk' = sunk \union {<<cursor[1], Op(cursor).rest>>}
               /\ defs' = defs \union {cursor} /\ erased' = erased
BY DEF Define, Named

(* First definition wins: the name has one bearer at the root, and a record *)
(* sinks only if its unit alone can name it.                                *)
LEMMA DefineKeeps == UnitsInv /\ PhaseInv /\ TagInv /\ MergeInv /\ Define => MergeInv'
<1> SUFFICES ASSUME UnitsInv, PhaseInv, TagInv, MergeInv, Define PROVE MergeInv'
  OBVIOUS
<1>0. CASE phase' = "failed"
  BY <1>0 DEF MergeInv, Merging
<1> SUFFICES ASSUME phase' # "failed" PROVE MergeInv'
  BY <1>0
<1>a. PICK s : s = cursor
  OBVIOUS
<1>b. \/ /\ Bearers(name[s]) = {} /\ defs' = defs \union {s}
         /\ erased' = erased /\ sunk' = sunk
      \/ /\ \E d \in Bearers(name[s]) : Dedupable(s, d) /\ SameType(s, d)
         /\ erased' = erased \union {s} /\ defs' = defs /\ sunk' = sunk
      \/ /\ Op(s).kind = "record" /\ Op(s).rest \notin Escapes(s[1])
         /\ sunk' = sunk \union {<<s[1], Op(s).rest>>}
         /\ defs' = defs \union {s} /\ erased' = erased
  BY <1>a, DefineOutcome
<1>1. /\ AtItem /\ NextItem /\ Named(Op(s)) /\ Op(s).kind # "decl"
      /\ phase' = phase /\ obligations' = obligations
      /\ units' = units /\ UNCHANGED tagVars /\ UNCHANGED nameVars
  BY <1>a, DefineOutcome
<1>2. /\ phase = "classify" /\ DefsInv /\ SunkInv /\ ObligedInv /\ Merging
      /\ s \in (Nat \ {0}) \X (Nat \ {0}) /\ s \in Symbols
      /\ Symbols \subseteq (Nat \ {0}) \X (Nat \ {0})
  BY <1>a, <1>1, AtCursor DEF Merging
<1>3. /\ cursor' \in (Nat \ {0}) \X (Nat \ {0}) /\ ~Visited(s)
      /\ \A t \in (Nat \ {0}) \X (Nat \ {0}) : Visited(t)' <=> (Visited(t) \/ t = s)
  BY <1>a, <1>1, <1>2, VisitStep
<1>4. /\ Symbols' = Symbols /\ name' = name /\ \A t : Op(t)' = Op(t) /\ \A i : Escapes(i)' = Escapes(i)
  BY <1>1, MergeFrame
<1>5. s \notin defs /\ s \notin erased
  BY <1>2, <1>3 DEF DefsInv
<1>6. /\ defs' \subseteq defs \union {s} /\ defs \subseteq defs'
      /\ erased' \subseteq erased \union {s} /\ erased \subseteq erased'
      /\ s \notin defs' \/ s \notin erased'
      /\ s \in defs' \/ s \in erased'
  BY <1>5, <1>b
<1>7. \A d \in defs : Sunk(d)' <=> Sunk(d)
  <2> SUFFICES ASSUME NEW d \in defs, sunk' = sunk \union {<<s[1], Op(s).rest>>},
                      Op(s).kind = "record", Op(d).kind = "record",
                      <<d[1], Op(d).rest>> = <<s[1], Op(s).rest>>
               PROVE  FALSE
    BY <1>4, <1>b DEF Sunk
  <2>1. d \in Symbols /\ d[1] = s[1] /\ Op(d).rest = Op(s).rest
    BY <1>2 DEF DefsInv
  <2>2. External(Op(d)) /\ External(Op(s))
    BY <1>2, <2>1, MergeUnits
  <2>3. name[d] = name[s]
    BY <1>2, <2>1, <2>2, ExternalNames
  <2>4. d = s
    BY <1>2, <2>1, <2>3, FinalNames
  <2> QED BY <1>5, <2>4
<1>8. \A n : Bearers(n) \subseteq Bearers(n)'
  BY <1>4, <1>6, <1>7 DEF Bearers
<1>9. \A n : \A d \in Bearers(n)' : d \in Bearers(n) \/ (d = s /\ Bearers(n) = {})
  <2> SUFFICES ASSUME NEW n, NEW d \in Bearers(n)', d \notin Bearers(n)
               PROVE  d = s /\ Bearers(n) = {}
    OBVIOUS
  <2>1. d \in defs' /\ name[d] = n /\ ~Sunk(d)'
    BY <1>4 DEF Bearers
  <2>2. d = s
    BY <1>6, <1>7, <2>1 DEF Bearers
  <2>3. s \in defs' /\ ~Sunk(s)' /\ name[s] = n
    BY <2>1, <2>2
  <2>4. Bearers(name[s]) = {}
    <3>1. CASE Bearers(name[s]) = {} /\ defs' = defs \union {s}
      BY <3>1
    <3>2. CASE erased' = erased \union {s}
      BY <1>6, <2>3, <3>2
    <3>3. CASE /\ Op(s).kind = "record" /\ sunk' = sunk \union {<<s[1], Op(s).rest>>}
      BY <1>4, <2>3, <3>3 DEF Sunk
    <3> QED BY <1>b, <3>1, <3>2, <3>3
  <2> QED BY <2>2, <2>3, <2>4
<1>10. \A t \in Symbols : Replaced(t) => Replaced(t)'
  BY <1>4, <1>6, <1>8 DEF Replaced, Dedupable
<1>11. s \in erased' => Replaced(s)'
  <2> SUFFICES ASSUME s \in erased' PROVE Replaced(s)'
    OBVIOUS
  <2>1. PICK d \in Bearers(name[s]) : Dedupable(s, d) /\ SameType(s, d)
    BY <1>5, <1>b
  <2> QED BY <1>4, <1>8, <2>1 DEF Replaced, Dedupable, SameType
<1>12. DefsInv'
  <2>1. \A d \in defs' : d \in Symbols /\ Op(d).kind # "decl" /\ Visited(d)' /\ d \notin erased'
    BY <1>1, <1>2, <1>3, <1>6 DEF DefsInv
  <2>2. \A t \in erased' : t \in (Nat \ {0}) \X (Nat \ {0}) /\ Visited(t)'
    BY <1>2, <1>3, <1>6 DEF DefsInv
  <2>3. \A d, e \in defs' : ~Sunk(d)' /\ ~Sunk(e)' /\ name[d] = name[e] => d = e
    <3> SUFFICES ASSUME NEW d \in defs', NEW e \in defs', ~Sunk(d)', ~Sunk(e)', name[d] = name[e]
                 PROVE  d = e
      OBVIOUS
    <3>1. PICK n : n = name[d] /\ n = name[e]
      OBVIOUS
    <3>2. d \in Bearers(n)' /\ e \in Bearers(n)'
      BY <1>4, <3>1 DEF Bearers
    <3>3. \A x, y \in Bearers(n) : x = y
      BY <1>2 DEF DefsInv, Bearers
    <3> QED BY <1>9, <3>2, <3>3
  <2>4. \A t \in Symbols : Visited(t)' /\ Op(t).kind # "decl" => t \in defs' \/ Replaced(t)'
    <3> SUFFICES ASSUME NEW t \in Symbols, Visited(t)', Op(t).kind # "decl"
                 PROVE  t \in defs' \/ Replaced(t)'
      OBVIOUS
    <3>1. CASE t = s
      BY <1>6, <1>11, <3>1
    <3>2. CASE t # s
      <4>1. Visited(t)
        BY <1>2, <1>3, <3>2
      <4> QED BY <1>2, <1>6, <1>10, <4>1 DEF DefsInv
    <3> QED BY <3>1, <3>2
  <2>5. \A t \in Symbols : Op(t).kind # "decl" /\ t \in erased' => Replaced(t)'
    BY <1>2, <1>6, <1>10, <1>11 DEF DefsInv
  <2> QED BY <1>3, <1>4, <2>1, <2>2, <2>3, <2>4, <2>5 DEF DefsInv
<1>13. SunkInv'
  <2> SUFFICES ASSUME NEW e \in sunk'
               PROVE  /\ e[2] \notin Escapes(e[1])
                      /\ \E d \in defs' : d[1] = e[1] /\ Op(d).kind = "record" /\ Op(d).rest = e[2]
    BY <1>4 DEF SunkInv
  <2>1. CASE e \in sunk
    BY <1>2, <1>6, <2>1 DEF SunkInv
  <2>2. CASE e \notin sunk
    <3>1. /\ Op(s).kind = "record" /\ Op(s).rest \notin Escapes(s[1])
          /\ e = <<s[1], Op(s).rest>> /\ s \in defs'
      BY <2>2, <1>b
    <3> QED BY <3>1
  <2> QED BY <2>1, <2>2
<1>14. ObligedInv'
  <2>1. \A t \in Symbols : ~(Op(t).kind = "decl" /\ t \in erased')
    BY <1>1, <1>2, <1>6 DEF ObligedInv
  <2>2. \A t \in Symbols : Visited(t)' /\ Op(t).kind = "decl" => t \in Range(obligations)
    <3> SUFFICES ASSUME NEW t \in Symbols, Visited(t)', Op(t).kind = "decl"
                 PROVE  t \in Range(obligations)
      OBVIOUS
    <3>1. t # s
      BY <1>1
    <3>2. Visited(t)
      BY <1>2, <1>3, <3>1
    <3> QED BY <1>2, <3>2 DEF ObligedInv
  <2> QED BY <1>1, <1>2, <1>4, <2>1, <2>2 DEF ObligedInv
<1> QED BY <1>1, <1>2, <1>12, <1>13, <1>14 DEF MergeInv, Merging

(* The merge starts with nothing visited.                                   *)
LEMMA StartClassifyMerges == UnitsInv /\ MergeInv /\ StartClassify => MergeInv'
<1> SUFFICES ASSUME UnitsInv, MergeInv, StartClassify PROVE MergeInv'
  OBVIOUS
<1>1. /\ phase = "names" /\ phase' = "classify" /\ cursor' = cursor /\ defs' = defs
      /\ sunk' = sunk /\ obligations' = obligations /\ erased' = erased
      /\ units' = units /\ UNCHANGED tagVars /\ UNCHANGED nameVars
  BY DEF StartClassify, mergeVars
<1>2. cursor = <<1, 1>> /\ defs = {} /\ erased = {} /\ sunk = {} /\ obligations = <<>>
  BY <1>1 DEF MergeInv
<1>3. Symbols' = Symbols
  BY <1>1, MergeFrame
<1>4. \A s \in Symbols : ~Visited(s)'
  <2> SUFFICES ASSUME NEW s \in Symbols PROVE ~Visited(s)'
    OBVIOUS
  <2>1. s[1] \in Nat \ {0} /\ s[2] \in Nat \ {0}
    BY <1>1, MergeUnits
  <2>2. cursor'[1] = 1 /\ cursor'[2] = 1
    BY <1>1, <1>2
  <2> QED BY <1>1, <2>1, <2>2 DEF Visited
<1>5. DefsInv'
  BY <1>1, <1>2, <1>3, <1>4 DEF DefsInv
<1>6. SunkInv'
  BY <1>1, <1>2 DEF SunkInv
<1>7. ObligedInv'
  BY <1>1, <1>2, <1>3, <1>4 DEF ObligedInv
<1> QED BY <1>1, <1>5, <1>6, <1>7 DEF MergeInv

(* When the resolution starts every item was visited.                       *)
LEMMA StartResolveMerges == UnitsInv /\ MergeInv /\ StartResolve => MergeInv'
<1> SUFFICES ASSUME UnitsInv, MergeInv, StartResolve PROVE MergeInv'
  OBVIOUS
<1>1. /\ phase = "classify" /\ cursor[1] > Len(units) /\ phase' = "resolve" /\ cursor' = <<1, 1>>
      /\ defs' = defs /\ sunk' = sunk /\ obligations' = obligations /\ erased' = erased
      /\ units' = units /\ UNCHANGED tagVars /\ UNCHANGED nameVars
  BY DEF StartResolve
<1>2. DefsInv /\ SunkInv /\ ObligedInv /\ cursor \in (Nat \ {0}) \X (Nat \ {0})
  BY <1>1 DEF MergeInv, Merging, DefsInv
<1>3. /\ Symbols' = Symbols /\ name' = name /\ \A s : Op(s)' = Op(s) /\ \A i : Escapes(i)' = Escapes(i)
      /\ \A n : Bearers(n)' = Bearers(n)
  BY <1>1, MergeFrame, SameBearers
<1>4. \A s \in Symbols : Replaced(s)' <=> Replaced(s)
  BY <1>1, <1>3 DEF Replaced, Dedupable
<1>5. \A s \in Symbols : Visited(s)
  <2> SUFFICES ASSUME NEW s \in Symbols PROVE Visited(s)
    OBVIOUS
  <2>1. s[1] \in 1..Len(units) /\ Len(units) \in Nat
    BY <1>1, MergeUnits
  <2>2. cursor[1] \in Nat
    BY <1>2
  <2>3. s[1] < cursor[1]
    BY <1>1, <2>1, <2>2
  <2> QED BY <2>3 DEF Visited
<1>6. \A s : Visited(s)'
  BY <1>1 DEF Visited
<1>7. DefsInv'
  <2>1. \A d : Sunk(d)' <=> Sunk(d)
    BY <1>1, <1>3 DEF Sunk
  <2>2. cursor' \in (Nat \ {0}) \X (Nat \ {0})
    BY <1>1
  <2> QED BY <1>1, <1>2, <1>3, <1>4, <1>5, <1>6, <2>1, <2>2 DEF DefsInv
<1>8. SunkInv'
  BY <1>1, <1>2, <1>3 DEF SunkInv
<1>9. ObligedInv'
  <2>1. \A s \in Symbols : ~(Op(s).kind = "decl" /\ s \in erased)
    BY <1>1, <1>2 DEF ObligedInv
  <2> QED BY <1>1, <1>2, <1>3, <1>5, <2>1 DEF ObligedInv
<1> QED BY <1>1, <1>7, <1>8, <1>9 DEF MergeInv, Merging

(* An obligation is dealt with: its declaration may be dropped.            *)
LEMMA ObligationStep ==
  ASSUME Discharge \/ Refuse \/ Adapt
  PROVE  /\ phase = "resolve" /\ phase' = "resolve" /\ cursor[1] \in DOMAIN obligations /\ NextObligation
         /\ erased' = erased \/ erased' = erased \union {obligations[cursor[1]]}
         /\ defs' = defs /\ sunk' = sunk /\ obligations' = obligations
         /\ units' = units /\ UNCHANGED tagVars /\ UNCHANGED nameVars
<1>1. CASE Discharge
  BY <1>1 DEF Discharge, AtObligation
<1>2. CASE Refuse
  BY <1>2 DEF Refuse, AtObligation
<1>3. CASE Adapt
  BY <1>3 DEF Adapt, AtObligation
<1> QED BY <1>1, <1>2, <1>3

(* Resolving an obligation drops that declaration and nothing else.         *)
LEMMA ObligationKeeps == UnitsInv /\ MergeInv /\ (Discharge \/ Refuse \/ Adapt) => MergeInv'
<1> SUFFICES ASSUME UnitsInv, MergeInv, Discharge \/ Refuse \/ Adapt PROVE MergeInv'
  OBVIOUS
<1>1. /\ phase = "resolve" /\ phase' = "resolve" /\ cursor[1] \in DOMAIN obligations
      /\ cursor' = [cursor EXCEPT ![1] = @ + 1]
      /\ erased' = erased \/ erased' = erased \union {obligations[cursor[1]]}
      /\ defs' = defs /\ sunk' = sunk /\ obligations' = obligations
      /\ units' = units /\ UNCHANGED tagVars /\ UNCHANGED nameVars
  BY ObligationStep DEF NextObligation
<1>2. DefsInv /\ SunkInv /\ ObligedInv /\ cursor \in (Nat \ {0}) \X (Nat \ {0})
  BY <1>1 DEF MergeInv, Merging, DefsInv
<1>3. cursor' \in (Nat \ {0}) \X (Nat \ {0}) /\ cursor'[1] = cursor[1] + 1 /\ cursor[1] \in Nat
  BY <1>1, <1>2
<1>4. PICK o \in Symbols : o = obligations[cursor[1]] /\ Op(o).kind = "decl"
  BY <1>1, <1>2 DEF ObligedInv
<1>5. /\ Symbols' = Symbols /\ name' = name /\ \A s : Op(s)' = Op(s) /\ \A i : Escapes(i)' = Escapes(i)
      /\ \A n : Bearers(n)' = Bearers(n)
  BY <1>1, MergeFrame, SameBearers
<1>6. erased \subseteq erased' /\ erased' \subseteq erased \union {o}
  BY <1>1, <1>4
<1>7. \A s \in Symbols : Replaced(s) => Replaced(s)'
  BY <1>5, <1>6 DEF Replaced, Dedupable
<1>8. \A s : Visited(s)' /\ Visited(s)
  BY <1>1 DEF Visited
<1>9. o \in (Nat \ {0}) \X (Nat \ {0})
  <2>1. o = <<o[1], o[2]>> /\ o[1] \in Nat \ {0} /\ o[2] \in Nat \ {0}
    BY <1>1, MergeUnits
  <2> QED BY <2>1
<1>10. DefsInv'
  <2>1. \A d : Sunk(d)' <=> Sunk(d)
    BY <1>1, <1>5 DEF Sunk
  <2> QED BY <1>1, <1>2, <1>3, <1>4, <1>5, <1>6, <1>7, <1>8, <1>9, <2>1 DEF DefsInv
<1>11. SunkInv'
  BY <1>1, <1>2, <1>5 DEF SunkInv
<1>12. ObligedInv'
  <2>1. \A s \in Symbols : Op(s).kind = "decl" /\ s \in erased' =>
          \E k \in DOMAIN obligations : k < cursor'[1] /\ obligations[k] = s
    <3> SUFFICES ASSUME NEW s \in Symbols, Op(s).kind = "decl", s \in erased'
                 PROVE  \E k \in DOMAIN obligations : k < cursor'[1] /\ obligations[k] = s
      OBVIOUS
    <3>1. CASE s = o
      BY <1>1, <1>3, <1>4, <3>1
    <3>2. CASE s # o
      <4>1. PICK k \in DOMAIN obligations : k < cursor[1] /\ obligations[k] = s
        BY <1>2, <1>6, <3>2 DEF ObligedInv
      <4>2. k \in Nat
        <5>1. obligations \in Seq(Symbols)
          BY <1>2 DEF ObligedInv
        <5> QED BY <5>1
      <4>3. k < cursor'[1]
        BY <1>3, <4>1, <4>2
      <4> QED BY <4>1, <4>3
    <3> QED BY <3>1, <3>2
  <2>2. \A s \in Symbols : Visited(s)' /\ Op(s).kind = "decl" => s \in Range(obligations)
    BY <1>2, <1>8 DEF ObligedInv
  <2> QED BY <1>1, <1>2, <1>5, <2>1, <2>2 DEF ObligedInv
<1> QED BY <1>1, <1>10, <1>11, <1>12 DEF MergeInv, Merging

(* MergeInv holds as long as the merge has not begun or what it reads       *)
(* stays.                                                                   *)
LEMMA MergeStays ==
  ASSUME MergeInv, UNCHANGED mergeVars, units' = units,
         \/ phase' = phase /\ (Merging => UNCHANGED tagVars /\ UNCHANGED nameVars)
         \/ phase \in {"group", "tags"} /\ phase' \in {"tags", "names", "failed"}
         \/ phase = "resolve" /\ phase' \in {"done", "failed"} /\ UNCHANGED tagVars /\ UNCHANGED nameVars
  PROVE  MergeInv'
<1>1. /\ cursor' = cursor /\ defs' = defs /\ sunk' = sunk /\ obligations' = obligations
      /\ erased' = erased
  BY DEF mergeVars
<1>2. CASE ~Merging'
  BY <1>1, <1>2 DEF MergeInv, Merging
<1>3. CASE Merging'
  <2>1. /\ Merging /\ UNCHANGED tagVars /\ UNCHANGED nameVars
        /\ phase' = phase \/ (phase # "classify" /\ phase' # "classify")
    BY <1>3 DEF Merging
  <2>2. DefsInv /\ SunkInv /\ ObligedInv
    BY <2>1 DEF MergeInv
  <2>3. /\ Symbols' = Symbols /\ name' = name /\ \A s : Op(s)' = Op(s) /\ \A i : Escapes(i)' = Escapes(i)
        /\ \A n : Bearers(n)' = Bearers(n)
    BY <1>1, <2>1, MergeFrame, SameBearers
  <2>4. \A s : Visited(s)' <=> Visited(s)
    BY <1>1, <2>1 DEF Visited
  <2>5. \A s \in Symbols : Replaced(s)' <=> Replaced(s)
    BY <1>1, <2>3 DEF Replaced, Dedupable
  <2>6. \A d : Sunk(d)' <=> Sunk(d)
    BY <1>1, <2>3 DEF Sunk
  <2>7. DefsInv'
    BY <1>1, <2>2, <2>3, <2>4, <2>5, <2>6 DEF DefsInv
  <2>8. SunkInv'
    BY <1>1, <2>2, <2>3 DEF SunkInv
  <2>9. ObligedInv'
    BY <1>1, <2>1, <2>2, <2>3, <2>4 DEF ObligedInv
  <2> QED BY <1>3, <2>7, <2>8, <2>9 DEF MergeInv, Merging
<1> QED BY <1>2, <1>3

(* Every step keeps MergeInv.                                               *)
LEMMA NextKeepsMerge == UnitsInv /\ PhaseInv /\ TagInv /\ MergeInv /\ ResolveInv /\ LinkNext => MergeInv'
<1> SUFFICES ASSUME UnitsInv, PhaseInv, TagInv, MergeInv, ResolveInv, LinkNext PROVE MergeInv'
  OBVIOUS
<1>1. CASE Join \/ Reimport \/ Tags \/ StartNames \/ Naming
  <2>1. /\ UNCHANGED mergeVars /\ units' = units
        /\ \/ phase' = phase /\ ~Merging
           \/ phase \in {"group", "tags"} /\ phase' \in {"tags", "names", "failed"}
    BY <1>1 DEF Join, Reimport, Tags, StartNames, Naming, Merging
  <2> QED BY <2>1, MergeStays
<1>2. CASE StartTags
  <2>1. UNCHANGED mergeVars /\ phase = "group" /\ phase' = "tags"
    BY <1>2 DEF StartTags
  <2> QED BY <2>1 DEF MergeInv, Merging, mergeVars
<1>3. CASE StartClassify
  BY <1>3, StartClassifyMerges
<1>4. CASE Header \/ Oblige \/ Define \/ EndShard \/ StartResolve
  BY <1>4, HeaderKeeps, ObligeKeeps, DefineKeeps, EndShardKeeps, StartResolveMerges
<1>5. CASE Discharge \/ Refuse \/ Adapt
  BY <1>5, ObligationKeeps
<1>6. CASE Reslice \/ AskFence \/ WalkFence \/ Lend
  <2>1. /\ UNCHANGED mergeVars /\ units' = units /\ phase' = phase /\ UNCHANGED tagVars
        /\ UNCHANGED nameVars
    BY <1>6 DEF Reslice, AskFence, WalkFence, Lend
  <2> QED BY <2>1, MergeStays
<1>7. CASE EndLink
  <2>1. /\ UNCHANGED mergeVars /\ units' = units /\ phase = "resolve" /\ phase' \in {"done", "failed"}
        /\ UNCHANGED tagVars /\ UNCHANGED nameVars
    BY <1>7 DEF EndLink
  <2> QED BY <2>1, MergeStays
<1> QED BY <1>1, <1>2, <1>3, <1>4, <1>5, <1>6, <1>7 DEF LinkNext

-----------------------------------------------------------------------------
(* Step 2: the resolution keeps ShapesInv and ResolveInv.                   *)

Resolving == {"resolve", "done", "failed"}

(* ShapesInv holds as long as what it reads stays.                          *)
LEMMA ShapesStay ==
  ASSUME ShapesInv, shape' = shape, units' = units, bound' = bound, phase # "group",
         \/ phase \notin Resolving
         \/ phase' \in Resolving /\ name' = name /\ defs' = defs /\ sunk' = sunk
  PROVE  ShapesInv'
<1>1. Uses' = Uses /\ \A s : Op(s)' = Op(s)
  BY DEF Uses, Op
<1>2. shape' \in [Uses' -> Ways]
  BY <1>1 DEF ShapesInv
<1>3. ASSUME NEW u \in Uses
      PROVE  \/ shape[u] \in Shapes(Op(bound[u]).model)
             \/ /\ phase' \in Resolving /\ shape[u] \in Resliced
                /\ \E d \in Bearers(name[bound[u]])' : Widened(bound[u], d)
  <2>1. CASE phase \notin Resolving
    BY <2>1 DEF ShapesInv, Resolving
  <2>2. CASE phase' \in Resolving /\ name' = name /\ defs' = defs /\ sunk' = sunk
    <3>1. \A n : Bearers(n)' = Bearers(n)
      BY <2>2, SameBearers
    <3>2. Bearers(name[bound[u]])' = Bearers(name[bound[u]])
      BY <2>2, <1>1 DEF Bearers, Sunk
    <3> QED BY <2>2, <3>2 DEF ShapesInv
  <2> QED BY <2>1, <2>2
<1>4. \A s, d : Widened(s, d)' <=> Widened(s, d)
  BY <1>1 DEF Widened
<1> QED BY <1>1, <1>2, <1>3, <1>4, phase # "group" DEF ShapesInv, Resolving

(* A call that was waiting is reshaped, and its unit and its definition     *)
(* disagree as they have to.                                               *)
LEMMA ReshapeKeeps ==
  ASSUME ShapesInv, ResolveInv, phase # "group", NEW u \in calls, NEW way \in Resliced,
         shape' = [shape EXCEPT ![u] = way], phase' = phase,
         units' = units, bound' = bound, name' = name, defs' = defs, sunk' = sunk
  PROVE  ShapesInv'
<1>1. /\ Uses' = Uses /\ \A s : Op(s)' = Op(s) /\ \A n : Bearers(n)' = Bearers(n)
      /\ \A s, d : Widened(s, d)' <=> Widened(s, d)
  BY SameBearers DEF Uses, Op, Widened
<1>2. phase = "resolve" /\ u \in Uses /\ \E d \in Bearers(name[bound[u]]) : Widened(bound[u], d)
  BY DEF ResolveInv
<1>3. way \in Ways
  BY DEF Resliced, Ways
<1>4. shape \in [Uses -> Ways]
  BY DEF ShapesInv
<1>5. shape' \in [Uses' -> Ways] /\ \A v \in Uses : shape'[v] = IF v = u THEN way ELSE shape[v]
  BY <1>1, <1>2, <1>3, <1>4
<1>6. ASSUME NEW v \in Uses
      PROVE  \/ shape'[v] \in Shapes(Op(bound[v]).model)
             \/ shape'[v] \in Resliced /\ \E d \in Bearers(name[bound[v]]) : Widened(bound[v], d)
  BY <1>2, <1>5 DEF ShapesInv
<1>7. \A v \in Uses : Bearers(name[bound[v]])' = Bearers(name[bound[v]])
  BY <1>1 DEF Bearers, Sunk
<1> QED BY <1>1, <1>2, <1>5, <1>6, <1>7 DEF ShapesInv

(* The resolution leaves the definitions, the names and the uses alone.     *)
LEMMA MergeVarsKept ==
  ASSUME Discharge \/ Refuse \/ Adapt \/ Reslice \/ AskFence \/ WalkFence \/ Lend \/ EndLink
  PROVE  /\ units' = units /\ bound' = bound /\ name' = name /\ use' = use
         /\ defs' = defs /\ sunk' = sunk /\ obligations' = obligations
<1>1. CASE Discharge \/ Refuse \/ Adapt
  BY <1>1 DEF Discharge, Refuse, Adapt, tagVars, shardVars
<1>2. CASE Reslice \/ AskFence \/ WalkFence \/ Lend \/ EndLink
  BY <1>2 DEF Reslice, AskFence, WalkFence, Lend, EndLink, mergeVars, tagVars, shardVars
<1> QED BY <1>1, <1>2

(* Every step keeps ShapesInv.                                              *)
LEMMA NextKeepsShapes == GroupInv /\ ShapesInv /\ ResolveInv /\ LinkNext => ShapesInv'
<1> SUFFICES ASSUME GroupInv, ShapesInv, ResolveInv, LinkNext PROVE ShapesInv'
  OBVIOUS
<1>1. CASE Join \/ Reimport
  BY <1>1 DEF Join, Reimport, ShapesInv
<1>2. CASE StartTags
  BY <1>2, StartTagsShapes
<1>3. CASE Tags \/ StartNames \/ Naming \/ StartClassify
  <2>1. shape' = shape /\ units' = units /\ phase \in {"tags", "names"}
    BY <1>3 DEF Tags, StartNames, Naming, StartClassify, resolveVars
  <2>2. bound' = bound
    BY <1>3 DEF Tags, StartNames, Naming, StartClassify, TagNext, Collect, RejectShard, Rename,
                RewriteTexts, tagVars, shardVars
  <2> QED BY <2>1, <2>2, ShapesStay DEF Resolving
<1>4. CASE Header \/ Oblige \/ Define \/ EndShard \/ StartResolve
  <2>1. shape' = shape /\ units' = units /\ phase = "classify" /\ bound' = bound
    BY <1>4 DEF Header, Oblige, Define, EndShard, StartResolve, AtItem, resolveVars, tagVars, shardVars
  <2> QED BY <2>1, ShapesStay DEF Resolving
<1>5. CASE Discharge \/ Refuse \/ Adapt \/ EndLink
  <2>1. shape' = shape /\ phase = "resolve" /\ phase' \in Resolving
    BY <1>5 DEF Discharge, Refuse, Adapt, EndLink, AtObligation, resolveVars, Resolving
  <2> QED BY <1>5, <2>1, MergeVarsKept, ShapesStay
<1>6. CASE AskFence \/ WalkFence
  <2>1. shape' = shape /\ phase' = phase
    BY <1>6 DEF AskFence, WalkFence
  <2>2. CASE phase = "group"
    BY <2>1, <2>2 DEF ShapesInv
  <2>3. CASE phase # "group"
    BY <1>6, <2>1, <2>3, MergeVarsKept, ShapesStay
  <2> QED BY <2>2, <2>3
<1>7. CASE Reslice
  <2>1. PICK u \in calls : shape' = [shape EXCEPT ![u] = Reshaped(u)]
    BY <1>7 DEF Reslice
  <2>2. Reshaped(u) \in Resliced
    BY DEF Reshaped, Resliced
  <2>3. phase' = phase /\ phase # "group"
    BY <1>7, <2>1 DEF Reslice, ResolveInv
  <2> QED BY <1>7, <2>1, <2>2, <2>3, MergeVarsKept, ReshapeKeeps
<1>8. CASE Lend
  <2>1. PICK u \in calls : shape' = shape \/ shape' = [shape EXCEPT ![u] = "view"]
    BY <1>8 DEF Lend
  <2>2. phase' = phase /\ phase = "resolve"
    BY <1>8, <2>1 DEF Lend, ResolveInv
  <2>3. CASE shape' = shape
    BY <1>8, <2>2, <2>3, MergeVarsKept, ShapesStay DEF Resolving
  <2>4. CASE shape' = [shape EXCEPT ![u] = "view"]
    <3>1. "view" \in Resliced
      BY DEF Resliced
    <3> QED BY <1>8, <2>2, <2>4, <3>1, MergeVarsKept, ReshapeKeeps
  <2> QED BY <2>1, <2>3, <2>4
<1> QED BY <1>1, <1>2, <1>3, <1>4, <1>5, <1>6, <1>7, <1>8 DEF LinkNext

(* An obligation that has met its definition stays met while the calls of   *)
(* its unit are reshaped.                                                  *)
LEMMA MetStays ==
  ASSUME NEW o, Met(o), units' = units, bound' = bound, name' = name, defs' = defs, sunk' = sunk,
         \A u \in Uses : u \in calls \/ shape[u] \in Resliced => u \in calls' \/ shape'[u] \in Resliced
  PROVE  Met(o)'
<1>1. /\ Uses' = Uses /\ \A s : Op(s)' = Op(s) /\ \A n : Bearers(n)' = Bearers(n)
      /\ \A s, d : Widened(s, d)' <=> Widened(s, d)
  BY SameBearers DEF Uses, Op, Widened
<1>2. Bearers(name[o])' = Bearers(name[o])
  BY <1>1 DEF Bearers, Sunk
<1>3. PICK d \in Bearers(name[o]) :
     /\ IsFunction(Op(d)) /\ Op(d).iface = Op(o).iface
     /\ \/ Op(d).model = Op(o).model
        \/ Widened(o, d) /\ \A u \in Uses : bound[u] = o => u \in calls \/ shape[u] \in Resliced
  BY DEF Met
<1>4. \/ Op(d).model = Op(o).model
      \/ Widened(o, d) /\ \A u \in Uses : bound[u] = o => u \in calls' \/ shape'[u] \in Resliced
  BY <1>3
<1> QED BY <1>1, <1>2, <1>3, <1>4 DEF Met

(* What resolving an obligation knows.                                     *)
LEMMA AtObligationKnows ==
  ASSUME UnitsInv, PhaseInv, TagInv, MergeInv, NEW o, AtObligation(o)
  PROVE  /\ phase = "resolve" /\ Merging /\ calls = {} /\ DefsInv /\ ObligedInv
         /\ cursor[1] \in DOMAIN obligations /\ cursor[1] \in Nat \ {0}
         /\ o = obligations[cursor[1]] /\ o \in Symbols /\ Op(o).kind = "decl"
         /\ \A d \in Bearers(name[o]) : IsFunction(Op(d))
<1>1. /\ phase = "resolve" /\ Merging /\ calls = {} /\ DefsInv /\ ObligedInv
      /\ cursor[1] \in DOMAIN obligations /\ o = obligations[cursor[1]]
  BY DEF AtObligation, MergeInv, Merging
<1>2. o \in Symbols /\ Op(o).kind = "decl"
  BY <1>1 DEF ObligedInv
<1>3. ASSUME NEW d \in Bearers(name[o]) PROVE IsFunction(Op(d))
  <2>1. d \in Symbols /\ name[d] = name[o]
    BY <1>1 DEF Bearers, DefsInv
  <2>2. IsFunction(Op(o))
    BY <1>2 DEF IsFunction
  <2> QED BY <1>1, <1>2, <2>1, <2>2, FinalNames
<1>4. cursor[1] \in Nat \ {0}
  BY <1>1 DEF DefsInv
<1> QED BY <1>1, <1>2, <1>3, <1>4

(* A discharged declaration has met its definition.                         *)
LEMMA DischargeMeets ==
  ASSUME UnitsInv, PhaseInv, TagInv, MergeInv, Discharge
  PROVE  Met(obligations[cursor[1]])
<1>1. PICK o : o = obligations[cursor[1]] /\ AtObligation(o)
             /\ \E d \in Bearers(name[o]) : ~IsFunction(Op(d)) \/ SameType(o, d)
  BY DEF Discharge
<1>2. PICK d \in Bearers(name[o]) : ~IsFunction(Op(d)) \/ SameType(o, d)
  BY <1>1
<1>3. IsFunction(Op(d))
  BY <1>1, <1>2, AtObligationKnows
<1> QED BY <1>1, <1>2, <1>3 DEF Met, SameType

(* The calls that are reshaped for o are those that mean o, and none of    *)
(* them uses it as a value.                                                *)
LEMMA AdaptMeets ==
  ASSUME UnitsInv, PhaseInv, TagInv, MergeInv, Adapt, NEW o, o = obligations[cursor[1]]
  PROVE  /\ Met(o)'
         /\ calls' \subseteq Uses
         /\ \A u \in calls' : \E d \in Bearers(name[bound[u]]) : Widened(bound[u], d)
<1>1. /\ AtObligation(o) /\ calls' = CallsOf(o)
      /\ \E d \in Bearers(name[o]) :
           IsFunction(Op(d)) /\ ~SameType(o, d) /\ SliceRefined(o, d) /\ ~UsedAsValue(o)
  BY DEF Adapt
<1>2. PICK d \in Bearers(name[o]) : IsFunction(Op(d)) /\ SliceRefined(o, d) /\ ~UsedAsValue(o)
  BY <1>1
<1>3. Widened(o, d) /\ Op(o).iface = Op(d).iface
  BY <1>2 DEF SliceRefined, Widened
<1>4. Merging /\ phase # "group" /\ o \in Symbols
  BY <1>1, AtObligationKnows
<1>5. \A u \in Uses : bound[u] \in Symbols /\ bound[u][1] = u[1] /\ use[u] = name[bound[u]]
  BY <1>4, MergeUnits, UsesMean
<1>6. \A u \in Uses : bound[u] = o => u \in calls'
  BY <1>1, <1>2, <1>5 DEF CallsOf, UsedAsValue
<1>7. \A u \in calls' : u \in Uses /\ bound[u] = o
  <2> SUFFICES ASSUME NEW u \in calls' PROVE u \in Uses /\ bound[u] = o
    OBVIOUS
  <2>1. u \in Uses /\ u[1] = o[1] /\ use[u] = name[o]
    BY <1>1 DEF CallsOf
  <2>2. bound[u] \in Symbols /\ bound[u][1] = o[1] /\ name[bound[u]] = name[o]
    BY <1>5, <2>1
  <2> QED BY <1>4, <2>1, <2>2, FinalNames
<1>8. /\ units' = units /\ bound' = bound /\ name' = name /\ defs' = defs /\ sunk' = sunk
      /\ obligations' = obligations
  BY MergeVarsKept
<1>9. /\ Uses' = Uses /\ \A s : Op(s)' = Op(s) /\ \A n : Bearers(n)' = Bearers(n)
      /\ \A s, x : Widened(s, x)' <=> Widened(s, x)
  BY <1>8, SameBearers DEF Uses, Op, Widened
<1>10. Bearers(name[o])' = Bearers(name[o])
  BY <1>8, <1>9 DEF Bearers, Sunk
<1>11. Met(o)'
  BY <1>2, <1>3, <1>6, <1>8, <1>9, <1>10 DEF Met
<1> QED BY <1>1, <1>2, <1>3, <1>7, <1>11

(* Every step keeps ResolveInv.                                             *)
LEMMA NextKeepsResolve ==
  UnitsInv /\ PhaseInv /\ TagInv /\ MergeInv /\ ShapesInv /\ ResolveInv /\ LinkNext => ResolveInv'
<1> SUFFICES ASSUME UnitsInv, PhaseInv, TagInv, MergeInv, ShapesInv, ResolveInv, LinkNext
             PROVE  ResolveInv'
  OBVIOUS
<1>1. CASE Join \/ Reimport \/ StartTags \/ Tags \/ StartNames \/ Naming \/ StartClassify
          \/ Header \/ Oblige \/ Define \/ EndShard
  <2>1. calls' = calls /\ phase # "resolve" /\ phase' \notin {"resolve", "done"}
    BY <1>1 DEF Join, Reimport, StartTags, Tags, StartNames, Naming, StartClassify,
                Header, Oblige, Define, EndShard, AtItem, resolveVars
  <2> QED BY <2>1 DEF ResolveInv
<1>2. CASE StartResolve
  <2>1. /\ phase = "classify" /\ phase' = "resolve" /\ calls' = calls /\ cursor' = <<1, 1>>
        /\ obligations' = obligations
    BY <1>2 DEF StartResolve, resolveVars
  <2>2. calls' = {} /\ cursor'[1] = 1
    BY <2>1 DEF ResolveInv
  <2>3. \A k \in DOMAIN obligations : ~(k < 1)
    <3>1. obligations \in Seq(Symbols)
      BY <2>1 DEF MergeInv, Merging, ObligedInv
    <3> QED BY <3>1
  <2> QED BY <2>1, <2>2, <2>3 DEF ResolveInv
<1>3. CASE Discharge \/ Refuse \/ Adapt
  <2>1. PICK o : o = obligations[cursor[1]] /\ AtObligation(o)
    BY <1>3 DEF Discharge, Refuse, Adapt
  <2>2. /\ phase = "resolve" /\ calls = {} /\ cursor[1] \in Nat \ {0}
        /\ obligations \in Seq(Symbols) /\ cursor \in (Nat \ {0}) \X (Nat \ {0})
    BY <2>1, AtObligationKnows DEF ObligedInv, DefsInv
  <2>3. phase' = "resolve" /\ cursor' = [cursor EXCEPT ![1] = @ + 1]
    BY <1>3, ObligationStep DEF NextObligation
  <2>4. cursor'[1] = cursor[1] + 1
    BY <2>2, <2>3
  <2>5. /\ units' = units /\ bound' = bound /\ name' = name /\ defs' = defs /\ sunk' = sunk
        /\ obligations' = obligations
    BY <1>3, MergeVarsKept
  <2>6. shape' = shape /\ (linkFailed => linkFailed')
    BY <1>3 DEF Discharge, Refuse, Adapt, resolveVars
  <2>7. \A p : Met(p) => Met(p)'
    BY <2>2, <2>5, <2>6, MetStays
  <2>8. linkFailed' \/ Met(o)'
    <3>1. CASE Discharge
      BY <2>1, <2>7, <3>1, DischargeMeets
    <3>2. CASE Refuse
      BY <3>2 DEF Refuse
    <3>3. CASE Adapt
      BY <2>1, <3>3, AdaptMeets
    <3> QED BY <1>3, <3>1, <3>2, <3>3
  <2>9. /\ calls' \subseteq Uses
        /\ \A u \in calls' : \E d \in Bearers(name[bound[u]]) : Widened(bound[u], d)
    <3>1. CASE Discharge \/ Refuse
      BY <2>2, <3>1 DEF Discharge, Refuse, resolveVars
    <3>2. CASE Adapt
      BY <2>1, <3>2, AdaptMeets
    <3> QED BY <1>3, <3>1, <3>2
  <2>10. \A k \in DOMAIN obligations : k < cursor'[1] => linkFailed' \/ Met(obligations[k])'
    <3> SUFFICES ASSUME NEW k \in DOMAIN obligations, k < cursor'[1]
                 PROVE  linkFailed' \/ Met(obligations[k])'
      OBVIOUS
    <3>1. k \in Nat
      BY <2>2
    <3>2. PICK p : p = obligations[k]
      OBVIOUS
    <3>3. CASE k < cursor[1]
      <4>1. linkFailed \/ Met(p)
        BY <2>2, <3>2, <3>3 DEF ResolveInv
      <4>2. linkFailed' \/ Met(p)'
        BY <2>6, <2>7, <4>1
      <4> QED BY <2>5, <3>2, <4>2
    <3>4. CASE k = cursor[1]
      BY <2>1, <2>5, <2>8, <3>4
    <3> QED BY <2>2, <2>4, <3>1, <3>3, <3>4
  <2>11. /\ Uses' = Uses /\ \A s, d : Widened(s, d)' <=> Widened(s, d)
         /\ \A u \in Uses : Bearers(name[bound[u]])' = Bearers(name[bound[u]])
    BY <2>5 DEF Uses, Op, Widened, Bearers, Sunk
  <2> QED BY <2>3, <2>5, <2>9, <2>10, <2>11 DEF ResolveInv
<1>4. CASE Reslice \/ AskFence \/ WalkFence \/ Lend
  <2>1. /\ units' = units /\ bound' = bound /\ name' = name /\ defs' = defs /\ sunk' = sunk
        /\ obligations' = obligations
    BY <1>4, MergeVarsKept
  <2>2. phase' = phase /\ cursor' = cursor /\ calls' \subseteq calls /\ (linkFailed => linkFailed')
    BY <1>4 DEF Reslice, AskFence, WalkFence, Lend, mergeVars
  <2>3. CASE phase = "resolve"
    <3>1. shape \in [Uses -> Ways] /\ calls \subseteq Uses
      BY <2>3 DEF ShapesInv, ResolveInv
    <3>2. linkFailed' \/ \A u \in Uses : u \in calls \/ shape[u] \in Resliced
                                         => u \in calls' \/ shape'[u] \in Resliced
      <4>1. CASE AskFence \/ WalkFence
        BY <4>1 DEF AskFence, WalkFence
      <4>2. CASE Reslice
        <5>1. PICK u \in calls : shape' = [shape EXCEPT ![u] = Reshaped(u)] /\ calls' = calls \ {u}
          BY <4>2 DEF Reslice
        <5>2. Reshaped(u) \in Resliced
          BY DEF Reshaped, Resliced
        <5> QED BY <3>1, <5>1, <5>2
      <4>3. CASE Lend
        <5>1. PICK u \in calls : /\ calls' = calls \ {u}
                                 /\ linkFailed' \/ shape' = [shape EXCEPT ![u] = "view"]
          BY <4>3 DEF Lend
        <5>2. "view" \in Resliced
          BY DEF Resliced
        <5> QED BY <3>1, <5>1, <5>2
      <4> QED BY <1>4, <4>1, <4>2, <4>3
    <3>3. linkFailed' \/ \A p : Met(p) => Met(p)'
      BY <2>1, <3>2, MetStays
    <3>4. \A k \in DOMAIN obligations : k < cursor[1] => linkFailed' \/ Met(obligations[k])'
      <4> SUFFICES ASSUME NEW k \in DOMAIN obligations, k < cursor[1], ~linkFailed'
                   PROVE  Met(obligations[k])'
        OBVIOUS
      <4>1. PICK p : p = obligations[k]
        OBVIOUS
      <4>2. Met(p)
        BY <2>2, <2>3, <4>1 DEF ResolveInv
      <4>3. Met(p)'
        BY <3>3, <4>2
      <4> QED BY <2>1, <4>1, <4>3
    <3>5. /\ Uses' = Uses /\ \A s, d : Widened(s, d)' <=> Widened(s, d)
          /\ \A u \in Uses : Bearers(name[bound[u]])' = Bearers(name[bound[u]])
      BY <2>1 DEF Uses, Op, Widened, Bearers, Sunk
    <3> QED BY <2>1, <2>2, <2>3, <3>1, <3>4, <3>5 DEF ResolveInv
  <2>4. CASE phase # "resolve"
    <3>1. calls = {} /\ calls' = {}
      BY <2>2, <2>4 DEF ResolveInv
    <3>2. WalkFence
      BY <1>4, <3>1 DEF Reslice, AskFence, Lend
    <3>3. shape' = shape /\ linkFailed' = linkFailed
      BY <3>2 DEF WalkFence
    <3>4. \A p : Met(p) => Met(p)'
      BY <2>1, <3>1, <3>3, MetStays
    <3>5. \A k \in DOMAIN obligations : Met(obligations[k]) => Met(obligations[k])'
      <4> SUFFICES ASSUME NEW k \in DOMAIN obligations, Met(obligations[k])
                   PROVE  Met(obligations[k])'
        OBVIOUS
      <4>1. PICK p : p = obligations[k]
        OBVIOUS
      <4>2. Met(p)'
        BY <3>4, <4>1
      <4> QED BY <2>1, <4>1, <4>2
    <3> QED BY <2>1, <2>2, <2>4, <3>1, <3>3, <3>5 DEF ResolveInv
  <2> QED BY <2>3, <2>4
<1>5. CASE EndLink
  <2>1. /\ phase = "resolve" /\ calls = {} /\ cursor[1] > Len(obligations)
        /\ phase' = IF linkFailed THEN "failed" ELSE "done"
        /\ cursor' = cursor /\ calls' = calls /\ shape' = shape /\ linkFailed' = linkFailed
    BY <1>5 DEF EndLink, mergeVars, resolveVars
  <2>2. /\ units' = units /\ bound' = bound /\ name' = name /\ defs' = defs /\ sunk' = sunk
        /\ obligations' = obligations
    BY <1>5, MergeVarsKept
  <2>3. \A p : Met(p) => Met(p)'
    BY <2>1, <2>2, MetStays
  <2>4. \A k \in DOMAIN obligations : Met(obligations[k]) => Met(obligations[k])'
    <3> SUFFICES ASSUME NEW k \in DOMAIN obligations, Met(obligations[k])
                 PROVE  Met(obligations[k])'
      OBVIOUS
    <3>1. PICK p : p = obligations[k]
      OBVIOUS
    <3>2. Met(p)'
      BY <2>3, <3>1
    <3> QED BY <2>2, <3>1, <3>2
  <2> QED BY <2>1, <2>2, <2>4 DEF ResolveInv
<1> QED BY <1>1, <1>2, <1>3, <1>4, <1>5 DEF LinkNext

-----------------------------------------------------------------------------
(* The invariant of the whole link, and what follows from it.               *)

(* The empty sequence is a function on the empty set.                       *)
LEMMA NothingIsEmpty == \A S : DOMAIN << >> = {} /\ << >> \in [{} -> S] /\ << >> \in Seq(S)
<1> TAKE S
<1>1. << >> \in Seq(S) /\ Len(<< >>) = 0
  OBVIOUS
<1>2. DOMAIN << >> = {}
  OBVIOUS
<1>3. << >> = [x \in {} |-> x]
  BY <1>2
<1>4. [x \in {} |-> x] \in [{} -> S]
  OBVIOUS
<1> QED BY <1>1, <1>2, <1>3, <1>4

(* At the start every class is a singleton.                                 *)
LEMMA InitKeepsGroups == LinkInit => GroupInv
<1> SUFFICES ASSUME LinkInit PROVE GroupInv
  OBVIOUS
<1>1. /\ line \in Lines /\ phase = "group" /\ class = [i \in DOMAIN line |-> {i}]
      /\ edges = StarvationEdges(line) /\ groups = {} /\ joined = <<>>
  BY DEF LinkInit
<1>2. DOMAIN joined = {}
  BY <1>1, NothingIsEmpty
<1>3. edges \subseteq (DOMAIN line) \X (DOMAIN line)
  BY <1>1 DEF StarvationEdges, FactStarved, SignatureStarved
<1> QED BY <1>1, <1>2, <1>3 DEF GroupInv

(* The link starts in LinkInv.                                              *)
LEMMA InitLinkInv == LinkInit => LinkInv
<1> SUFFICES ASSUME LinkInit PROVE LinkInv
  OBVIOUS
<1>1. /\ phase = "group" /\ units = <<>> /\ TagStart /\ NamingStart
      /\ ordinalMaps = <<>> /\ imported = <<>> /\ shardOf = <<>> /\ bound = <<>>
      /\ ladder = <<>> /\ ordinal = <<>>
      /\ cursor = <<1, 1>> /\ defs = {} /\ erased = {} /\ sunk = {} /\ obligations = <<>>
      /\ calls = {}
  BY DEF LinkInit
<1>2. Symbols = {} /\ Uses = {} /\ Indices = {}
  BY <1>1, NothingIsEmpty DEF Symbols, Uses, Indices
<1>3. Len(ordinalMaps) = 0 /\ Shards = {}
  BY <1>1 DEF Shards
<1>4. WellFormed
  <2>1. ordinalMaps \in Seq(Seq(Nat))
    BY <1>1, NothingIsEmpty
  <2>2. imported \in [Symbols -> Names] /\ shardOf \in [Symbols -> Shards] /\ bound \in [Uses -> Symbols]
    BY <1>1, <1>2, NothingIsEmpty
  <2> QED BY <1>2, <2>1, <2>2 DEF WellFormed
<1>5. PositionsOK
  BY <1>3 DEF PositionsOK
<1>6. NamingOK
  <2>1. ladder \in [Indices -> Seq(ModName)] /\ ordinal \in [Indices -> Positions]
    BY <1>1, <1>2, NothingIsEmpty
  <2> QED BY <1>2, <2>1 DEF NamingOK
<1>7. TagInv /\ NamingInv
  BY <1>1, <1>4, <1>5, <1>6, InitTagInv, InitNaming
<1>8. GroupInv
  BY InitKeepsGroups
<1>9. UnitsInv /\ ShapesInv
  BY <1>1 DEF UnitsInv, ShapesInv
<1>10. PhaseInv
  BY <1>1 DEF PhaseInv, TagStart, NamingStart
<1>11. MergeInv
  BY <1>1 DEF MergeInv, Merging
<1>12. ResolveInv
  BY <1>1 DEF ResolveInv
<1> QED BY <1>7, <1>8, <1>9, <1>10, <1>11, <1>12 DEF LinkInv

(* A stuttering step keeps LinkInv.                                         *)
LEMMA StutterKeepsLink == LinkInv /\ UNCHANGED linkVars => LinkInv'
<1> SUFFICES ASSUME LinkInv, UNCHANGED linkVars PROVE LinkInv'
  OBVIOUS
<1>1. /\ phase' = phase /\ UNCHANGED groupVars /\ units' = units /\ UNCHANGED mergeVars
      /\ UNCHANGED resolveVars /\ UNCHANGED tagVars /\ UNCHANGED nameVars
  BY DEF linkVars
<1>2. /\ line' = line /\ class' = class /\ edges' = edges /\ groups' = groups /\ joined' = joined
      /\ cursor' = cursor /\ defs' = defs /\ sunk' = sunk /\ obligations' = obligations
      /\ erased' = erased /\ shape' = shape /\ calls' = calls /\ linkFailed' = linkFailed
      /\ imported' = imported /\ shardOf' = shardOf /\ bound' = bound /\ ordinalMaps' = ordinalMaps
      /\ name' = name /\ tagStep' = tagStep /\ shard' = shard /\ renames' = renames
      /\ ladder' = ladder /\ pool' = pool /\ visits' = visits /\ nameStep' = nameStep
  BY <1>1 DEF groupVars, mergeVars, resolveVars, tagVars, shardVars, nameVars, namingInput
<1>3. GroupInv'
  BY <1>1, <1>2 DEF LinkInv, GroupInv, Classes, StandsIn, Origin, Loses
<1>4. UnitsInv'
  BY <1>1, <1>2, UnitsStay DEF LinkInv
<1>5. PhaseInv'
  BY <1>1, <1>2 DEF LinkInv, PhaseInv, TagsDone, NamingDone, Indices
<1>6. TagInv' /\ NamingInv'
  BY <1>1, StutterKeepsTags, StutterKeepsNames DEF LinkInv
<1>7. MergeInv'
  BY <1>1, MergeStays DEF LinkInv
<1>8. ShapesInv'
  <2>1. CASE phase = "group"
    BY <1>1, <2>1 DEF ShapesInv
  <2>2. CASE phase # "group"
    BY <1>1, <1>2, <2>2, ShapesStay DEF LinkInv
  <2> QED BY <2>1, <2>2
<1>9. ResolveInv'
  <2>1. \A o : Met(o) => Met(o)'
    BY <1>1, <1>2, MetStays
  <2>2. Uses' = Uses /\ \A n : Bearers(n)' = Bearers(n)
    BY <1>1, <1>2, SameBearers DEF Uses
  <2>3. \A u \in Uses : Bearers(name[bound[u]])' = Bearers(name[bound[u]])
    BY <1>1, <1>2, <2>2 DEF Bearers, Sunk, Op
  <2>4. \A s, d : Widened(s, d)' <=> Widened(s, d)
    BY <1>1 DEF Widened, Op
  <2> QED BY <1>1, <1>2, <2>1, <2>2, <2>3, <2>4 DEF LinkInv, ResolveInv
<1> QED BY <1>3, <1>4, <1>5, <1>6, <1>7, <1>8, <1>9 DEF LinkInv

(* The whole link keeps LinkInv, for every set of link lines that           *)
(* LinesAssumption admits.                                                  *)
THEOREM LinkInvariant == LinkSpec => []LinkInv
<1>1. LinkInit => LinkInv
  BY InitLinkInv
<1>2. LinkInv /\ [LinkNext]_linkVars => LinkInv'
  <2>1. LinkInv /\ LinkNext => LinkInv'
    BY NextKeepsGroups, NextKeepsUnits, NextKeepsPhases, NextKeepsTags, NextKeepsNames,
       NextKeepsMerge, NextKeepsShapes, NextKeepsResolve DEF LinkInv
  <2> QED BY <2>1, StutterKeepsLink
<1> QED BY <1>1, <1>2, PTL DEF LinkSpec

(* In the whole link, as in the renaming alone, no reference is captured: a *)
(* use spells the name of the symbol it was bound to at import.             *)
THEOREM LinkNoCapture == LinkSpec => []UsesFollowTheirSymbols
<1>1. LinkInv => UsesFollowTheirSymbols
  BY NothingIsCaptured DEF LinkInv
<1> QED BY <1>1, LinkInvariant, PTL

(* In the whole link no two file-statics share a name once the renaming is  *)
(* over.                                                                    *)
THEOREM LinkStaticsApart == LinkSpec => []StaticsNeverMeet
<1>1. LinkInv => StaticsNeverMeet
  BY StaticsAreApart DEF LinkInv
<1> QED BY <1>1, LinkInvariant, PTL

(* In the whole link no two shards are given one module, and none the name  *)
(* of a type at the root.                                                   *)
THEOREM LinkModulesApart == LinkSpec => []ModuleNamesApart
<1>1. LinkInv => ModuleNamesApart
  BY NamesAreApart DEF LinkInv
<1> QED BY <1>1, LinkInvariant, PTL

(* When the link is done every item but a declaration is kept, or a         *)
(* definition of its name, kind and type stands for it.                    *)
LEMMA DoneItems ==
  ASSUME LinkInv, phase = "done"
  PROVE  /\ phase # "group" /\ Merging /\ DefsInv /\ SunkInv /\ ObligedInv
         /\ \A s \in Symbols : Op(s).kind # "decl" => s \in defs \/ Replaced(s)
         /\ \A s \in Symbols : Op(s).kind = "decl" => Met(s)
<1>1. phase # "group" /\ Merging /\ DefsInv /\ SunkInv /\ ObligedInv
  BY DEF LinkInv, MergeInv, Merging
<1>2. \A s : Visited(s)
  BY DEF Visited
<1>3. \A s \in Symbols : Op(s).kind # "decl" => s \in defs \/ Replaced(s)
  BY <1>1, <1>2 DEF DefsInv
<1>4. ASSUME NEW s \in Symbols, Op(s).kind = "decl" PROVE Met(s)
  <2>1. obligations \in Seq(Symbols) /\ s \in Range(obligations)
    BY <1>1, <1>2, <1>4 DEF ObligedInv
  <2>2. PICK k \in DOMAIN obligations : obligations[k] = s
    BY <2>1 DEF Range
  <2>3. cursor[1] \in Nat /\ k \in Nat /\ k <= Len(obligations)
    BY <1>1, <2>1 DEF DefsInv
  <2>4. cursor[1] > Len(obligations) /\ ~linkFailed
    BY DEF LinkInv, ResolveInv
  <2>5. k < cursor[1]
    BY <2>1, <2>3, <2>4
  <2> QED BY <2>2, <2>4, <2>5 DEF LinkInv, ResolveInv
<1> QED BY <1>1, <1>3, <1>4

(* What was provided comes from a symbol of a unit, which is kept or        *)
(* replaced by a definition of the same name and linkage.                   *)
LEMMA DefinitionsStay == LinkInv => DefinitionsSurvive
<1> SUFFICES ASSUME LinkInv, phase = "done",
                    NEW i \in DOMAIN line, NEW f \in Provides(line[i].ops)
             PROVE  \E d \in defs : Defines(Op(d)) /\ Op(d).rest = f
  BY DEF DefinitionsSurvive
<1>1. phase # "group" /\ Merging /\ DefsInv
  BY DoneItems
<1>2. PICK n \in DOMAIN units : f \in Provides(units[n].ops)
  <2>1. Provides(line[i].ops) \subseteq UNION {Provides(units[n].ops) : n \in DOMAIN units}
    BY <1>1 DEF LinkInv, UnitsInv
  <2> QED BY <2>1
<1>3. PICK k \in DOMAIN units[n].ops : Defines(units[n].ops[k]) /\ units[n].ops[k].rest = f
  BY <1>2 DEF Provides
<1>4. PICK s \in Symbols : Op(s) = units[n].ops[k]
  <2>1. <<n, k>> \in Symbols
    BY <1>1, <1>3, MergeUnits DEF LinkInv, Named, Defines
  <2> QED BY <2>1 DEF Op
<1>5. Defines(Op(s)) /\ Op(s).rest = f /\ Op(s).kind # "decl"
  BY <1>3, <1>4 DEF Defines
<1>6. CASE s \in defs
  BY <1>5, <1>6
<1>7. CASE Replaced(s)
  <2>1. PICK d \in Bearers(name[s]) : Dedupable(s, d)
    BY <1>7 DEF Replaced
  <2>2. d \in defs /\ d \in Symbols /\ name[d] = name[s] /\ Op(d).kind = Op(s).kind
    BY <1>1, <2>1 DEF Bearers, DefsInv, Dedupable
  <2>3. Op(d).rest = Op(s).rest /\ (External(Op(d)) <=> External(Op(s)))
    BY <1>1, <2>2, FinalNames DEF LinkInv
  <2> QED BY <1>5, <2>2, <2>3 DEF Defines
<1> QED BY <1>1, <1>5, <1>6, <1>7, DoneItems

(* The one bearer of the name called has the model the call was shaped for, *)
(* or has met the declaration it was shaped for.                            *)
LEMMA CallsFit == LinkInv => CallsFitTheirCallee
<1> SUFFICES ASSUME LinkInv, phase = "done", NEW u \in Uses
             PROVE  \E d \in Bearers(use[u]) :
                      /\ Bearers(use[u]) = {d}
                      /\ shape[u] \in {"slice", "tail", "view"} => Op(d).model = "slice"
                      /\ shape[u] \in {"cursor", "here", "object"} => Op(d).model = "scalar"
                      /\ shape[u] = "value" => Op(d).model = Op(bound[u]).model
  BY DEF CallsFitTheirCallee
<1>1. phase # "group" /\ Merging /\ DefsInv
  BY DoneItems
<1>2. PICK s \in Symbols : /\ s = bound[u] /\ use[u] = name[s]
                           /\ Op(s).kind \in {"fn", "decl", "global"}
  BY <1>1, MergeUnits, UsesMean DEF LinkInv
<1>3. \A d \in Bearers(name[s]) : Bearers(name[s]) = {d}
  BY <1>1 DEF Bearers, DefsInv
<1>4. /\ shape[u] \in Ways
      /\ \/ shape[u] \in Shapes(Op(s).model)
         \/ shape[u] \in Resliced /\ \E d \in Bearers(name[s]) : Widened(s, d)
  BY <1>1, <1>2 DEF LinkInv, ShapesInv
<1>5. calls = {}
  BY DEF LinkInv, ResolveInv
<1>6. PICK d \in Bearers(name[s]) :
        \/ Op(d).model = Op(s).model
        \/ Widened(s, d) /\ shape[u] \in Resliced
  <2>1. CASE Op(s).kind = "decl"
    <3>1. Met(s)
      BY <2>1, DoneItems
    <3> QED BY <1>2, <1>5, <3>1 DEF Met
  <2>2. CASE Op(s).kind # "decl"
    <3>1. CASE s \in defs
      <4>1. s \in Bearers(name[s])
        BY <1>2, <3>1 DEF Bearers, Sunk
      <4> QED BY <4>1
    <3>2. CASE Replaced(s)
      BY <3>2 DEF Replaced
    <3> QED BY <2>2, <3>1, <3>2, DoneItems
  <2> QED BY <2>1, <2>2
<1>7. /\ shape[u] \in {"slice", "tail", "view"} => Op(d).model = "slice"
      /\ shape[u] \in {"cursor", "here", "object"} => Op(d).model = "scalar"
      /\ shape[u] = "value" => Op(d).model = Op(s).model
  <2>1. CASE Op(d).model = Op(s).model
    <3>1. CASE shape[u] \in Shapes(Op(s).model)
      BY <2>1, <3>1 DEF Shapes
    <3>2. CASE shape[u] \in Resliced /\ \E e \in Bearers(name[s]) : Widened(s, e)
      BY <1>3, <2>1, <3>2 DEF Resliced, Widened
    <3> QED BY <1>4, <3>1, <3>2
  <2>2. CASE Widened(s, d) /\ shape[u] \in Resliced
    BY <2>2 DEF Widened, Resliced
  <2> QED BY <1>6, <2>1, <2>2
<1> QED BY <1>2, <1>3, <1>6, <1>7

(* Where a record is looked for: at the root, unless its own unit keeps it  *)
(* in its module.                                                          *)
LEMMA WhereRecordsAre ==
  ASSUME LinkInv, phase = "done", NEW s \in Symbols, Op(s).kind = "record"
  PROVE  /\ \A d \in Arrives(s[1], Op(s).rest) : Op(d).model = Op(s).model
         /\ Arrives(s[1], Op(s).rest) # {}
<1> DEFINE r == Op(s).rest
<1>1. /\ phase # "group" /\ Merging /\ DefsInv /\ SunkInv /\ UnitsInv /\ PhaseInv /\ TagInv
      /\ NamingInv
  BY DoneItems DEF LinkInv
<1>2. s[1] \in DOMAIN units /\ External(Op(s)) /\ Named(Op(s))
  BY <1>1, MergeUnits
<1>3. ASSUME NEW d \in Arrives(s[1], r)
      PROVE  /\ d \in defs /\ d \in Symbols /\ d[1] \in DOMAIN units /\ External(Op(d))
             /\ name[d] = name[s] /\ Path(d[1], r) = Path(s[1], r) /\ Op(d).rest = r
             /\ (Op(d).kind = "record" \/ Op(d).kind = "enum")
  <2>1. /\ d \in defs /\ Op(d).rest = r /\ Path(d[1], r) = Path(s[1], r)
        /\ Op(d).kind \in {"record", "enum"}
    BY DEF Arrives
  <2>2. d \in Symbols
    BY <1>1, <2>1 DEF DefsInv
  <2>3. d[1] \in DOMAIN units /\ External(Op(d))
    BY <1>1, <2>1, <2>2, MergeUnits
  <2> QED BY <1>1, <1>2, <2>1, <2>2, <2>3, ExternalNames
<1>4. CASE <<s[1], r>> \in sunk
  <2>1. PICK e \in defs : e[1] = s[1] /\ Op(e).kind = "record" /\ Op(e).rest = r
    <3>1. PICK x \in sunk : x = <<s[1], r>>
      BY <1>4
    <3>2. x[1] = s[1] /\ x[2] = r
      BY <3>1
    <3>3. \E e \in defs : e[1] = x[1] /\ Op(e).kind = "record" /\ Op(e).rest = x[2]
      BY <1>1 DEF SunkInv
    <3> QED BY <3>2, <3>3
  <2>2. e \in Symbols /\ External(Op(e))
    BY <1>1, <2>1, MergeUnits DEF DefsInv
  <2>3. name[e] = name[s]
    BY <1>1, <1>2, <2>1, <2>2, ExternalNames
  <2>4. e = s
    BY <1>1, <2>1, <2>2, <2>3, FinalNames
  <2>5. s \in Arrives(s[1], r)
    BY <2>1, <2>4 DEF Arrives
  <2>6. ASSUME NEW d \in Arrives(s[1], r) PROVE d = s
    <3>1. Path(d[1], r) = modNames[s[1]]
      BY <1>3, <1>4 DEF Path
    <3>2. modNames[s[1]] # Root
      BY <1>1, <1>2, FinalModules
    <3>3. modNames[d[1]] = modNames[s[1]]
      BY <3>1, <3>2 DEF Path
    <3>4. d[1] = s[1]
      BY <1>1, <1>2, <1>3, <3>3, FinalModules
    <3> QED BY <1>1, <1>3, <3>4, FinalNames
  <2> QED BY <2>5, <2>6
<1>5. CASE <<s[1], r>> \notin sunk
  <2>1. Path(s[1], r) = Root
    BY <1>5 DEF Path
  <2>2. ASSUME NEW d \in Arrives(s[1], r) PROVE d \in Bearers(name[s])
    <3>1. <<d[1], r>> \notin sunk
      BY <1>1, <1>3, <2>1, FinalModules DEF Path
    <3> QED BY <1>3, <3>1 DEF Bearers, Sunk
  <2>3. \A d \in Bearers(name[s]) : Bearers(name[s]) = {d}
    BY <1>1 DEF Bearers, DefsInv
  <2>4. CASE s \in defs
    <3>1. s \in Bearers(name[s])
      BY <1>5, <2>4 DEF Bearers, Sunk
    <3>2. s \in Arrives(s[1], r)
      BY <2>4 DEF Arrives
    <3> QED BY <2>2, <2>3, <3>1, <3>2
  <2>5. CASE Replaced(s)
    <3>1. PICK d \in Bearers(name[s]) : Dedupable(s, d) /\ Op(d).model = Op(s).model
      BY <2>5 DEF Replaced
    <3>2. d \in defs /\ d \in Symbols /\ name[d] = name[s] /\ ~Sunk(d) /\ Op(d).kind = "record"
      BY <1>1, <3>1 DEF Bearers, DefsInv, Dedupable
    <3>3. Op(d).rest = r
      BY <1>1, <3>2, FinalNames
    <3>4. Path(d[1], r) = Root
      BY <3>2, <3>3 DEF Sunk, Path
    <3>5. d \in Arrives(s[1], r)
      BY <2>1, <3>2, <3>3, <3>4 DEF Arrives
    <3> QED BY <2>2, <2>3, <3>1, <3>5
  <2>6. s \in defs \/ Replaced(s)
    BY DoneItems
  <2> QED BY <2>4, <2>5, <2>6
<1> QED BY <1>4, <1>5

(* What a symbol shows outside its unit never moves into a module.          *)
LEMMA ShownStaysAtRoot ==
  ASSUME LinkInv, phase = "done", NEW s \in Symbols, NEW r \in Shown(Op(s))
  PROVE  Path(s[1], r) = Root
<1>1. SunkInv /\ UnitsInv /\ phase # "group"
  BY DoneItems DEF LinkInv
<1>2. s[1] \in DOMAIN units /\ s[2] \in DOMAIN units[s[1]].ops
  BY <1>1, MergeUnits
<1>3. r \in Escapes(s[1])
  BY <1>2 DEF Escapes, Op
<1>4. <<s[1], r>> \notin sunk
  <2> SUFFICES ASSUME NEW x \in sunk, x = <<s[1], r>> PROVE FALSE
    OBVIOUS
  <2>1. x[2] \notin Escapes(x[1])
    BY <1>1 DEF SunkInv
  <2> QED BY <1>3, <2>1
<1> QED BY <1>4 DEF Path

(* Only the record itself can have moved into a module under its name.      *)
LEMMA OnlyItselfSank ==
  ASSUME LinkInv, phase = "done", NEW s \in Symbols, Op(s).kind \in {"record", "enum"},
         Path(s[1], Op(s).rest) # Root
  PROVE  s \in defs /\ Sunk(s)
<1>1. /\ phase # "group" /\ Merging /\ DefsInv /\ SunkInv /\ UnitsInv /\ PhaseInv /\ TagInv
  BY DoneItems DEF LinkInv
<1>2. PICK x \in sunk : x = <<s[1], Op(s).rest>>
  BY DEF Path
<1>3. PICK e \in defs : e[1] = x[1] /\ Op(e).kind = "record" /\ Op(e).rest = x[2]
  BY <1>1 DEF SunkInv
<1>4. e[1] = s[1] /\ Op(e).rest = Op(s).rest /\ e \in Symbols
  BY <1>1, <1>2, <1>3 DEF DefsInv
<1>5. External(Op(e)) /\ External(Op(s))
  BY <1>1, <1>3, <1>4, MergeUnits
<1>6. e = s
  BY <1>1, <1>4, <1>5, ExternalNames, FinalNames
<1> QED BY <1>2, <1>3, <1>6 DEF Sunk

(* An item the link dropped and the one that stands for it look for every   *)
(* record they name in the same place.                                      *)
LEMMA DroppedItemsMeanTheSame ==
  ASSUME LinkInv, phase = "done", NEW s \in Symbols, s \in erased,
         NEW d \in Bearers(name[s]), NEW r \in Op(s).iface
  PROVE  Path(s[1], r) = Path(d[1], r)
<1>1. /\ phase # "group" /\ Merging /\ DefsInv /\ UnitsInv /\ PhaseInv /\ TagInv
  BY DoneItems DEF LinkInv
<1>2. /\ d \in defs /\ d \in Symbols /\ name[d] = name[s] /\ ~Sunk(d) /\ d \notin erased
  BY <1>1 DEF Bearers, DefsInv
<1>3. \A e \in Bearers(name[s]) : e = d
  BY <1>1 DEF Bearers, DefsInv
<1>4. External(Op(s)) /\ External(Op(d)) /\ Op(d).rest = Op(s).rest
  BY <1>1, <1>2, FinalNames
<1>5. CASE Op(s).kind = "decl"
  <2>1. IsFunction(Op(d)) /\ Op(d).iface = Op(s).iface
    BY <1>3, <1>5, DoneItems DEF Met
  <2>2. r \in Shown(Op(s)) /\ r \in Shown(Op(d))
    BY <1>4, <1>5, <2>1 DEF Shown, IsFunction
  <2> QED BY <1>2, <2>2, ShownStaysAtRoot
<1>6. CASE Op(s).kind # "decl"
  <2>1. Replaced(s)
    BY <1>1, <1>6 DEF DefsInv
  <2>2. Dedupable(s, d) /\ Op(s).iface = Op(d).iface
    BY <1>3, <2>1 DEF Replaced
  <2>3. Op(s).kind \in {"record", "enum", "global"} /\ Op(d).kind = Op(s).kind
    BY <2>2 DEF Dedupable
  <2>4. CASE Op(s).kind = "global" \/ r # Op(s).rest
    <3>1. r \in Shown(Op(s)) /\ r \in Shown(Op(d))
      BY <1>4, <2>2, <2>3, <2>4 DEF Shown, IsFunction
    <3> QED BY <1>2, <3>1, ShownStaysAtRoot
  <2>5. CASE Op(s).kind \in {"record", "enum"} /\ r = Op(s).rest
    <3>1. Path(s[1], r) = Root
      BY <1>1, <2>5, OnlyItselfSank DEF DefsInv
    <3>2. Path(d[1], r) = Root
      BY <1>2, <1>4, <2>3, <2>5, OnlyItselfSank
    <3> QED BY <3>1, <3>2
  <2> QED BY <2>3, <2>4, <2>5
<1> QED BY <1>5, <1>6

(* Together: where records are, what stays at the root, what was dropped.   *)
LEMMA MentionsStay == LinkInv => MentionsKeepTheirShape
<1> SUFFICES ASSUME LinkInv, phase = "done", NEW s \in Symbols
             PROVE  /\ Op(s).kind = "record" =>
                         /\ \A d \in Arrives(s[1], Op(s).rest) : Op(d).model = Op(s).model
                         /\ Arrives(s[1], Op(s).rest) # {}
                    /\ s \in Kept => \A r \in Op(s).text : Path(s[1], r) = Root
                    /\ s \notin Kept => \A d \in Bearers(name[s]) : \A r \in Op(s).iface :
                                          Path(s[1], r) = Path(d[1], r)
  BY DEF MentionsKeepTheirShape
<1>1. \A r \in Op(s).text : Path(s[1], r) = Root
  BY ShownStaysAtRoot DEF Shown
<1>2. s \notin Kept => \A d \in Bearers(name[s]) : \A r \in Op(s).iface :
                         Path(s[1], r) = Path(d[1], r)
  BY DroppedItemsMeanTheSame DEF Kept
<1> QED BY <1>1, <1>2, WhereRecordsAre

(* For every link line, a linked program means by every record what its     *)
(* unit meant (mergeLinkShards, the sinking of records).                    *)
THEOREM LinkedMentionsKeepTheirShape == LinkSpec => []MentionsKeepTheirShape
BY MentionsStay, LinkInvariant, PTL

(* For every link line, every call of a linked program names one definition *)
(* and hands it the kind of pointer it takes.                               *)
THEOREM LinkedCallsFit == LinkSpec => []CallsFitTheirCallee
BY CallsFit, LinkInvariant, PTL

(* For every link line, whatever an object defines for others is still      *)
(* defined once the link succeeds.                                          *)
THEOREM LinkedDefinitionsSurvive == LinkSpec => []DefinitionsSurvive
BY DefinitionsStay, LinkInvariant, PTL
=============================================================================
