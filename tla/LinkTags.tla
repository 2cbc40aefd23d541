------------------------------- MODULE LinkTags -------------------------------
(***************************************************************************)
(* Step 1 of `emitrust-cc --link` (renameShardTags, LinkMerge.cpp).  Every  *)
(* shard was imported on its own and tagged its file-statics tu0_, tu1_,    *)
(* ...; the link moves each tag to the position its translation unit has   *)
(* on the link line, and everything that names the symbol has to follow:   *)
(* symbol references, which are rewritten with each rename, and plain text *)
(* (call_opaque callees, opaque payloads), rewritten once at the end from   *)
(* the ORIGINAL names.                                                     *)
(*                                                                         *)
(* A rename that hits a name another symbol of the shard still carries     *)
(* would capture the references of both; the order of the renames is what  *)
(* prevents it.                                                            *)
(***************************************************************************)
EXTENDS Integers, Sequences

CONSTANT Rest   \* what a symbol's name says besides its tag

Untagged == -1

Names == [tag : Nat \union {Untagged}, rest : Rest]

VARIABLES
  ordinalMaps,  \* ordinalMaps[i][k + 1]: the position of shard i's unit k
  imported,     \* imported[s]: the name symbol s has in its shard
  shardOf,      \* shardOf[s]: the shard symbol s belongs to
  bound,        \* bound[u]: the symbol that use u of its shard means
  textual,      \* the uses that are plain text
  name,         \* name[s]: the name of symbol s now
  use,          \* use[u]: the name spelled at use u now
  shard,        \* the shard being renamed
  renames,      \* its renames still to be made
  tagStep       \* "collect", "rename", "failed"

shardVars == <<ordinalMaps, imported, shardOf, bound, textual>>
tagVars   == <<shardVars, name, use, shard, renames, tagStep>>

Shards  == 1..Len(ordinalMaps)
Symbols == DOMAIN imported
Uses    == DOMAIN bound

Ordinal(s) == imported[s].tag
TaggedIn(i) == {s \in Symbols : shardOf[s] = i /\ Ordinal(s) # Untagged}

StrictlyIncreasing(map) == \A j, k \in DOMAIN map : j < k => map[j] < map[k]

KeepsItsTag(s) == imported[s]

(* The name the shard's map gives symbol s.                                *)
Renamed(s) ==
  [tag |-> ordinalMaps[shardOf[s]][Ordinal(s) + 1], rest |-> imported[s].rest]

Final(s) == IF Ordinal(s) = Untagged THEN imported[s] ELSE Renamed(s)

(* What a shard is when the link starts: its symbols have different names  *)
(* and every use spells the name of the symbol it means.                   *)
WellFormed ==
  /\ ordinalMaps \in Seq(Seq(Nat))
  /\ imported \in [Symbols -> Names]
  /\ shardOf \in [Symbols -> Shards]
  /\ bound \in [Uses -> Symbols]
  /\ \A s, t \in Symbols : shardOf[s] = shardOf[t] /\ imported[s] = imported[t] => s = t

(* Positions of one shard's units come from a sorted set, so the unit      *)
(* numbered k stands at k or later; two shards share no position.          *)
PositionsOK ==
  /\ \A i \in Shards : \A k \in DOMAIN ordinalMaps[i] : k - 1 <= ordinalMaps[i][k]
  /\ \A i, j \in Shards : i # j =>
        \A k \in DOMAIN ordinalMaps[i], l \in DOMAIN ordinalMaps[j] :
           ordinalMaps[i][k] # ordinalMaps[j][l]

TagStart ==
  /\ name = imported
  /\ use = [u \in Uses |-> imported[bound[u]]]
  /\ shard = 1 /\ renames = {} /\ tagStep = "collect"

-----------------------------------------------------------------------------
(* The checks on the map and on every tag, then the list of the renames; a *)
(* symbol whose tag stays is not on it.                                    *)
Collect ==
  /\ tagStep = "collect" /\ shard \in Shards
  /\ StrictlyIncreasing(ordinalMaps[shard])
  /\ \A s \in TaggedIn(shard) : Ordinal(s) < Len(ordinalMaps[shard])
  /\ renames' = {s \in TaggedIn(shard) : Renamed(s) # imported[s]}
  /\ tagStep' = "rename"
  /\ UNCHANGED <<shardVars, name, use, shard>>

RejectShard ==
  /\ tagStep = "collect" /\ shard \in Shards
  /\ \/ ~StrictlyIncreasing(ordinalMaps[shard])
     \/ \E s \in TaggedIn(shard) : Ordinal(s) >= Len(ordinalMaps[shard])
  /\ tagStep' = "failed"
  /\ UNCHANGED <<shardVars, name, use, shard, renames>>

SmallestFirst(s) == s \in renames /\ \A t \in renames : Ordinal(s) <= Ordinal(t)

(* Largest source ordinal first; replaceAllSymbolUses goes by name.        *)
NextToRename(s) == s \in renames /\ \A t \in renames : Ordinal(t) <= Ordinal(s)

Rename ==
  /\ tagStep = "rename"
  /\ \E s \in renames :
        /\ NextToRename(s)
        /\ use' = [u \in Uses |->
                     IF u \notin textual /\ shardOf[bound[u]] = shard /\ use[u] = name[s]
                     THEN Renamed(s) ELSE use[u]]
        /\ name' = [name EXCEPT ![s] = Renamed(s)]
        /\ renames' = renames \ {s}
  /\ UNCHANGED <<shardVars, shard, tagStep>>

(* The text carriers: a word is looked up among the original names.        *)
TextRename(word) ==
  IF \E s \in TaggedIn(shard) : imported[s] = word
  THEN Renamed(CHOOSE s \in TaggedIn(shard) : imported[s] = word)
  ELSE word

RewriteTexts ==
  /\ tagStep = "rename" /\ renames = {}
  /\ use' = [u \in Uses |-> IF u \in textual /\ shardOf[bound[u]] = shard
                            THEN TextRename(use[u]) ELSE use[u]]
  /\ shard' = shard + 1 /\ tagStep' = "collect"
  /\ UNCHANGED <<shardVars, name, renames>>

TagNext == Collect \/ RejectShard \/ Rename \/ RewriteTexts

TagsDone == tagStep = "collect" /\ shard > Len(ordinalMaps)

TagSpec == WellFormed /\ PositionsOK /\ TagStart /\ [][TagNext]_tagVars

-----------------------------------------------------------------------------
(* At every step a symbol reference spells the name its symbol has at that *)
(* moment, and when a shard is done its texts do too: no rename captures a *)
(* reference of another symbol.                                            *)
UsesFollowTheirSymbols ==
  \A u \in Uses :
     (u \notin textual \/ shard > shardOf[bound[u]]) => use[u] = name[bound[u]]

(* Once every shard is renamed no two file-statics of the whole link share *)
(* a name.                                                                 *)
StaticsNeverMeet ==
  TagsDone =>
    \A s, t \in Symbols :
       Ordinal(s) # Untagged /\ Ordinal(t) # Untagged /\ name[s] = name[t] => s = t
=============================================================================
