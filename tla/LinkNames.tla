------------------------------ MODULE LinkNames ------------------------------
(***************************************************************************)
(* How the link step names the Rust module of each shard                   *)
(* (computeShardModuleNames, LinkMerge.cpp): after the source file, longer *)
(* by one directory while several shards want the same name, and after the *)
(* position on the link line when no name of the file will do.  Two shards *)
(* with one module name would put the private items of both in one place.  *)
(***************************************************************************)
EXTENDS Integers, Sequences

CONSTANTS
  ModName,       \* the names in play
  NoName,        \* not yet named
  Unspellable,   \* the names rustc would not take: keywords, digits first, empty
  OrdinalShaped, \* the names of the shape tu<n>
  OrdinalName    \* OrdinalName[n]: tu<n>, the name after position n

Positions == DOMAIN OrdinalName

ASSUME OrdinalNames ==
  /\ OrdinalName \in [Positions -> OrdinalShaped \intersect ModName]
  /\ \A m, n \in Positions : OrdinalName[m] = OrdinalName[n] => m = n
  /\ NoName \notin ModName

VARIABLES
  ladder,     \* ladder[i]: the candidates of shard i, shortest first; <<>> without a path
  ordinal,    \* ordinal[i]: its position on the link line
  reserved,   \* the type names at the root of the crate
  modNames,   \* modNames[i]: its name
  assigned,   \* the candidates taken
  pool,       \* the shards still to be named
  rank,       \* rank[i]: the candidate shard i wants now
  wanted,     \* what each member of the pool wanted when the round began
  visits,     \* the members the round has still to look at
  nameStep    \* "first", "round"

namingInput == <<ladder, ordinal, reserved>>
nameVars == <<namingInput, modNames, assigned, pool, rank, wanted, visits, nameStep>>

Indices == DOMAIN ladder

NamingOK ==
  /\ ladder \in [Indices -> Seq(ModName)]
  /\ ordinal \in [Indices -> Positions]
  /\ \A i, j \in Indices : ordinal[i] = ordinal[j] => i = j
  /\ Indices \subseteq Nat

NamingStart ==
  /\ modNames = [i \in Indices |-> NoName]
  /\ rank = [i \in Indices |-> 1]
  /\ assigned = {} /\ pool = {} /\ visits = {} /\ wanted = <<>>
  /\ nameStep = "first"

Unusable == Unspellable \union OrdinalShaped \union reserved

EvenIfTaken(c) == c \notin Unusable

Usable(c) == c \notin Unusable \union assigned

ByPosition(i) == OrdinalName[ordinal[i]]

-----------------------------------------------------------------------------
(* Pass 1: no source path, or a stem that can never be a module name.      *)
FirstPass ==
  /\ nameStep = "first"
  /\ pool' = {i \in Indices : ladder[i] # <<>> /\ Usable(ladder[i][1])}
  /\ modNames' = [i \in Indices |-> IF i \in pool' THEN NoName ELSE ByPosition(i)]
  /\ nameStep' = "round"
  /\ UNCHANGED <<namingInput, assigned, rank, wanted, visits>>

(* Pass 2, one round: the claims are counted before anyone is named.       *)
BeginRound ==
  /\ nameStep = "round" /\ visits = {} /\ pool # {}
  /\ wanted' = [i \in pool |-> ladder[i][rank[i]]]
  /\ visits' = pool
  /\ UNCHANGED <<namingInput, modNames, assigned, pool, rank, nameStep>>

NextVisit(i) == i \in visits /\ \A j \in visits : i <= j

Claimed(i) ==
  /\ \A j \in DOMAIN wanted : j # i => wanted[j] # wanted[i]
  /\ Usable(wanted[i])

CanClimb(i) == rank[i] + 1 <= Len(ladder[i]) /\ Usable(ladder[i][rank[i] + 1])

Take(i) ==
  /\ Claimed(i)
  /\ modNames' = [modNames EXCEPT ![i] = wanted[i]]
  /\ assigned' = assigned \union {wanted[i]}
  /\ pool' = pool \ {i}
  /\ UNCHANGED rank

Climb(i) ==
  /\ ~Claimed(i) /\ CanClimb(i)
  /\ rank' = [rank EXCEPT ![i] = @ + 1]
  /\ UNCHANGED <<modNames, assigned, pool>>

FallBack(i) ==
  /\ ~Claimed(i) /\ ~CanClimb(i)
  /\ modNames' = [modNames EXCEPT ![i] = ByPosition(i)]
  /\ pool' = pool \ {i}
  /\ UNCHANGED <<assigned, rank>>

Visit ==
  /\ nameStep = "round"
  /\ \E i \in visits :
        /\ NextVisit(i)
        /\ Take(i) \/ Climb(i) \/ FallBack(i)
        /\ visits' = visits \ {i}
  /\ UNCHANGED <<namingInput, wanted, nameStep>>

NamingNext == FirstPass \/ BeginRound \/ Visit

NamingDone == nameStep = "round" /\ pool = {} /\ visits = {}

NamingSpec == NamingOK /\ NamingStart /\ [][NamingNext]_nameVars

-----------------------------------------------------------------------------
(* Two shards are never given one module, and no module is given the name  *)
(* of a type at the root of the crate, which rustc refuses (E0428).        *)
ModuleNamesApart ==
  \A i \in Indices :
     modNames[i] # NoName =>
       /\ \A j \in Indices : modNames[j] = modNames[i] => i = j
       /\ modNames[i] # ByPosition(i) => modNames[i] \notin reserved
=============================================================================
