------------------------------- MODULE Workspace -------------------------------
(***************************************************************************)
(* emitPartitionedWorkspace and liftPartitionBinActors (tools/emitrust-cc/ *)
(* emitrust-cc.cpp) with the demotion table of ActorLiftPlan.cpp: the two  *)
(* planners look at one link line, and the actors that fit wholly into the *)
(* binary crate are lifted there.                                          *)
(***************************************************************************)
EXTENDS Partition, ActorPlan

VARIABLE lifted    \* the actors certified for the lift

vars == <<line, partitionVars, actorVars, lifted>>

Actors == Range(owner)

(* The crate of the definition an item's node is merged from.              *)
CrateOf(k) ==
  LET units == {u \in Units : k[1] \in {0, u} /\ k[2] \in line[u].defs} IN
  {crateOf[u] : u \in units}

InTheBinary(k) == CrateOf(k) # {} /\ \A b \in BinUnits : CrateOf(k) = {crateOf[b]}

(* Rule 0: its globals, its arms and its clients are all in the binary.    *)
BinLocal(a) ==
  /\ BinUnits # {}
  /\ \A x \in DOMAIN owner \ {Stdout} : owner[x] = a => InTheBinary(x)
  /\ \A f \in Defined : a \in ActorsOf(f) => InTheBinary(f)

AddressTaken == {e[2] : e \in Linked({"TakesAddressOf", "AddressOfGlobal"})}

(* A mistake: only arms are looked at.                                     *)
ReachableArm(a) ==
  \/ \E f \in AddressTaken \intersect Defined : ActorsOf(f) = {a}
  \/ \E x \in AddressTaken \intersect DOMAIN owner : owner[x] = a

(* Rules 1 and 1b: no function pointer can thread an actor, and no address *)
(* may escape it.                                                          *)
Reachable(a) ==
  \/ \E f \in AddressTaken \intersect Defined : a \in ActorsOf(f)
  \/ \E x \in AddressTaken \intersect DOMAIN owner : owner[x] = a

(* An actor of nothing but the stream has no field, and is not lifted.     *)
HasFields(a) == \E x \in DOMAIN owner \ {Stdout} : owner[x] = a

Certify ==
  /\ stage = "planned" /\ rule = "planned" /\ rule' = "certified"
  /\ lifted' = {a \in Actors : BinLocal(a) /\ ~Reachable(a) /\ a \notin poisoned /\ HasFields(a)}
  /\ UNCHANGED <<line, partitionVars, pins, rest, owner, closure, poisoned>>

Init == line \in Lines /\ PartitionInit /\ ActorInit /\ lifted = {}

Next ==
  \/ PartitionNext /\ UNCHANGED <<line, actorVars, lifted>>
  \/ stage = "planned" /\ ActorNext /\ UNCHANGED <<line, partitionVars, lifted>>
  \/ Certify

Spec == Init /\ [][Next]_vars

-----------------------------------------------------------------------------
(* FR-62 F1b: lib members are never touched.  Every function that can come *)
(* to a lifted actor's state, by calls or by pointers, is in the binary,   *)
(* and nobody but main comes there through a pointer of its own.           *)
LiftStaysHome ==
  rule = "certified" =>
    \A a \in lifted :
      /\ \A x \in DOMAIN owner \ {Stdout} : owner[x] = a => InTheBinary(x)
      /\ \A f \in Defined :
           (\E g \in MayRun[f] : \E x \in Touches(g) \ {Stdout} : owner[x] = a)
             => InTheBinary(f) /\ (f = MainKey \/ f \notin AddressTaken)
=============================================================================
