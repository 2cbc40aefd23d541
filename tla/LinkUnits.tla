------------------------------- MODULE LinkUnits -------------------------------
(***************************************************************************)
(* What --link --partition knows of its units before it plans anything:    *)
(* where each came from, and the item graph text stored in its object.     *)
(* Both planners (Partition.cpp, ActorPlan.cpp) read nothing else.         *)
(*                                                                         *)
(* An object is compiled alone, so its text spells every file-static       *)
(* "tu0_name": two units' statics of one name are one spelling and two     *)
(* items.  A symbol here is a spelling; Key tells the items apart.         *)
(***************************************************************************)
EXTENDS Integers, Sequences, FiniteSets, Functions

CONSTANTS
  Function, Global, Record,  \* the spellings, by the kind of the item
  Static,                    \* those of internal linkage
  Main,                      \* "c_main"
  Sink,                      \* the hosted output functions
  Lines                      \* the link lines to plan for

Symbol == Function \union Global \union Record
NoTarget == "?"

DataKinds == {"ReadsGlobal", "WritesGlobal", "AddressOfGlobal"}
EdgeKinds == DataKinds \union {"Calls", "CallsIndirect", "TakesAddressOf", "BodyType"}

VARIABLE line    \* the units, in link order: [dir, defs, edges, impls]

Units == DOMAIN line
Text(u) == line[u].edges
Resolved(u) == {e \in Text(u) : e.to # NoTarget}

(* The first unit to define a spelling; the merge keeps that definition.   *)
Indexed == {s \in Symbol : \E u \in Units : s \in line[u].defs}
FirstDef(s) == CHOOSE u \in Units : s \in line[u].defs /\ \A v \in Units : s \in line[v].defs => u <= v

(* The definition the linked program really uses.                          *)
Definer(u, s) == IF s \in Static THEN u ELSE FirstDef(s)

Key(u, s) == IF s \in Static THEN <<u, s>> ELSE <<0, s>>

(* What the front end and buildItemGraph guarantee of the texts: a body is *)
(* where its edges are, a static is defined where it is used, an address   *)
(* is also a read, and only types are defined more than once.              *)
WellFormedLine(l) ==
  /\ l \in Seq(Range(l))
  /\ \A u \in DOMAIN l :
       /\ l[u].defs \subseteq Symbol /\ l[u].impls \subseteq Record
       /\ \A e \in l[u].edges :
            /\ e.kind \in EdgeKinds /\ e.from \in l[u].defs
            /\ (e.kind = "CallsIndirect") <=> (e.to = NoTarget)
            /\ e.kind \in DataKinds => e.to \in Global
            /\ e.kind \in {"Calls", "TakesAddressOf"} => e.to \in Function
            /\ e.kind = "BodyType" => e.to \in Record
            /\ e.to \in Static => e.to \in l[u].defs
            /\ e.to \in Global => \E v \in DOMAIN l : e.to \in l[v].defs
            /\ e.kind = "AddressOfGlobal" =>
                 \E r \in l[u].edges : r.kind = "ReadsGlobal" /\ r.from = e.from /\ r.to = e.to
  /\ \A u, v \in DOMAIN l :
       u # v => l[u].defs \intersect l[v].defs \subseteq Static \union Record

(* main is a function of external linkage, and no record.                  *)
ASSUME MainAssumption == Main \in Function \ (Static \union Record)

ASSUME LinesAssumption == \A l \in Lines : WellFormedLine(l)
=============================================================================
