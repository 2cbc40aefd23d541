------------------------------- MODULE ActorPlan -------------------------------
(***************************************************************************)
(* planActors (tools/emitrust-cc/ActorPlan.cpp): which global belongs to   *)
(* which actor, and what each function is to the actors.  An actor is its  *)
(* name; owner maps every element of the universe (the globals, and        *)
(* "@stdout" when somebody prints) to the name its union-find root has.    *)
(*                                                                         *)
(* The code visits functions, pairs and call cycles in sorted order; here  *)
(* the order is open, so a plan that depended on it would show.            *)
(***************************************************************************)
EXTENDS LinkUnits

CONSTANTS
  Stdout,    \* "@stdout"
  ActorName, \* the names --actor-map may give
  Rank,      \* the place of every key and name in the order of strings
  Pins       \* the overrides: what each may map to an actor of its choice

Keys == {Key(u, s) : u \in Units, s \in Function \union Global}

(* The names of the actors are no keys, and "@stdout" is neither.          *)
ASSUME NameAssumption ==
  /\ Stdout \notin ActorName
  /\ \A l \in Lines, s \in Symbol : \A u \in DOMAIN l :
       {<<0, s>>, <<u, s>>} \intersect (ActorName \union {Stdout}) = {}
  /\ \A p \in Pins : Range(p) \subseteq ActorName

ASSUME RankAssumption ==
  /\ \A n \in ActorName \union {Stdout} : Rank[n] \in Nat
  /\ \A l \in Lines, s \in Global : \A u \in DOMAIN l :
       Rank[IF s \in Static THEN <<u, s>> ELSE <<0, s>>] \in Nat

VARIABLES
  pins,       \* element -> actor, by the longest prefix that matches
  rule,       \* the rule being applied
  rest,       \* what it has not looked at yet
  owner,      \* element -> actor
  closure,    \* defined function -> what it calls, directly or not, itself included
  poisoned    \* the actors an indirect call has merged

actorVars == <<pins, rule, rest, owner, closure, poisoned>>

-----------------------------------------------------------------------------
(* buildAccessIndex: the texts merged, each static under its own key.      *)

Linked(kinds) ==
  UNION {{<<Key(u, e.from), Key(u, e.to)>> : e \in {f \in Resolved(u) : f.kind \in kinds}} : u \in Units}

Defined == UNION {{Key(u, s) : s \in line[u].defs \intersect Function} : u \in Units}
MainKey == <<0, Main>>
Indirect == UNION {{Key(u, e.from) : e \in {f \in Text(u) : f.kind = "CallsIndirect"}} : u \in Units}

From(edges, f) == {e[2] : e \in {d \in edges : d[1] = f}}

Prints(f) == \E g \in From(Linked({"Calls"}), f) : g[2] \in Sink /\ g \notin Defined

(* A mistake: an address taken is not a write.                             *)
WritesWithoutAddresses(f) ==
  From(Linked({"WritesGlobal"}), f) \union IF Prints(f) THEN {Stdout} ELSE {}

(* An address may be stored through, and a print writes the stream.        *)
Writes(f) ==
  From(Linked({"WritesGlobal", "AddressOfGlobal"}), f) \union IF Prints(f) THEN {Stdout} ELSE {}

Touches(f) == From(Linked({"ReadsGlobal"}), f) \union Writes(f)

IsGlobalKey(k) == k[2] \in Global

(* A pointer global and what its initializer points at.                    *)
Pairs == {{p[1], p[2]} : p \in {q \in Linked({"AddressOfGlobal"}) : IsGlobalKey(q[1])}}

Universe ==
  (UNION {{Key(u, s) : s \in Global \intersect (line[u].defs \union {e.to : e \in Text(u)})} : u \in Units})
    \union IF \E f \in Defined : Prints(f) THEN {Stdout} ELSE {}

(* The least set that holds f and whatever a member calls.                 *)
ClosureOf(calls) ==
  LET all == Defined \union {c[2] : c \in calls}
      closed == {S \in SUBSET all : \A c \in calls : c[1] \in S => c[2] \in S}
  IN  [f \in Defined |-> {g \in all : \A S \in closed : f \in S => g \in S}]

IsPoisoned(f) == closure[f] \intersect Indirect # {}
Footprint(f) == IF IsPoisoned(f) THEN Universe ELSE UNION {Touches(g) : g \in closure[f]}
WriteFootprint(f) == IF IsPoisoned(f) THEN Universe ELSE UNION {Writes(g) : g \in closure[f]}

(* Tarjan's components of two functions and more.                          *)
Components(calls) ==
  {c \in {{g \in Defined : g \in calls[f] /\ f \in calls[g]} : f \in Defined} : Cardinality(c) > 1}

-----------------------------------------------------------------------------
(* The rules.                                                              *)

Smallest(S) == CHOOSE n \in S : \A m \in S : Rank[n] <= Rank[m]

OwnersOf(elements) == {owner[x] : x \in elements \intersect DOMAIN owner}

(* The owners of the elements become one, under the smallest name.         *)
Merged(elements) ==
  [x \in DOMAIN owner |-> IF owner[x] \in OwnersOf(elements) THEN Smallest(OwnersOf(elements)) ELSE owner[x]]

Renamed(elements, byPoison) ==
  {IF n \in OwnersOf(elements) THEN Smallest(OwnersOf(elements)) ELSE n : n \in poisoned}
    \union IF byPoison /\ Cardinality(OwnersOf(elements)) > 1 THEN {Smallest(OwnersOf(elements))} ELSE {}

Visit(from, x) == rule = from /\ x \in rest /\ rest' = rest \ {x} /\ rule' = from
Turn(from, to, work) == rule = from /\ rest = {} /\ rule' = to /\ rest' = work

ActorInit ==
  /\ pins \in Pins
  /\ rule = "cluster" /\ rest = {Touches(f) : f \in Defined \ {MainKey}} \union Pairs
  /\ owner = [x \in Universe \ DOMAIN pins |-> x]
  /\ closure = <<>> /\ poisoned = {}

(* A mistake: main seeds clusters too.                                     *)
ClusterEverybody ==
  /\ \E x \in rest :
       /\ Visit("cluster", x)
       /\ owner' = Merged(x \union Touches(MainKey))
  /\ UNCHANGED <<pins, closure, poisoned>>

(* Co-access seeding of what no override pins, main excepted.              *)
Cluster ==
  /\ \E x \in rest :
       /\ Visit("cluster", x)
       /\ owner' = Merged(x)
  /\ UNCHANGED <<pins, closure, poisoned>>

Pin ==
  /\ Turn("cluster", "pointer", Pairs)
  /\ owner' = [x \in Universe |-> IF x \in DOMAIN pins THEN pins[x] ELSE owner[x]]
  /\ UNCHANGED <<pins, closure, poisoned>>

MergePair ==
  /\ \E x \in rest : Visit("pointer", x) /\ owner' = Merged(x)
  /\ UNCHANGED <<pins, closure, poisoned>>

TurnToCycles ==
  /\ closure' = ClosureOf(Linked({"Calls"}))
  /\ Turn("pointer", "cycle", Components(closure'))
  /\ UNCHANGED <<pins, owner, poisoned>>

MergeCycle ==
  /\ \E c \in rest :
       /\ Visit("cycle", c)
       /\ LET elements == UNION {Footprint(f) : f \in c} IN
            /\ owner' = Merged(elements)
            /\ poisoned' = Renamed(elements, \E f \in c : IsPoisoned(f))
  /\ UNCHANGED <<pins, closure>>

TurnToWriters ==
  /\ Turn("cycle", "writer", Defined \ {MainKey})
  /\ UNCHANGED <<pins, owner, closure, poisoned>>

MergeWritten ==
  /\ \E f \in rest :
       /\ Visit("writer", f)
       /\ LET elements == WriteFootprint(f) IN
            /\ owner' = Merged(elements)
            /\ poisoned' = Renamed(elements, IsPoisoned(f))
  /\ UNCHANGED <<pins, closure>>

EndPlan ==
  /\ Turn("writer", "planned", {})
  /\ UNCHANGED <<pins, owner, closure, poisoned>>

ActorNext ==
  \/ Cluster \/ Pin \/ MergePair \/ TurnToCycles \/ MergeCycle \/ TurnToWriters \/ MergeWritten \/ EndPlan

(* The actors a function is an arm of (one) or a client of (several); main *)
(* drives them all and is neither.                                         *)
ActorsOf(f) == IF f = MainKey THEN {} ELSE OwnersOf(Footprint(f))

-----------------------------------------------------------------------------

(* What a function can really run: its callees, and through a pointer      *)
(* anything whose address somebody took.                                   *)
MayRun ==
  ClosureOf(Linked({"Calls"}) \union (Indirect \X {e[2] : e \in Linked({"TakesAddressOf"})}))

MayStore(run) ==
  (UNION {From(Linked({"WritesGlobal", "AddressOfGlobal"}), f) : f \in run})
    \union IF \E f \in run : Prints(f) THEN {Stdout} ELSE {}

OneOwner(elements) == Cardinality(OwnersOf(elements)) <= 1

(* FR-62: over whatever calls and function pointers a function other than  *)
(* main can follow, the globals it writes by name, those whose address is  *)
(* taken and what it prints through belong to one actor;                   *)
(* functions that call one another touch one actor; a pointer and what it  *)
(* is initialized with have one owner.                                     *)
WritersHaveOneOwner ==
  rule = "planned" =>
    /\ LET run == MayRun IN \A f \in Defined \ {MainKey} : OneOwner(MayStore(run[f]))
    /\ \A c \in Components(closure) : OneOwner(UNION {Touches(g) : g \in UNION {closure[f] : f \in c}})
    /\ \A p \in Pairs : OneOwner(p)

(* Every set of elements a rule says belongs together.                     *)
Ties ==
  {Touches(f) \ DOMAIN pins : f \in Defined \ {MainKey}}
    \union {{x \in DOMAIN pins \intersect Universe : pins[x] = a} : a \in ActorName}
    \union Pairs
    \union {UNION {Footprint(f) : f \in c} : c \in Components(closure)}
    \union {WriteFootprint(f) : f \in Defined \ {MainKey}}

(* FR-62: no rule merges two actors because of what another merged before, *)
(* so the order of the visits is immaterial: any split of the globals that *)
(* no tie straddles, no actor straddles either.                            *)
MergesNoMore ==
  rule = "planned" =>
    LET ties == Ties IN
    \A S \in SUBSET Universe :
      (\A t \in ties : t \subseteq S \/ t \intersect S = {})
        => \A x, y \in Universe : owner[x] = owner[y] => (x \in S <=> y \in S)
=============================================================================
