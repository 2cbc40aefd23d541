------------------------------- MODULE LinkMerge -------------------------------
(***************************************************************************)
(* `emitrust-cc --link`: from the shards of the link line to one module     *)
(* (mergeLinkShards and what runs before it).  The steps, in order:         *)
(*   group     re-import the groups that starve for each other's facts      *)
(*   tags      move the file-statics' tags to link-line positions (LinkTags)*)
(*   names     name each shard's Rust module (LinkNames)                    *)
(*   classify  first definition wins, equal ones are dropped, a record that *)
(*             nobody outside its unit can name sinks into its module       *)
(*   resolve   declarations give way to definitions; calls shaped for the   *)
(*             declaration are reshaped for the definition                  *)
(***************************************************************************)
EXTENDS LinkShards, LinkTags, LinkNames

CONSTANTS
  Lines,       \* the link lines: sequences of [path, args, starved, graph, ops]
  RuntimeName  \* actor_rt, the module the emitter adds

(* What an object of the line is when the link starts, or a group module:  *)
(* its items have different names, the link cannot tell two records and a   *)
(* function by their tags, a body-less declaration knows of no slice, and   *)
(* every call is shaped for the item of the unit that it names.            *)
Named(op) == op.kind \notin {"header", "rejected"}

Ways == {"cursor", "here", "object", "slice", "tail", "view", "value", "ref", "other"}

Item ==
  [kind : {"fn", "decl", "global", "record", "enum", "header", "rejected"},
   tag : Nat \union {-1}, rest : Rest, model : STRING, iface : SUBSET Rest, text : SUBSET Rest,
   touch : {"zero", "far"}, calls : Seq([to : Nat, arg : Ways])]

Artifact ==
  [path : Seq(Seq(STRING)), args : STRING, starved : SUBSET Rest, graph : SUBSET Rest,
   ops : Seq(Item)]

Shapes(model) ==
  CASE model = "slice"  -> {"slice", "tail", "view", "value"}
    [] model = "scalar" -> {"cursor", "here", "object", "value"}
    [] OTHER            -> {"other", "ref", "value"}

WellFormedOps(ops) ==
  /\ ops \in Seq(Item)
  /\ \A k \in DOMAIN ops :
       /\ ops[k].kind \in {"decl", "record", "enum"} => External(ops[k])
       /\ ops[k].kind = "decl" => ops[k].model # "slice"
       /\ \A c \in DOMAIN ops[k].calls :
            LET call == ops[k].calls[c] IN
            /\ call.to \in DOMAIN ops /\ ops[call.to].kind \in {"fn", "decl", "global"}
            /\ call.arg \in Shapes(ops[call.to].model)
  /\ \A j, k \in DOMAIN ops :
       Named(ops[j]) /\ Named(ops[k]) /\ ops[j].tag = ops[k].tag /\ ops[j].rest = ops[k].rest
         => j = k

(* buildModuleNameLadder: the stem, then one enclosing directory more.      *)
Ladder(path) ==
  [r \in DOMAIN path |-> FlattenSeq(SubSeq(path, Len(path) - r + 1, Len(path)))]

(* Types, functions and globals are spelled apart (CSymbolNaming.h), and an *)
(* external name is that of a function in every unit or in none.           *)
SpelledApart(a, b) ==
  External(a) /\ External(b) /\ Named(a) /\ Named(b) /\ a.rest = b.rest
    => (IsFunction(a) <=> IsFunction(b))

ASSUME LinesAssumption ==
  \A l \in Lines :
     /\ l \in Seq(Artifact)
     /\ \A i \in DOMAIN l :
          /\ WellFormedOps(l[i].ops)
          /\ l[i].path # <<>> => \A k \in DOMAIN l[i].ops : l[i].ops[k].tag < 1
          /\ i - 1 \in Positions
          /\ Ladder(l[i].path) \in Seq(ModName)
     /\ \A i, j \in DOMAIN l : \A k \in DOMAIN l[i].ops, m \in DOMAIN l[j].ops :
          SpelledApart(l[i].ops[k], l[j].ops[m])

(* The root of the crate has no name, and no module has an empty one.      *)
ASSUME RootIsNoModule == <<>> \in Unspellable \ OrdinalShaped

VARIABLES
  line,        \* the link line
  phase,       \* "group", "tags", "names", "classify", "resolve", "done", "failed"
  class,       \* class[i]: the positions grouped with position i
  edges,       \* the starvation edges still to be joined
  groups,      \* the groups still to be re-imported
  joined,      \* joined[g]: the module that stands for group g
  units,       \* the shards after the re-import: [path, ops]
  cursor,      \* the item being classified, or the number of the obligation
  defs,        \* the definitions kept
  headers,     \* the header texts of the earlier shards
  erased,      \* the items the link drops
  sunk,        \* <<i, r>>: shard i's record r lives in its module
  obligations, \* the declarations, in order
  shape,       \* shape[u]: what the argument at call u is now
  calls,       \* the calls of the current obligation still to be looked at
  fence,       \* the element-zero proof under way: [of, todo, seen]
  proved,      \* the answers the fence gave
  linkFailed

groupVars   == <<line, class, edges, groups, joined>>
mergeVars   == <<cursor, defs, headers, erased, sunk, obligations>>
resolveVars == <<shape, calls, fence, proved, linkFailed>>
linkVars == <<phase, groupVars, units, mergeVars, resolveVars, tagVars, nameVars>>

NoFence == [of |-> <<>>, todo |-> {}, seen |-> {}]

Op(s) == units[s[1]].ops[s[2]]

LinkInit ==
  /\ line \in Lines
  /\ phase = "group" /\ class = [i \in DOMAIN line |-> {i}]
  /\ edges = StarvationEdges(line) /\ groups = {} /\ joined = <<>> /\ units = <<>>
  /\ cursor = <<1, 1>> /\ defs = {} /\ headers = {} /\ erased = {} /\ sunk = {}
  /\ obligations = <<>>
  /\ shape = <<>> /\ calls = {} /\ fence = NoFence /\ proved = <<>> /\ linkFailed = FALSE
  /\ ordinalMaps = <<>> /\ imported = <<>> /\ shardOf = <<>> /\ bound = <<>> /\ textual = {}
  /\ TagStart
  /\ ladder = <<>> /\ ordinal = <<>> /\ reserved = {}
  /\ NamingStart

-----------------------------------------------------------------------------
(* Union-find over the starvation edges, one edge at a time.               *)
Join ==
  /\ phase = "group" /\ edges # {}
  /\ LET e == CHOOSE e \in edges : TRUE
         both == class[e[1]] \union class[e[2]]
     IN  /\ class' = [i \in DOMAIN class |-> IF i \in both THEN both ELSE class[i]]
         /\ edges' = edges \ {e}
         /\ groups' = IF edges' = {}
                      THEN {class'[i] : i \in {i \in DOMAIN class : Cardinality(class'[i]) > 1}}
                      ELSE {}
  /\ UNCHANGED <<phase, line, joined, units, mergeVars, resolveVars, tagVars, nameVars>>

(* One argument list serves the whole joint import, and an artifact that    *)
(* records no source cannot be imported again.                             *)
Viable(g) ==
  /\ \A i \in g : line[i].path # <<>>
  /\ \A i, j \in g : line[i].args = line[j].args

(* A group that lost a definition is worse than the shards it replaces.    *)
NeverLoses(g, ops) == FALSE

Loses(g, ops) == ~(UNION {Provides(line[i].ops) : i \in g} \subseteq Provides(ops))

Keep(g, ops) == joined' = [h \in DOMAIN joined \union {g} |-> IF h = g THEN ops ELSE joined[h]]

Reimport ==
  /\ phase = "group" /\ edges = {} /\ groups # {}
  /\ \E g \in groups :
         /\ \A h \in groups : Min(g) <= Min(h)
         /\ groups' = groups \ {g}
         /\ \/ UNCHANGED joined
            \/ /\ Viable(g) /\ CanJoin(line, g)
               /\ LET ops == JointImport(line, g) IN
                  \/ ~Loses(g, ops) /\ Keep(g, ops)
                  \/ \E lost \in (SUBSET {k \in DOMAIN ops : Defines(ops[k])}) \ {{}} :
                       LET less == Without(ops, lost) IN
                       IF Loses(g, less) THEN UNCHANGED joined ELSE Keep(g, less)
  /\ UNCHANGED <<phase, line, class, edges, units, mergeVars, resolveVars, tagVars, nameVars>>

(* The group module stands at its first member's position, records no       *)
(* source, and carries its members' positions as its ordinal map.          *)
Standing(i) == class[i] \notin DOMAIN joined \/ i = Min(class[i])

UnitAt(i) ==
  IF class[i] \in DOMAIN joined
  THEN [path |-> <<>>, ops |-> joined[class[i]]]
  ELSE [path |-> line[i].path, ops |-> line[i].ops]

PositionsAt(i) ==
  IF class[i] \in DOMAIN joined
  THEN [k \in 1..Cardinality(class[i]) |-> Ascending(class[i])[k] - 1]
  ELSE <<i - 1>>

SymbolsOf(us) ==
  UNION {{<<i, k>> : k \in {k \in DOMAIN us[i].ops : Named(us[i].ops[k])}} : i \in DOMAIN us}

UsesOf(us) ==
  UNION {UNION {{<<i, k, c>> : c \in DOMAIN us[i].ops[k].calls} : k \in DOMAIN us[i].ops}
           : i \in DOMAIN us}

StartTags ==
  /\ phase = "group" /\ edges = {} /\ groups = {}
  /\ phase' = "tags"
  /\ LET standing == Ascending({i \in DOMAIN line : Standing(i)}) IN
     /\ units' = [n \in DOMAIN standing |-> UnitAt(standing[n])]
     /\ ordinalMaps' = [n \in DOMAIN standing |-> PositionsAt(standing[n])]
  /\ imported' = [s \in SymbolsOf(units') |->
                    [tag |-> units'[s[1]].ops[s[2]].tag, rest |-> units'[s[1]].ops[s[2]].rest]]
  /\ shardOf' = [s \in SymbolsOf(units') |-> s[1]]
  /\ bound' = [u \in UsesOf(units') |-> <<u[1], units'[u[1]].ops[u[2]].calls[u[3]].to>>]
  /\ textual' = {u \in UsesOf(units') : units'[u[1]].ops[u[2]].calls[u[3]].arg # "ref"}
  /\ shape' = [u \in UsesOf(units') |-> units'[u[1]].ops[u[2]].calls[u[3]].arg]
  /\ name' = imported' /\ use' = [u \in UsesOf(units') |-> imported'[bound'[u]]]
  /\ UNCHANGED <<groupVars, mergeVars, calls, fence, proved, linkFailed,
                 shard, renames, tagStep, nameVars>>

Tags ==
  /\ phase = "tags" /\ TagNext
  /\ phase' = IF tagStep' = "failed" THEN "failed" ELSE phase
  /\ UNCHANGED <<groupVars, units, mergeVars, resolveVars, nameVars>>

-----------------------------------------------------------------------------
(* Only the names of types are kept from the modules, and the runtime's.   *)
RootTypes ==
  {RuntimeName} \union
  {<<Op(s).rest>> : s \in {s \in Symbols : Op(s).kind \in {"record", "enum"}}}

StartNames ==
  /\ phase = "tags" /\ TagsDone
  /\ phase' = "names"
  /\ ladder' = [i \in DOMAIN units |-> Ladder(units[i].path)]
  /\ ordinal' = [i \in DOMAIN units |-> ordinalMaps[i][1]]
  /\ reserved' = RootTypes
  /\ modNames' = [i \in DOMAIN units |-> NoName]
  /\ rank' = [i \in DOMAIN units |-> 1]
  /\ UNCHANGED <<groupVars, units, mergeVars, resolveVars, tagVars,
                 assigned, pool, wanted, visits, nameStep>>

Naming ==
  /\ phase = "names" /\ NamingNext
  /\ UNCHANGED <<phase, groupVars, units, mergeVars, resolveVars, tagVars>>

StartClassify ==
  /\ phase = "names" /\ NamingDone
  /\ phase' = "classify"
  /\ UNCHANGED <<groupVars, units, mergeVars, resolveVars, tagVars, nameVars>>

-----------------------------------------------------------------------------
(* Step 3 and 4: one item of one shard after the other.                    *)
Root == <<>>

(* Where a mention of record r in shard i looks for it.                    *)
Path(i, r) == IF <<i, r>> \in sunk THEN modNames[i] ELSE Root

(* The definition at the root that bears the name of item s.               *)
Sunk(d)    == Op(d).kind = "record" /\ <<d[1], Op(d).rest>> \in sunk
Bearers(n) == {d \in defs : name[d] = n /\ ~Sunk(d)}

SameType(s, t) ==
  /\ Op(s).model = Op(t).model /\ Op(s).iface = Op(t).iface
  /\ \A r \in Op(s).iface : Path(s[1], r) = Path(t[1], r)

Dedupable(s, t) == Op(s).kind \in {"record", "enum", "global"} /\ Op(t).kind = Op(s).kind

TextIsNoMention(op) ==
  IF IsFunction(op) \/ op.kind = "global"
  THEN IF External(op) THEN op.iface ELSE {}
  ELSE op.iface \ {op.rest}

(* collectNonSinkableRecords: whatever shows a record outside its unit, or  *)
(* names it in a text no type rewriting reaches.                           *)
Shown(op) ==
  op.text \union (IF IsFunction(op) \/ op.kind = "global"
                  THEN IF External(op) THEN op.iface ELSE {}
                  ELSE op.iface \ {op.rest})

Escapes(i) == UNION {Shown(units[i].ops[k]) : k \in DOMAIN units[i].ops}

AtItem ==
  /\ phase = "classify" /\ cursor[1] \in DOMAIN units
  /\ cursor[2] \in DOMAIN units[cursor[1]].ops

NextItem == cursor' = [cursor EXCEPT ![2] = @ + 1]

Header ==
  /\ AtItem /\ Op(cursor).kind \in {"header", "rejected"}
  /\ erased' = IF Op(cursor).kind = "header" /\ Op(cursor).rest \in headers
               THEN erased \union {cursor} ELSE erased
  /\ NextItem
  /\ UNCHANGED <<phase, groupVars, units, defs, headers, sunk, obligations, resolveVars,
                 tagVars, nameVars>>

Oblige ==
  /\ AtItem /\ Op(cursor).kind = "decl"
  /\ obligations' = Append(obligations, cursor)
  /\ NextItem
  /\ UNCHANGED <<phase, groupVars, units, defs, headers, erased, sunk, resolveVars,
                 tagVars, nameVars>>

Define ==
  /\ AtItem /\ Op(cursor).kind \notin {"header", "rejected", "decl"}
  /\ LET s == cursor
         clash == Bearers(name[s])
         sinks == Op(s).kind = "record" /\ Op(s).rest \notin Escapes(s[1])
     IN  \/ /\ clash = {}
           /\ defs' = defs \union {s} /\ NextItem
           /\ UNCHANGED <<phase, erased, sunk>>
        \/ /\ \E d \in clash : Dedupable(s, d) /\ SameType(s, d)
           /\ erased' = erased \union {s} /\ NextItem
           /\ UNCHANGED <<phase, defs, sunk>>
        \/ /\ \E d \in clash : Dedupable(s, d) /\ ~SameType(s, d)
           /\ sinks
           /\ sunk' = sunk \union {<<s[1], Op(s).rest>>}
           /\ defs' = defs \union {s} /\ NextItem
           /\ UNCHANGED <<phase, erased>>
        \/ /\ \E d \in clash : ~Dedupable(s, d) \/ (~SameType(s, d) /\ ~sinks)
           /\ phase' = "failed"
           /\ UNCHANGED <<cursor, defs, erased, sunk>>
  /\ UNCHANGED <<groupVars, units, headers, obligations, resolveVars, tagVars, nameVars>>

EndShard ==
  /\ phase = "classify" /\ cursor[1] \in DOMAIN units
  /\ cursor[2] > Len(units[cursor[1]].ops)
  /\ headers' = headers \union
       {op.rest : op \in {op \in Range(units[cursor[1]].ops) : op.kind = "header"}}
  /\ cursor' = <<cursor[1] + 1, 1>>
  /\ UNCHANGED <<phase, groupVars, units, defs, erased, sunk, obligations, resolveVars,
                 tagVars, nameVars>>

StartResolve ==
  /\ phase = "classify" /\ cursor[1] > Len(units)
  /\ phase' = "resolve" /\ cursor' = <<1, 1>>
  /\ UNCHANGED <<groupVars, units, defs, headers, erased, sunk, obligations, resolveVars,
                 tagVars, nameVars>>

-----------------------------------------------------------------------------
(* Step 2: the obligations, in order; every failure is reported before the *)
(* link gives up.  `cursor` counts them.                                   *)
AtObligation(o) ==
  /\ phase = "resolve" /\ calls = {} /\ fence = NoFence
  /\ cursor[1] \in DOMAIN obligations /\ o = obligations[cursor[1]]

NextObligation == cursor' = [cursor EXCEPT ![1] = @ + 1]

(* The only divergence the link reconciles.                                *)
SliceRefined(o, d) ==
  /\ Op(o).model = "scalar" /\ Op(d).model = "slice" /\ Op(o).iface = Op(d).iface
  /\ \A r \in Op(o).iface : Path(o[1], r) = Path(d[1], r)

CallsOf(o) == {u \in Uses : u[1] = o[1] /\ use[u] = name[o] /\ shape[u] # "value"}

NeverAValue(o) == FALSE

UsedAsValue(o) == \E u \in Uses : u[1] = o[1] /\ use[u] = name[o] /\ shape[u] = "value"

Discharge ==
  /\ cursor[1] \in DOMAIN obligations
  /\ LET o == obligations[cursor[1]] IN
     /\ AtObligation(o)
     /\ \E d \in Bearers(name[o]) :
          /\ ~IsFunction(Op(d)) \/ SameType(o, d)
          /\ erased' = erased \union {o}
     /\ NextObligation
  /\ UNCHANGED <<phase, groupVars, units, defs, headers, sunk, obligations, resolveVars,
                 tagVars, nameVars>>

Refuse ==
  /\ cursor[1] \in DOMAIN obligations
  /\ LET o == obligations[cursor[1]] IN
     /\ AtObligation(o)
     /\ \/ Bearers(name[o]) = {}
        \/ \E d \in Bearers(name[o]) :
              /\ IsFunction(Op(d)) /\ ~SameType(o, d)
              /\ SliceRefined(o, d) => UsedAsValue(o)
     /\ linkFailed' = TRUE /\ NextObligation
  /\ UNCHANGED <<phase, groupVars, units, defs, headers, erased, sunk, obligations,
                 shape, calls, fence, proved, tagVars, nameVars>>

(* adaptSliceRefinedCalls takes the calls of the shard one by one; their    *)
(* order is left open.                                                     *)
Adapt ==
  /\ cursor[1] \in DOMAIN obligations
  /\ LET o == obligations[cursor[1]] IN
     /\ AtObligation(o)
     /\ \E d \in Bearers(name[o]) :
          /\ IsFunction(Op(d)) /\ ~SameType(o, d) /\ SliceRefined(o, d) /\ ~UsedAsValue(o)
     /\ calls' = CallsOf(o)
     /\ erased' = erased \union {o} /\ NextObligation
  /\ UNCHANGED <<phase, groupVars, units, defs, headers, sunk, obligations, shape, fence,
                 proved, linkFailed, tagVars, nameVars>>

Callee(u) == CHOOSE d \in Bearers(use[u]) : TRUE

Reshaped(u) == IF shape[u] = "cursor" THEN "slice" ELSE "tail"

Reslice ==
  /\ fence = NoFence
  /\ \E u \in calls :
        /\ shape[u] \in {"cursor", "here"}
        /\ shape' = [shape EXCEPT ![u] = Reshaped(u)]
        /\ calls' = calls \ {u}
  /\ UNCHANGED <<phase, groupVars, units, mergeVars, fence, proved, linkFailed,
                 tagVars, nameVars>>

(* One object is lent as a one-element slice, when the fence clears the     *)
(* callee; its answers are kept.                                           *)
AskFence ==
  /\ fence = NoFence
  /\ \E u \in calls :
        /\ shape[u] = "object" /\ Callee(u) \notin DOMAIN proved
        /\ fence' = [of |-> Callee(u), todo |-> {Callee(u)}, seen |-> {}]
  /\ UNCHANGED <<phase, groupVars, units, mergeVars, shape, calls, proved, linkFailed,
                 tagVars, nameVars>>

(* What the body of d hands its parameter's tail to.                       *)
Forwards(d) == {u \in Uses : <<u[1], u[2]>> = d /\ shape[u] = "tail"}

ForwardsTo(d) == UNION {Bearers(use[u]) : u \in Forwards(d)}

Answer(yes) ==
  /\ proved' = [d \in DOMAIN proved \union {fence.of} |-> IF d = fence.of THEN yes ELSE proved[d]]
  /\ fence' = NoFence

StaysAtZero(d) ==
  /\ Op(d).kind = "fn" /\ Op(d).touch = "zero"
  /\ \A u \in Forwards(d) : Bearers(use[u]) # {}

WalkFence ==
  /\ fence # NoFence
  /\ \/ fence.todo = {} /\ Answer(TRUE)
     \/ /\ fence.todo # {}
        /\ LET d == CHOOSE d \in fence.todo : TRUE IN
           IF StaysAtZero(d)
           THEN /\ fence' = [fence EXCEPT
                      !.seen = @ \union {d},
                      !.todo = (@ \union ForwardsTo(d)) \ (fence.seen \union {d})]
                /\ UNCHANGED proved
           ELSE Answer(FALSE)
  /\ UNCHANGED <<phase, groupVars, units, mergeVars, shape, calls, linkFailed,
                 tagVars, nameVars>>

Lend ==
  /\ fence = NoFence
  /\ \E u \in calls :
        /\ shape[u] = "object" /\ Callee(u) \in DOMAIN proved
        /\ IF proved[Callee(u)]
           THEN /\ shape' = [shape EXCEPT ![u] = "view"]
                /\ UNCHANGED linkFailed
           ELSE linkFailed' = TRUE /\ UNCHANGED shape
        /\ calls' = calls \ {u}
  /\ UNCHANGED <<phase, groupVars, units, mergeVars, fence, proved, tagVars, nameVars>>

EndLink ==
  /\ phase = "resolve" /\ calls = {} /\ fence = NoFence /\ cursor[1] > Len(obligations)
  /\ phase' = IF linkFailed THEN "failed" ELSE "done"
  /\ UNCHANGED <<groupVars, units, mergeVars, resolveVars, tagVars, nameVars>>

LinkNext ==
  \/ Join \/ Reimport \/ StartTags \/ Tags \/ StartNames \/ Naming \/ StartClassify
  \/ Header \/ Oblige \/ Define \/ EndShard \/ StartResolve
  \/ Discharge \/ Refuse \/ Adapt \/ Reslice \/ AskFence \/ WalkFence \/ Lend \/ EndLink

(* One process runs the link from end to end.                              *)
LinkSpec == LinkInit /\ [][LinkNext]_linkVars

-----------------------------------------------------------------------------
Kept == {s \in Symbols : s \notin erased}

(* The definition a mention of record r in shard i arrives at.             *)
Arrives(i, r) ==
  {d \in defs : Op(d).kind \in {"record", "enum"} /\ Op(d).rest = r /\
               Path(d[1], r) = Path(i, r)}

(* A linked program means by every record what its unit meant: a type       *)
(* mention finds the shape the unit declared, so does a mention in plain    *)
(* text, which cannot follow a record into a module, and an item the link   *)
(* dropped named the same records as the one that stands for it.           *)
MentionsKeepTheirShape ==
  phase = "done" =>
    \A s \in Symbols :
       /\ Op(s).kind = "record" =>
            /\ \A d \in Arrives(s[1], Op(s).rest) : Op(d).model = Op(s).model
            /\ Arrives(s[1], Op(s).rest) # {}
       /\ s \in Kept => \A r \in Op(s).text : Path(s[1], r) = Root
       /\ s \notin Kept => \A d \in Bearers(name[s]) : \A r \in Op(s).iface :
                             Path(s[1], r) = Path(d[1], r)

(* In a linked program every call names one definition and hands it the     *)
(* kind of pointer it takes; a function used as a value has the type its    *)
(* user was compiled for.                                                  *)
CallsFitTheirCallee ==
  phase = "done" =>
    \A u \in Uses :
       \E d \in Bearers(use[u]) :
          /\ Bearers(use[u]) = {d}
          /\ shape[u] \in {"slice", "tail", "view"} => Op(d).model = "slice"
          /\ shape[u] \in {"cursor", "here", "object"} => Op(d).model = "scalar"
          /\ shape[u] = "value" => Op(d).model = Op(bound[u]).model

(* Every definition reached from d over calls that hand on the tail of the  *)
(* parameter.                                                              *)
ReachedFrom(d, Handed(_)) ==
  LET step(S) == S \union UNION {Bearers(use[u]) :
                                   u \in {u \in Uses : <<u[1], u[2]>> \in S /\ Handed(u)}}
      reach[n \in 0..Cardinality(defs)] == IF n = 0 THEN {d} ELSE step(reach[n - 1])
  IN  reach[Cardinality(defs)]

(* The comment on the fence: its proof is transitive, and an argument it    *)
(* cannot clear is rejected rather than left to panic.  So in a linked      *)
(* program nobody who gets hold of a one-element view looks past it.       *)
OneElementIsEnough ==
  phase = "done" =>
    \A u \in Uses : shape[u] = "view" =>
       \A f \in ReachedFrom(Callee(u), LAMBDA v : shape[v] = "tail") : Op(f).touch = "zero"

(* Every function and global some object of the line defines for others is  *)
(* still defined when the link succeeds.                                   *)
DefinitionsSurvive ==
  phase = "done" =>
    \A i \in DOMAIN line : \A f \in Provides(line[i].ops) :
       \E d \in defs : Defines(Op(d)) /\ Op(d).rest = f

=============================================================================
