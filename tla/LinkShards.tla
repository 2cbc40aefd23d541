------------------------------ MODULE LinkShards ------------------------------
(***************************************************************************)
(* What `emitrust-cc --link` gets: one shard per object of the link line,   *)
(* in order, and the re-import of the groups that starve for each other's   *)
(* facts (reimportFactStarvedGroups, emitrust-cc.cpp).                      *)
(*                                                                         *)
(* A shard is a sequence of module-level items                             *)
(*   [kind, tag, rest, model, iface, text, touch, calls]                    *)
(* kind   "fn", "decl" (a body-less declaration), "global", "record",       *)
(*        "enum", "header" (use/verbatim text), "rejected" (left out)       *)
(* tag    the ordinal of its tu<k>_ tag, -1 without one                     *)
(* rest   its name, or the text of a header                                *)
(* model  how a function takes its pointer parameter ("scalar", "slice",    *)
(*        "other"), the type of a global, the shape of a record or enum     *)
(* iface  the records in its signature, type or fields                     *)
(* text   the records it mentions in plain text                            *)
(* touch  what its body does with the parameter: "zero" or "far"            *)
(* calls  sequence of [to, arg]: to is the index in the shard of the item   *)
(*        named, arg is                                                    *)
(*         "cursor"  &arr[k]          "slice" &mut arr[k..]                 *)
(*         "here"    &p[0]            "tail"  &mut p[0..], p its parameter  *)
(*         "object"  &x               "view"  slice::from_mut(&x)           *)
(*         "value"   the function as a value     "ref" an access to a global *)
(***************************************************************************)
EXTENDS Integers, Sequences, FiniteSets, SequencesExt, FiniteSetsExt

External(op) == op.tag < 0
IsFunction(op) == op.kind \in {"fn", "decl"}
Defines(op)    == op.kind \in {"fn", "global"} /\ External(op)

(* collectExternalDefinitions: what the link could resolve against it.     *)
Provides(ops) == {ops[k].rest : k \in {k \in DOMAIN ops : Defines(ops[k])}}

-----------------------------------------------------------------------------
(* Both kinds of starvation, as pairs of positions: an item rejected for   *)
(* want of a global another object's graph defines, and a declaration of   *)
(* another type than the first definition on the line.                     *)
FactStarved(line) ==
  {e \in (DOMAIN line) \X (DOMAIN line) :
     e[1] # e[2] /\ line[e[1]].starved \intersect line[e[2]].graph # {}}

FunctionDefiners(line, f) ==
  {i \in DOMAIN line : \E k \in DOMAIN line[i].ops :
     LET op == line[i].ops[k] IN op.kind = "fn" /\ External(op) /\ op.rest = f}

FunctionOf(shard, f) ==
  shard.ops[CHOOSE k \in DOMAIN shard.ops :
              shard.ops[k].kind = "fn" /\ External(shard.ops[k]) /\ shard.ops[k].rest = f]

Typed(op) == <<op.model, op.iface>>

SignatureStarved(line) ==
  {e \in (DOMAIN line) \X (DOMAIN line) : \E k \in DOMAIN line[e[1]].ops :
     LET op == line[e[1]].ops[k]
         definers == FunctionDefiners(line, op.rest)
     IN  /\ op.kind = "decl" /\ definers # {} /\ e[2] = Min(definers)
         /\ Typed(FunctionOf(line[e[2]], op.rest)) # Typed(op)}

StarvationEdges(line) == FactStarved(line) \union SignatureStarved(line)

-----------------------------------------------------------------------------
(* The joint import of a group (importCProject with recovery, then the     *)
(* pipeline), reduced to what the link sees of it: it may fail; it may     *)
(* lose any of the external definitions (Without); otherwise it is the     *)
(* members' items in order, tagged by the member's place in the group,     *)
(* each external item once, a definition rather than its declarations, and *)
(* calls shaped for the definition.  A call that lends one object to a      *)
(* slice is refused there and leaves its function a stub.                  *)
Items(line, group) ==
  UNION {{<<i, k>> : k \in DOMAIN line[i].ops} : i \in group}

ItemAt(line, p) == line[p[1]].ops[p[2]]

Before(p, q) == p[1] < q[1] \/ (p[1] = q[1] /\ p[2] < q[2])

First(items) == CHOOSE p \in items : \A q \in items : p = q \/ Before(p, q)

(* The members of a finite set in the order r: each at its rank, the number *)
(* of those before it and one more.                                        *)
InOrder(S, r) ==
  [n \in 1..Cardinality(S) |-> CHOOSE x \in S : Cardinality({y \in S : <<y, x>> \in r}) = n - 1]

Ascending(S)   == InOrder(S, {e \in S \X S : e[1] < e[2]})
InLineOrder(S) == InOrder(S, {e \in S \X S : Before(e[1], e[2])})

Matching(line, p, q) ==
  LET a == ItemAt(line, p)
      b == ItemAt(line, q)
  IN  \/ p = q
      \/ /\ External(a) /\ External(b) /\ a.rest = b.rest
         /\ IsFunction(a) <=> IsFunction(b)

(* The item that stands for p in the group module.                         *)
StandsFor(line, group, p) ==
  LET same == {q \in Items(line, group) : Matching(line, p, q)}
      defs == {q \in same : ItemAt(line, q).kind # "decl"}
  IN  First(IF defs # {} THEN defs ELSE same)

(* Two units may disagree on how a pointer is taken, one of which has not  *)
(* seen the body, and on nothing else.                                     *)
Refines(a, b) == b.model = a.model \/ (a.model = "scalar" /\ b.model = "slice")

CanJoin(line, group) ==
  \A p, q \in Items(line, group) :
     Matching(line, p, q) =>
       LET a == ItemAt(line, p)
           b == ItemAt(line, q)
       IN  IF a.kind = "decl" THEN Refines(a, b)
           ELSE b.kind = "decl" \/ p = q \/ (a = b /\ a.kind # "fn")

(* The items that stay, the place of what stands for p among them, and the *)
(* calls as the joint import shapes them.                                  *)
Stays(line, group) ==
  InLineOrder({p \in Items(line, group) : StandsFor(line, group, p) = p})

Place(line, group, p) ==
  CHOOSE n \in DOMAIN Stays(line, group) : Stays(line, group)[n] = StandsFor(line, group, p)

Widen(arg) ==
  CASE arg = "cursor" -> "slice"
    [] arg = "here"   -> "tail"
    [] OTHER          -> arg

Shaped(line, group, i, call) ==
  [to  |-> Place(line, group, <<i, call.to>>),
   arg |-> IF ItemAt(line, StandsFor(line, group, <<i, call.to>>)).model = "slice"
           THEN Widen(call.arg) ELSE call.arg]

LendsAnObject(line, group, p) ==
  \E c \in DOMAIN ItemAt(line, p).calls :
     LET call == ItemAt(line, p).calls[c] IN
     /\ call.arg = "object"
     /\ ItemAt(line, StandsFor(line, group, <<p[1], call.to>>)).model = "slice"

Joined(line, group, p) ==
  LET op == ItemAt(line, p) IN
  [op EXCEPT
     !.tag   = IF @ = 0 THEN Cardinality({j \in group : j < p[1]}) ELSE @,
     !.calls = IF LendsAnObject(line, group, p) THEN <<>>
               ELSE [c \in DOMAIN @ |-> Shaped(line, group, p[1], @[c])]]

JointImport(line, group) ==
  LET kept == Stays(line, group) IN [n \in DOMAIN kept |-> Joined(line, group, kept[n])]

(* The module without the definitions the recovering import dropped: what  *)
(* is still called keeps a declaration, what is not leaves only the        *)
(* ledger's word, and a body that accesses a lost global becomes a stub.   *)
Without(ops, lost) ==
  LET stubbed == {j \in DOMAIN ops : \E c \in DOMAIN ops[j].calls :
                    ops[j].calls[c].to \in lost /\ ops[ops[j].calls[c].to].kind = "global"}
      called(k) == \E j \in DOMAIN ops \ (lost \union stubbed) :
                     \E c \in DOMAIN ops[j].calls : ops[j].calls[c].to = k
  IN  [k \in DOMAIN ops |->
         IF k \in lost
         THEN [ops[k] EXCEPT !.kind = IF @ = "fn" /\ called(k) THEN "decl" ELSE "rejected",
                             !.calls = <<>>]
         ELSE IF k \in stubbed THEN [ops[k] EXCEPT !.calls = <<>>] ELSE ops[k]]
=============================================================================
