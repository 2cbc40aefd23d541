------------------------------ MODULE MCLinkMerge ------------------------------
(* Link lines of up to three objects, drawn from four families, and of four *)
(* objects that fall into two groups.                                      *)
EXTENDS LinkMerge

Plain(kind, rest) ==
  [kind |-> kind, tag |-> -1, rest |-> rest, model |-> "other", iface |-> {}, text |-> {},
   touch |-> "zero", calls |-> <<>>]

Fn(rest, model, touch, cs) ==
  [Plain("fn", rest) EXCEPT !.model = model, !.touch = touch, !.calls = cs]
Decl(rest, model)  == [Plain("decl", rest) EXCEPT !.model = model]
Static(op)         == [op EXCEPT !.tag = 0]
Record(r, model)   == [Plain("record", r) EXCEPT !.model = model]
Global(g, model)   == [Plain("global", g) EXCEPT !.model = model]
With(op, iface)    == [op EXCEPT !.iface = iface]
Saying(op, text)   == [op EXCEPT !.text = text]
To(k, arg)         == [to |-> k, arg |-> arg]

Object(path, args, ops) ==
  [path |-> path, args |-> args, starved |-> {}, graph |-> {}, ops |-> ops]

At(d, f) == << <<d>>, <<f>> >>

(* A scalar caller, a definition that forwards both ways, a callee that     *)
(* looks past element zero and one that does not.                           *)
CallLines ==
  { Object(At("p", "u"), "b", <<Decl("g", "scalar"), Fn("main", "other", "zero", <<To(1, "object")>>)>>),
    Object(At("p", "d"), "a", <<Decl("h", "scalar"), Fn("g", "slice", "zero", <<To(1, "here")>>)>>),
    Object(At("p", "d"), "a", <<Fn("k", "slice", "far", <<>>), Fn("g", "slice", "zero", <<To(1, "tail")>>)>>),
    Object(At("p", "h"), "c", <<Fn("h", "slice", "far", <<>>)>>),
    Object(At("p", "h"), "a", <<Fn("h", "slice", "zero", <<>>)>>),
    Object(At("p", "v"), "c", <<Decl("h", "scalar"), Fn("run", "other", "zero", <<To(1, "cursor")>>),
                               Static(Fn("t", "other", "zero", <<To(1, "value")>>))>>) }

(* Records of one name: shown nowhere, in an external signature, in a field, *)
(* in a text.                                                              *)
RecordLines ==
  { Object(At("p", "a"), "a", <<Record("R", "x"), Static(With(Fn("f", "other", "zero", <<>>), {"R"}))>>),
    Object(At("q", "a"), "b", <<Record("R", "y"), Static(With(Fn("f", "other", "zero", <<>>), {"R"}))>>),
    Object(At("p", "b"), "b", <<Record("R", "y"), Static(Saying(Fn("f", "other", "zero", <<>>), {"R"}))>>),
    Object(At("p", "c"), "a", <<Record("R", "y"), With(Record("S", "x"), {"R"})>>),
    Object(At("p", "d"), "a", <<With(Record("S", "x"), {"R"}), Record("R", "x")>>),
    Object(At("p", "e"), "a", <<Record("R", "x"), With(Fn("e", "other", "zero", <<>>), {"R"})>>),
    Object(At("p", "e"), "b", <<Record("R", "y"), With(Decl("e", "other"), {"R"})>>) }

(* File-statics, named by symbol and in texts, and the globals they starve  *)
(* for.                                                                    *)
Starving(o, s, g) == [o EXCEPT !.starved = s, !.graph = g]

StaticLines ==
  { Starving(Object(At("p", "a"), "a",
       <<Static(Global("v", "x")), Static(Fn("f", "other", "zero", <<To(1, "ref")>>)),
         Fn("a", "other", "zero", <<To(2, "other"), To(1, "ref")>>)>>), {"G"}, {}),
    Starving(Object(At("p", "b"), "a",
       <<Static(Global("v", "y")), Static(Fn("f", "other", "zero", <<To(1, "ref")>>)),
         Fn("b", "other", "zero", <<To(2, "other")>>), Global("G", "x")>>), {}, {"G"}),
    Object(At("p", "c"), "a",
       <<Plain("header", "use"), Decl("a", "other"), Static(Fn("f", "other", "zero", <<To(2, "other")>>)),
         Global("G", "x")>>),
    Object(<<>>, "a",
       <<Plain("header", "use"), [Static(Global("v", "x")) EXCEPT !.tag = 1], Global("G", "y")>>),
    Starving(Object(<<>>, "a", <<Plain("header", "use"), Plain("enum", "E")>>), {"G"}, {"G"}) }

(* Files of one stem, one of them two words long, and a stem that is a      *)
(* type at the root.                                                       *)
NameLines ==
  { Object(<< <<"s">>, <<"a", "b">> >>, "a", <<Fn("f1", "other", "zero", <<>>)>>),
    Object(<< <<"s">>, <<"a">>, <<"b">> >>, "a", <<Fn("f2", "other", "zero", <<>>)>>),
    Object(<< <<"s">>, <<"z">>, <<"b">> >>, "a", <<Fn("f3", "other", "zero", <<>>)>>),
    Object(<< <<"s">>, <<"E">> >>, "a", <<Plain("enum", "E")>>),
    Object(<< <<"b">> >>, "a", <<Fn("f4", "other", "zero", <<>>)>>) }

(* Two groups of two, to be interleaved on the line.                       *)
GroupLines ==
  { Starving(Object(At("p", o.f), "a",
      <<Static(Fn("f", "other", "zero", <<>>)), Fn(o.f, "other", "zero", <<To(1, "other")>>)>> \o o.more),
      o.needs, o.has) :
    o \in {[f |-> "a", needs |-> {"G"}, has |-> {}, more |-> <<>>],
          [f |-> "b", needs |-> {}, has |-> {"G"}, more |-> <<Global("G", "x")>>],
          [f |-> "c", needs |-> {"H"}, has |-> {}, more |-> <<>>],
          [f |-> "d", needs |-> {}, has |-> {"H"}, more |-> <<Global("H", "x")>>]} }

Family == {CallLines, RecordLines, StaticLines, NameLines}

MCLines ==
  {l \in UNION {UNION {[1..n -> F] : n \in 1..3} : F \in Family} \union [1..4 -> GroupLines] :
     \A i, j \in DOMAIN l : i # j => l[i] # l[j]}

MCRest == {op.rest : op \in UNION {UNION {Range(o.ops) : o \in F} : F \in Family \union {GroupLines}}}

MCOrdinalName == [n \in 0..3 |-> <<"tu", ToString(n)>>]
MCModName ==
  UNION {UNION {Range(Ladder(o.path)) : o \in F} : F \in Family \union {GroupLines}} \union Range(MCOrdinalName)
MCOrdinalShaped == Range(MCOrdinalName)
MCUnspellable == { <<>>, <<"loop">>, <<"p", "e">> }
MCRuntimeName == <<"actor_rt">>
=============================================================================
