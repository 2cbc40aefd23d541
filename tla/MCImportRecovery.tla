--------------------------- MODULE MCImportRecovery ---------------------------
(* Two classes that name one another and a third that names the second, a   *)
(* function with a prototype, and a template, in the orders a C++ program   *)
(* can declare them.                                                       *)
EXTENDS ImportRecovery

CONSTANTS
  a, b, e,            \* classes: a field of b names a
  ctor, m0, m1, out,  \* methods of a: a constructor, two methods, one defined out of line
  g0, k0,             \* a method of b that calls m0, and one of e that names b
  f0, h,               \* functions: h calls f0, f0 calls itself
  s1, s2,             \* specializations of the template t
  t

MCName == {ctor, m0, m1, out, g0, k0, f0, h, s1, s2}
MCClass == {a, b, e}
MCTemplate == {t}
MCMethodsOf ==
  [c \in MCClass |->
     CASE c = a -> <<ctor, m0, m1, out>> [] c = b -> <<g0>> [] c = e -> <<k0>>]
MCFieldsOf == [c \in MCClass |-> IF c = b THEN <<a>> ELSE <<>>]
MCSpecial == {ctor}
MCOutline == {out}
MCSignatureOf ==
  [n \in MCName |-> CASE n \in {m1, out, k0} -> <<b>> [] n \in {g0, s1} -> <<a>> [] OTHER -> <<>>]
MCCallsOf ==
  [n \in MCName |->
     CASE n = m0 -> <<m1>> [] n = g0 -> <<m0>> [] n = out -> <<m1>>
       [] n = f0 -> <<f0>> [] n = h -> <<f0>> [] n = s1 -> <<out>> [] n = s2 -> <<s1, f0>>
       [] OTHER -> <<>>]

Def(n) == [kind |-> "function", symbol |-> n, names |-> <<>>, defines |-> TRUE]
Decl(n) == [kind |-> "function", symbol |-> n, names |-> <<>>, defines |-> FALSE]
ClassDef(c) == [kind |-> "classes", symbol |-> c, names |-> <<c>>, defines |-> TRUE]
TemplateOf(names) == [kind |-> "functions", symbol |-> t, names |-> names, defines |-> TRUE]

MCPrograms ==
  { <<Decl(f0), Def(h), Def(f0)>>,
    <<Decl(f0), Def(h)>>,
    <<Def(f0), Decl(f0), Def(h), Def(f0)>>,
    <<ClassDef(a), ClassDef(b), Def(out)>>,
    <<ClassDef(b), ClassDef(a), Def(out)>>,
    <<ClassDef(e), ClassDef(a), ClassDef(b), Def(s1), Def(out)>>,
    <<TemplateOf(<<s1, s2>>), ClassDef(a), Def(out)>>,
    <<Decl(f0), ClassDef(a), TemplateOf(<<s1, s2>>), Def(f0), Def(out)>> }

Faulty == ({ctor, m0, m1, out, g0, f0, s1, s2} \X {"signature", "body"}) \union {<<a, "fields">>, <<b, "fields">>}
MCFaults == {F \in SUBSET Faulty : Cardinality(F) <= 2}
MCRefusals == {{}, {f0}, {a}, {h}, {s1}}
=============================================================================
