------------------------------ MODULE MCWorkspace ------------------------------
(* A main, two more units and their file-statics of one name: any subset   *)
(* of the edges below, in two orders on the line, with and without an      *)
(* override.                                                               *)
EXTENDS Workspace, TLC

CONSTANTS main, f0, g0, h0, print, x0, y0, z0, R0, out, one, two

MCFunction == {main, f0, g0, h0, print}
MCGlobal == {x0, y0, z0}
MCStatic == {z0}

E(from, kind, to) == [from |-> from, kind |-> kind, to |-> to]
Address(from, to) == {E(from, "AddressOfGlobal", to), E(from, "ReadsGlobal", to)}

(* What each unit defines, besides the statics it uses, and always does ... *)
Defs == [app |-> {main, h0}, lib |-> {f0, x0, R0}, util |-> {g0, y0, R0}]
Always == {<<"app", {E(main, "WritesGlobal", z0), E(h0, "Calls", print)}>>}

(* ... and what it may do besides: <<unit, edges>>.                        *)
Extras ==
  { <<"app", {E(main, "Calls", f0)}>>,
    <<"app", {E(h0, "WritesGlobal", z0), E(h0, "CallsIndirect", NoTarget)}>>,
    <<"lib", {E(f0, "Calls", g0)}>>,
    <<"lib", {E(f0, "ReadsGlobal", z0)}>>,
    <<"lib", Address(f0, z0) \union {E(f0, "WritesGlobal", x0)}>>,
    <<"util", {E(g0, "Calls", f0)}>>,
    <<"util", {E(g0, "Calls", h0)}>>,
    <<"util", {E(g0, "WritesGlobal", y0), E(g0, "Calls", print)}>>,
    <<"util", {E(g0, "ReadsGlobal", x0)}>>,
    <<"util", {E(g0, "TakesAddressOf", f0), E(g0, "BodyType", R0)}>>,
    <<"util", Address(y0, x0)>> }

Unit(name, chosen, dir) ==
  LET edges == UNION {c[2] : c \in {d \in chosen \union Always : d[1] = name}}
  IN  [dir |-> dir[name], edges |-> edges,
       defs |-> Defs[name] \union (MCStatic \intersect {e.to : e \in edges}),
       impls |-> IF name = "util" /\ dir["util"] = dir["app"] THEN {R0} ELSE {}]

MCLines ==
  {[i \in 1..3 |-> Unit(way[1][i], chosen, way[2])] :
     chosen \in SUBSET Extras,
     way \in {<< <<"app", "lib", "util">>, [app |-> 1, lib |-> 2, util |-> 3]>>,
              << <<"util", "lib", "app">>, [app |-> 1, lib |-> 2, util |-> 3]>>,
              << <<"lib", "app", "util">>, [app |-> 1, lib |-> 2, util |-> 1]>>}}

MCPins == {<<>>, <<0, y0>> :> one @@ <<0, x0>> :> two}
Order == <<out, one, <<1, z0>>, <<2, z0>>, <<3, z0>>, two, <<0, x0>>, <<0, y0>>>>
MCRank == [n \in Range(Order) |-> CHOOSE i \in DOMAIN Order : Order[i] = n]
=============================================================================
