--------------------------- MODULE MCFrontierSearch ---------------------------
(***************************************************************************)
(* Instances of FrontierSearch for TLC: a small project, every verdict the *)
(* coloring probe may have reached on some of its items, and a handful of  *)
(* outcomes an import attempt may have.                                    *)
(***************************************************************************)
EXTENDS FrontierSearch

Edge(f, k, t) == [from |-> f, kind |-> k, to |-> t]

Works(ported, stubbed, rejected) ==
  [imported |-> TRUE, ported |-> ported, stubbed |-> stubbed,
   rejected |-> rejected, symbol |-> NoSymbol, file |-> 0, line |-> 0]

Fails(symbol, file, line) ==
  [imported |-> FALSE, ported |-> 0, stubbed |-> 0, rejected |-> {},
   symbol |-> symbol, file |-> file, line |-> line]

(* Function main 1 calls 2, which takes a record 3 and calls a function 4  *)
(* that is only declared; main calls another such function, 5.             *)
MCItem == 1 .. 5
MCKind == <<"function", "function", "record", "function", "function">>
MCGraph == {Edge(1, "Calls", 2), Edge(2, "SigType", 3), Edge(2, "Calls", 4), Edge(1, "Calls", 5)}
MCDefined == {1, 2, 3}
MCExternal == {1, 3, 4, 5}
MCFile == <<1, 1, 1, 2, 2>>
MCLine == <<9, 5, 1, 1, 2>>
MCSeeds == {2, 3}
MCOutcomes ==
  {Works(1, 1, {}), Works(0, 0, {1, 3}),
   Fails(4, 0, 0), Fails(2, 1, 9), Fails(Foreign, 1, 6)}
=============================================================================
