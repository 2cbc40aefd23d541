---------------------------- MODULE MCItemColoring ----------------------------
(***************************************************************************)
(* Instances of ItemColoring for TLC.  In each, a graph is ANY subset of a *)
(* small set of edges and the probe finds ANY subset of a small set of     *)
(* constructs, so one run covers every graph over those edges.             *)
(***************************************************************************)
EXTENDS ItemColoring

Edge(f, k, t) == [from |-> f, kind |-> k, to |-> t]

(* Functions 1 and 2 in a call cycle; 2 takes a record 3 and reads a global *)
(* 4 of that type, by its address too; 1 names the record in its body and   *)
(* calls through a pointer.                                                *)
MCKind == <<"function", "function", "record", "global">>
MCItem == 1 .. 4
MCEdges ==
  {Edge(1, "Calls", 2), Edge(2, "Calls", 1), Edge(1, "CallsIndirect", NoTarget),
   Edge(2, "SigType", 3), Edge(1, "BodyType", 3), Edge(4, "SigType", 3),
   Edge(2, "ReadsGlobal", 4), Edge(2, "AddressOfGlobal", 4)}
MCRejections == {<<3, 1, FALSE>>, <<2, 2, FALSE>>, <<2, 1, TRUE>>}
=============================================================================
