---------------------------- MODULE MCBuildAndRun ----------------------------
(***************************************************************************)
(* Three stations on the way of a C project: the shim compiles it, the link *)
(* makes one module of it, the crate of actors runs.  What one station      *)
(* hands to the next is any of its instance's inputs, so the stations share *)
(* no state: in every behavior one of them works and the others never start.*)
(***************************************************************************)
EXTENDS CompilerShim, MCLinkMerge, MCActorRuntime

VARIABLE station     \* the one that works

AnyLine == CHOOSE l \in Lines : TRUE

StationInit ==
  /\ ShimInit
  /\ \/ station = "shim" /\ line = AnyLine /\ program = <<>>
     \/ station = "link" /\ program = <<>>
     \/ station = "crate" /\ line = AnyLine
  /\ LinkInit /\ Init

StationNext ==
  \/ station = "shim" /\ ShimNext /\ UNCHANGED <<station, linkVars, vars>>
  \/ station = "link" /\ LinkNext /\ UNCHANGED <<station, shimVars, vars>>
  \/ station = "crate" /\ Next /\ UNCHANGED <<station, shimVars, linkVars>>

(* The threads of the crate are scheduled fairly; the shim and the link may *)
(* stop at any moment.                                                     *)
StationSpec ==
  /\ StationInit /\ [][StationNext]_<<station, shimVars, linkVars, vars>>
  /\ Fairness
=============================================================================
