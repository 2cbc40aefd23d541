------------------------------- MODULE CProgram -------------------------------
(***************************************************************************)
(* What a translated program promises, however many threads run it: its    *)
(* statements happen one after the other in the program's order, and its   *)
(* stdout is C's.  A statement may also be the end of the program: exit,   *)
(* abort, or what C leaves undefined and Rust turns into a panic, which    *)
(* still shows what was printed before it.                                 *)
(***************************************************************************)
EXTENDS StdoutStream, Sequences

VARIABLES
  program,   \* the statements, in C's order
  ran,       \* the ones that have happened, by position
  stream,    \* stdout
  outcome,   \* what has become of the program
  broken     \* has the reader of stdout gone away?  Then nothing is promised

vars == <<program, ran, stream, outcome>>

Init ==
  /\ ran = <<>> /\ stream = Fresh /\ outcome = "running"

Do ==
  LET k == Len(ran) + 1
      does == program[k].does
  IN /\ outcome = "running" /\ k \in DOMAIN program
     /\ ran' = Append(ran, k)
     /\ CASE does = "print" -> stream' = XsPutN(stream, program[k].size) /\ UNCHANGED outcome
          [] does = "exit"  -> stream' = Flushed(stream) /\ outcome' = "exited"
          [] does = "abort" -> outcome' = "aborted" /\ UNCHANGED stream
          [] does = "panic" -> outcome' = "panicking" /\ UNCHANGED stream
     /\ UNCHANGED program

Panicked ==
  /\ outcome = "panicking" /\ outcome' = "panicked"
  /\ stream' = Flushed(stream)
  /\ UNCHANGED <<program, ran>>

Return ==
  /\ outcome = "running" /\ Len(ran) = Len(program)
  /\ outcome' = "returned" /\ stream' = Flushed(stream)
  /\ UNCHANGED <<program, ran>>

Next == Do \/ Panicked \/ Return \/ broken

Spec == Init /\ [][Next]_vars
=============================================================================
