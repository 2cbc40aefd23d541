----------------------------- MODULE StdoutStream -----------------------------
(***************************************************************************)
(* The buffered stdout every printing crate carries (emitStdoutRuntime in  *)
(* lib/ImportC), next to the stream it stands for: glibc's, fully buffered *)
(* because stdout is a file or a pipe.  Bytes leave in the order they come,*)
(* so a stream is told by how many it holds and how many have left it.     *)
(***************************************************************************)
EXTENDS Integers

CONSTANT BlockSize       \* __EMITRUST_STDOUT_BUFSIZ, the file's st_blksize

ASSUME BlockAssumption == BlockSize \in Nat \ {0}

Stream == [started : BOOLEAN, held : 0 .. BlockSize, disk : Nat]

Fresh == [started |-> FALSE, held |-> 0, disk |-> 0]

(* The first write allocates: before it there is no room to fill.          *)
Room(s) == IF s.started THEN BlockSize - s.held ELSE 0

(* What is left of n bytes once the buffer is full: whole blocks leave     *)
(* straight through, the rest is held.                                     *)
Overflowing(s, n) ==
  LET rest == n - Room(s)
  IN [started |-> TRUE,
      held    |-> rest % BlockSize,
      disk    |-> s.disk + s.held + n - (rest % BlockSize)]

(* A mistake, a BufWriter's: what is held leaves first, the buffer is not  *)
(* filled.                                                                 *)
WrittenByBufWriter(s, n) ==
  IF s.held + n <= BlockSize
  THEN [s EXCEPT !.started = TRUE, !.held = @ + n]
  ELSE IF n >= BlockSize
       THEN [started |-> TRUE, held |-> 0, disk |-> s.disk + s.held + n]
       ELSE [started |-> TRUE, held |-> n, disk |-> s.disk + s.held]

(* __emitrust_out_write.                                                   *)
Written(s, n) ==
  IF s.started /\ n <= Room(s) THEN [s EXCEPT !.held = @ + n] ELSE Overflowing(s, n)

(* Does writing n bytes reach the file?  Then it can fail.                 *)
Reaches(s, n) == Written(s, n).disk # s.disk

(* __emitrust_out_flush.                                                   *)
Flushed(s) == [s EXCEPT !.held = 0, !.disk = @ + s.held]

(* glibc's _IO_new_file_xsputn: nothing to write does nothing.             *)
XsPutN(s, n) ==
  IF n <= Room(s) THEN [s EXCEPT !.held = @ + n] ELSE Overflowing(s, n)
=============================================================================
