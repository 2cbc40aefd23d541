-------------------------- MODULE ActorRuntimeProofs --------------------------
(***************************************************************************)
(* The threads of a crate with actors, proved: any program, any number of  *)
(* actors, any size of the stdout buffer.                                  *)
(***************************************************************************)
EXTENDS ActorRuntime, SequenceTheorems, TLAPS

-----------------------------------------------------------------------------
(* The stream.                                                             *)

(* A remainder is smaller than what divides and no larger than what is     *)
(* divided.                                                                *)
LEMMA Remainder ==
  ASSUME NEW m \in Nat, NEW b \in Nat \ {0}
  PROVE  m % b \in 0 .. b - 1 /\ m % b <= m
  OBVIOUS

LEMMA StreamTypes ==
  ASSUME NEW s \in Stream, NEW n \in Nat
  PROVE  Written(s, n) \in Stream /\ Flushed(s) \in Stream
<1>1. Room(s) \in 0 .. BlockSize
  BY BlockAssumption DEF Stream, Room
<1>2. ASSUME ~(s.started /\ n <= Room(s)) PROVE Overflowing(s, n) \in Stream
  <2> DEFINE rest == n - Room(s)
  <2>1. rest \in Nat /\ rest <= n
    BY <1>1, <1>2 DEF Room
  <2>2. rest % BlockSize \in 0 .. BlockSize - 1 /\ rest % BlockSize <= rest
    BY <2>1, Remainder, BlockAssumption
  <2>3. s.disk + s.held + n - (rest % BlockSize) \in Nat
    BY <2>1, <2>2 DEF Stream
  <2>4. rest % BlockSize \in 0 .. BlockSize
    BY <2>2, BlockAssumption
  <2> HIDE DEF rest
  <2>5. QED
    BY <2>3, <2>4 DEF Overflowing, Stream, rest
<1>3. Written(s, n) \in Stream
  <2>1. CASE s.started /\ n <= Room(s)
    <3>1. s.held + n \in 0 .. BlockSize
      BY <2>1, <1>1, BlockAssumption DEF Stream, Room
    <3>2. QED
      BY <2>1, <3>1 DEF Written, Stream
  <2>2. CASE ~(s.started /\ n <= Room(s))
    BY <2>2, <1>2 DEF Written
  <2>3. QED
    BY <2>1, <2>2
<1>4. Flushed(s) \in Stream
  <2>1. s.disk + s.held \in Nat /\ 0 \in 0 .. BlockSize
    BY BlockAssumption DEF Stream
  <2>2. QED
    BY <2>1 DEF Flushed, Stream
<1>5. QED
  BY <1>3, <1>4

-----------------------------------------------------------------------------
(* The inductive invariant.  The threads run, but in turn: everything an   *)
(* actor may be at follows from what the driver is at.                     *)

(* What the driver may be doing, and an actor; a driver that waits, or has *)
(* found its callee gone, is at a statement of that callee.                *)
Roles ==
  /\ doing[Driver] \in {"spawning", "running", "waiting", "reaping", "hook", "unwinding"}
  /\ \A a \in Actor : doing[a] \in {"unborn", "idle", "replying", "hook", "unwinding",
                                    "dying", "ended", "panicked"}
  /\ doing[Driver] \in {"waiting", "reaping"} => pc \in DOMAIN program /\ Peer \in Actor

Serving(a) == doing[Driver] = "waiting" /\ a = Peer

(* An actor does anything only for a driver that waits for it, and how far *)
(* it has come is told by the reply channel of the statement.              *)
Turn(a) ==
  /\ doing[a] = "unborn" => doing[Driver] = "spawning" /\ a \notin open
  /\ doing[a] = "ended" => pc \notin DOMAIN program
  /\ Running /\ a \notin open => doing[a] = "unborn" \/ pc \notin DOMAIN program
  /\ mailbox[a] # <<>> =>
       Serving(a) /\ mailbox[a] = <<pc>> /\ doing[a] = "idle" /\ reply[pc] = "open"
  /\ doing[a] \in {"replying", "hook", "unwinding"} =>
       Serving(a) /\ job[a] = pc /\ reply[pc] = "open"
  /\ doing[a] \in {"dying", "panicked"} =>
       /\ doing[Driver] \in {"waiting", "reaping", "unwinding"}
       /\ pc \in DOMAIN program /\ a = Peer /\ reply[pc] = "closed"
  /\ Serving(a) /\ reply[pc] = "sent" => doing[a] = "idle"
  /\ Serving(a) /\ reply[pc] = "closed" => doing[a] \in {"dying", "panicked"}
  /\ doing[Driver] = "reaping" /\ a = Peer => doing[a] \in {"dying", "panicked"}

Handshake == \A a \in Actor : Turn(a)

(* The panic of t is that of the statement that ran last.                  *)
Blame(t) ==
  /\ raised[t] \in DOMAIN program /\ program[raised[t]].does = "panic"
  /\ ran # <<>> /\ raised[t] = ran[Len(ran)]

Past == {"unwinding", "dying", "panicked"}    \* the hook

(* Before the hook nothing has been reported, and past it one panic has:   *)
(* the program's own, unless a write failed, and that one never gets past. *)
Fault(t) ==
  /\ doing[t] = "hook" =>
       /\ reported = 0
       /\ (lock = Free /\ Blame(t)) \/ (lock = t /\ raised[t] = WriteFailed)
  /\ doing[t] \in Past => reported = 1 /\ lock = Free /\ Blame(t)
  /\ doing[t] \notin Past \union {"hook"} => raised[t] = Nothing

Provenance ==
  /\ \A t \in Thread : Fault(t)
  /\ lock \in Thread => doing[lock] = "hook"
  /\ reported # 0 => \E t \in Thread : doing[t] \in Past
  /\ process = "panicked" => doing[Driver] = "unwinding"

(* The statements that have happened are the ones the driver is past.      *)
Count ==
  /\ doing[Driver] \in {"spawning", "running"} => Len(ran) = pc - 1
  /\ \A a \in Actor : Serving(a) => Len(ran) = IF mailbox[a] = <<>> THEN pc ELSE pc - 1

IInv == TypeOK /\ Roles /\ Handshake /\ Provenance /\ Count
-----------------------------------------------------------------------------
(* The program.                                                            *)

(* A program is a sequence of statements, each of some thread.             *)
LEMMA AProgram ==
  ASSUME program \in Programs
  PROVE  /\ Len(program) \in Nat /\ DOMAIN program = 1 .. Len(program)
         /\ \A k \in DOMAIN program :
              program[k].at \in Thread /\ program[k].does \in Effect /\ program[k].size \in Nat
<1>1. program \in Seq(Statement)
  BY ProgramAssumption
<1>2. \A k \in DOMAIN program : program[k] \in Statement
  BY <1>1
<1>3. QED
  BY <1>1, <1>2 DEF Statement

(* The driver is none of the actors, and nobody is not a thread.           *)
LEMMA Threads ==
  /\ Driver \in Thread /\ Driver \notin Actor /\ Actor \subseteq Thread
  /\ Thread = {Driver} \union Actor /\ Free \notin Thread /\ Actor \subseteq Nat \ {0}
  BY ProgramAssumption DEF Thread, Actor, Driver, Free

(* What is appended is the last.                                           *)
LEMMA Appended ==
  ASSUME NEW S, NEW s \in Seq(S), NEW e \in S
  PROVE  /\ Append(s, e) \in Seq(S) /\ Len(Append(s, e)) = Len(s) + 1
         /\ Append(s, e)[Len(Append(s, e))] = e /\ Append(s, e) # <<>>
<1>1. Append(s, e) \in Seq(S) /\ Len(Append(s, e)) = Len(s) + 1 /\ Len(s) \in Nat
  OBVIOUS
<1>2. Append(s, e)[Len(s) + 1] = e
  OBVIOUS
<1>3. Len(Append(s, e)) # 0
  BY <1>1
<1>4. QED
  BY <1>1, <1>2, <1>3

-----------------------------------------------------------------------------
(* What a statement does, without the stream.                              *)

Passes(t, then) ==
  Becomes(t, then) /\ UNCHANGED <<raised, lock, process>>

Stops == process' \in {"exited", "aborted"} /\ UNCHANGED <<doing, raised, lock>>

Fails(t, k) ==
  Panics(t, k) /\ program[k].does = "panic" /\ UNCHANGED <<lock, process>>

Jams(t) == Panics(t, WriteFailed) /\ lock = Free /\ lock' = t /\ UNCHANGED process

(* A statement passes, ends the program, panics, or is stuck in the writer.*)
LEMMA Outcomes ==
  ASSUME TypeOK, NEW t \in Thread, NEW k \in DOMAIN program, NEW then, Perform(t, k, then)
  PROVE  /\ ran' = Append(ran, k) /\ stream' \in Stream
         /\ Passes(t, then) \/ Stops \/ Fails(t, k) \/ Jams(t)
<1>1. program[k].size \in Nat /\ stream \in Stream
  BY AProgram DEF TypeOK
<1>2. Written(stream, program[k].size) \in Stream /\ Flushed(stream) \in Stream
  BY <1>1, StreamTypes
<1>3. CASE program[k].does = "print" /\ Output(t, program[k].size, then)
  BY <1>1, <1>2, <1>3 DEF Perform, Output, Passes, Jams
<1>4. CASE program[k].does = "exit" /\ Leave(t, "exited")
  BY <1>1, <1>2, <1>4 DEF Perform, Leave, Stops, Jams
<1>5. CASE program[k].does = "abort" /\ process' = "aborted"
           /\ UNCHANGED <<doing, raised, lock, stream>>
  BY <1>1, <1>5 DEF Perform, Stops
<1>6. CASE program[k].does = "panic" /\ Panics(t, k) /\ UNCHANGED <<lock, stream, process>>
  BY <1>1, <1>6 DEF Perform, Fails
<1>7. QED
  BY <1>3, <1>4, <1>5, <1>6 DEF Perform

-----------------------------------------------------------------------------
(* Types.                                                                  *)

(* Every variable has its type at the start.                               *)
LEMMA InitIInv == Init => IInv
<1> SUFFICES ASSUME Init PROVE IInv
  OBVIOUS
<1>1. Len(program) \in Nat /\ DOMAIN program = 1 .. Len(program)
  BY AProgram DEF Init
<1>2. Fresh \in Stream
  BY BlockAssumption DEF Fresh, Stream
<1>3. Driver \in Thread /\ Driver \notin Actor /\ Actor \subseteq Thread /\ Free \notin Thread
  BY Threads
<1>4. TypeOK
  <2>1. program \in Programs /\ pc \in 1 .. Len(program) + 1 /\ reply \in [DOMAIN program -> {"none"}]
    BY <1>1 DEF Init
  <2>2. doing \in [Thread -> {"spawning", "unborn"}] /\ raised \in [Thread -> {0}]
    BY DEF Init, Nothing
  <2>3. job \in [Actor -> 0 .. Len(program)] /\ mailbox \in [Actor -> Seq(DOMAIN program)]
    BY <1>1 DEF Init
  <2>4. raised \in [Thread -> {WriteFailed, NoReply, NoReceiver} \union (0 .. Len(program))]
    BY <2>2, <1>1
  <2>5. open = {} /\ reported = 0 /\ lock = Free /\ stream \in Stream /\ broken = FALSE
          /\ ran = <<>> /\ process = "running"
    BY <1>2 DEF Init
  <2>6. ran \in Seq(DOMAIN program)
    BY <2>5
  <2>7. QED
    BY <2>1, <2>2, <2>3, <2>4, <2>5, <2>6 DEF TypeOK
<1>5. Roles
  BY <1>3 DEF Init, Roles
<1>6. Handshake
  BY <1>3 DEF Init, Handshake, Turn, Serving
<1>7. Provenance
  BY <1>3 DEF Init, Provenance, Fault, Past
<1>8. Count
  <2>1. pc = 1 /\ ran = <<>> /\ doing[Driver] = "spawning"
    BY <1>3 DEF Init
  <2>2. QED
    BY <2>1 DEF Count, Serving
<1>9. QED
  BY <1>4, <1>5, <1>6, <1>7, <1>8 DEF IInv
-----------------------------------------------------------------------------
(* What the invariant says of the moments that matter.                     *)

Calm ==
  /\ lock = Free /\ reported = 0
  /\ \A t \in Thread : doing[t] \notin Past \union {"hook"} /\ raised[t] = Nothing

(* Nobody has failed while the driver runs or a message waits.             *)
LEMMA CalmMoments ==
  ASSUME IInv, doing[Driver] = "running" \/ \E a \in Actor : mailbox[a] # <<>>
  PROVE  Calm
<1> USE Threads DEF IInv
<1>1. \A t \in Thread : doing[t] \notin Past \union {"hook"}
  <2>1. doing[Driver] \in {"running", "waiting"}
    BY DEF Handshake, Turn, Serving
  <2>2. \A a \in Actor : doing[a] \notin Past \union {"hook"}
    BY DEF Past, Handshake, Turn, Serving
  <2>3. QED
    BY <2>1, <2>2 DEF Past
<1>2. QED
  BY <1>1 DEF Calm, TypeOK, Provenance, Fault

(* The callee of a driver that reaps has panicked.                         *)
LEMMA Caught ==
  ASSUME IInv, Reap
  PROVE  doing[Peer] = "panicked" /\ Peer \in Actor /\ doing[Driver] = "reaping"
<1>1. Peer \in Actor /\ doing[Driver] = "reaping" /\ doing[Peer] \in Gone
  BY DEF IInv, Roles, Reap
<1>2. doing[Peer] \in {"dying", "panicked"}
  BY <1>1 DEF IInv, Handshake, Turn
<1>3. QED
  BY <1>1, <1>2 DEF Gone

(* An actor replies to a driver that waits for it.                         *)
LEMMA Awaited ==
  ASSUME IInv, NEW a \in Actor, Reply(a)
  PROVE  /\ doing[a] = "replying" /\ Serving(a) /\ job[a] = pc /\ reply[pc] = "open"
         /\ pc \in DOMAIN program
  BY DEF IInv, Roles, Handshake, Turn, Serving, Reply

(* One thread at most is in the hook, and nobody is past it then.          *)
LEMMA OneInTheHook ==
  ASSUME IInv, NEW t \in Thread, doing[t] = "hook"
  PROVE  \A u \in Thread : doing[u] \notin Past /\ (doing[u] = "hook" => u = t)
<1> SUFFICES ASSUME NEW u \in Thread
             PROVE  doing[u] \notin Past /\ (doing[u] = "hook" => u = t)
  OBVIOUS
<1>1. doing[u] \notin Past
  BY DEF IInv, Provenance, Fault
<1>2. (t \in Actor => Turn(t)) /\ (u \in Actor => Turn(u))
  BY DEF IInv, Handshake
<1>3. QED
  BY <1>1, <1>2, Threads DEF Turn, Serving

-----------------------------------------------------------------------------
(* One lemma per action: the invariant survives it.                        *)

LEMMA SpawnIInv ==
  ASSUME IInv, NEW a \in Actor, Spawn(a)
  PROVE  IInv'
<1> USE Threads DEF IInv
<1>1. TypeOK'
  BY DEF TypeOK, Spawn, Becomes
<1>2. Roles'
  BY DEF TypeOK, Roles, Handshake, Turn, Serving, Peer, Spawn, Becomes
<1>3. Handshake'
  BY DEF TypeOK, Roles, Handshake, Turn, Serving, Peer, Running, Spawn, Becomes
<1>4. Provenance'
  BY SMTT(30) DEF TypeOK, Roles, Handshake, Turn, Serving, Peer, Provenance, Fault, Blame, Past,
         Running, Spawn, Becomes
<1>5. Count'
  BY AProgram DEF TypeOK, Roles, Handshake, Turn, Serving, Peer, Count, Spawn, Becomes
<1>6. QED
  BY <1>1, <1>2, <1>3, <1>4, <1>5

LEMMA SpawnedIInv ==
  ASSUME IInv, Spawned
  PROVE  IInv'
<1> USE Threads DEF IInv
<1>1. TypeOK'
  BY DEF TypeOK, Spawned, Becomes
<1>2. Roles'
  BY DEF TypeOK, Roles, Handshake, Turn, Serving, Peer, Spawned, Becomes
<1>3. Handshake'
  BY DEF TypeOK, Roles, Handshake, Turn, Serving, Peer, Running, Spawned, Becomes
<1>4. Provenance'
  BY DEF TypeOK, Roles, Handshake, Turn, Serving, Peer, Provenance, Fault, Blame, Past,
         Running, Spawned, Becomes
<1>5. Count'
  BY AProgram DEF TypeOK, Roles, Handshake, Turn, Serving, Peer, Count, Spawned, Becomes
<1>6. QED
  BY <1>1, <1>2, <1>3, <1>4, <1>5

LEMMA ShutdownIInv ==
  ASSUME IInv, NEW a \in Actor, Shutdown(a)
  PROVE  IInv'
<1> USE Threads DEF IInv
<1>1. TypeOK'
  BY DEF TypeOK, Shutdown, CanReturn
<1>2. Roles'
  BY DEF TypeOK, Roles, Handshake, Turn, Serving, Peer, Shutdown, CanReturn
<1>3. Handshake'
  BY DEF TypeOK, Roles, Handshake, Turn, Serving, Peer, Running, Shutdown, CanReturn
<1>4. Provenance'
  BY DEF TypeOK, Roles, Handshake, Turn, Serving, Peer, Provenance, Fault, Blame, Past,
         Running, Shutdown, CanReturn
<1>5. Count'
  BY AProgram DEF TypeOK, Roles, Handshake, Turn, Serving, Peer, Count, Shutdown, CanReturn
<1>6. QED
  BY <1>1, <1>2, <1>3, <1>4, <1>5

LEMMA UnwoundIInv ==
  ASSUME IInv, Unwound
  PROVE  IInv'
<1> USE Threads DEF IInv
<1>1. TypeOK'
  BY DEF TypeOK, Unwound
<1>2. Roles'
  BY DEF TypeOK, Roles, Handshake, Turn, Serving, Peer, Unwound
<1>3. Handshake'
  BY DEF TypeOK, Roles, Handshake, Turn, Serving, Peer, Running, Unwound
<1>4. Provenance'
  BY DEF TypeOK, Roles, Handshake, Turn, Serving, Peer, Provenance, Fault, Blame, Past,
         Running, Unwound
<1>5. Count'
  BY AProgram DEF TypeOK, Roles, Handshake, Turn, Serving, Peer, Count, Unwound
<1>6. QED
  BY <1>1, <1>2, <1>3, <1>4, <1>5

LEMMA UnwindIInv ==
  ASSUME IInv, NEW a \in Actor, Unwind(a)
  PROVE  IInv'
<1> USE Threads DEF IInv
<1>1. TypeOK'
  BY DEF TypeOK, Unwind, Becomes
<1>2. Roles'
  BY DEF TypeOK, Roles, Handshake, Turn, Serving, Peer, Unwind, Becomes
<1>3. Handshake'
  BY DEF TypeOK, Roles, Handshake, Turn, Serving, Peer, Running, Unwind, Becomes
<1>4. Provenance'
  BY DEF TypeOK, Roles, Handshake, Turn, Serving, Peer, Provenance, Fault, Blame, Past,
         Running, Unwind, Becomes
<1>5. Count'
  BY AProgram DEF TypeOK, Roles, Handshake, Turn, Serving, Peer, Count, Unwind, Becomes
<1>6. QED
  BY <1>1, <1>2, <1>3, <1>4, <1>5

LEMMA EndLoopIInv ==
  ASSUME IInv, NEW a \in Actor, EndLoop(a)
  PROVE  IInv'
<1> USE Threads DEF IInv
<1>1. TypeOK'
  BY DEF TypeOK, EndLoop, Becomes
<1>2. Roles'
  BY DEF TypeOK, Roles, Handshake, Turn, Serving, Peer, EndLoop, Becomes
<1>3. Handshake'
  BY DEF TypeOK, Roles, Handshake, Turn, Serving, Peer, Running, EndLoop, Becomes
<1>4. Provenance'
  BY SMTT(30) DEF TypeOK, Roles, Handshake, Turn, Serving, Peer, Provenance, Fault, Blame, Past,
         Running, EndLoop, Becomes
<1>5. Count'
  BY AProgram DEF TypeOK, Roles, Handshake, Turn, Serving, Peer, Count, EndLoop, Becomes
<1>6. QED
  BY <1>1, <1>2, <1>3, <1>4, <1>5

LEMMA BreakIInv ==
  ASSUME IInv, Break
  PROVE  IInv'
<1> USE Threads DEF IInv
<1>1. TypeOK'
  BY DEF TypeOK, Break
<1>2. Roles'
  BY DEF TypeOK, Roles, Handshake, Turn, Serving, Peer, Break
<1>3. Handshake'
  BY DEF TypeOK, Roles, Handshake, Turn, Serving, Peer, Running, Break
<1>4. Provenance'
  BY DEF TypeOK, Roles, Handshake, Turn, Serving, Peer, Provenance, Fault, Blame, Past,
         Running, Break
<1>5. Count'
  BY AProgram DEF TypeOK, Roles, Handshake, Turn, Serving, Peer, Count, Break
<1>6. QED
  BY <1>1, <1>2, <1>3, <1>4, <1>5

LEMMA ReceiveIInv ==
  ASSUME IInv, Receive
  PROVE  IInv'
<1> USE Threads DEF IInv
<1>1. TypeOK'
  BY AProgram DEF TypeOK, Roles, Receive, Becomes
<1>2. Roles'
  BY DEF TypeOK, Roles, Handshake, Turn, Serving, Peer, Receive, Becomes
<1>3. Handshake'
  BY DEF TypeOK, Roles, Handshake, Turn, Serving, Peer, Running, Receive, Becomes
<1>4. Provenance'
  <2> USE DEF TypeOK, Roles, Handshake, Turn, Serving, Peer, Provenance, Fault, Blame, Past,
              Becomes
  <2>1. CASE reply[pc] = "sent" /\ Becomes(Driver, "running")
    BY <2>1 DEF Receive
  <2>2. CASE reply[pc] = "closed" /\ Becomes(Driver, "reaping")
    BY <2>2 DEF Receive
  <2>3. QED
    BY <2>1, <2>2 DEF Receive
<1>5. Count'
  <2>1. Peer \in Actor /\ Serving(Peer) /\ Turn(Peer) /\ pc \in Nat
    <3>1. pc \in DOMAIN program /\ Peer \in Actor
      BY DEF Roles, Receive
    <3>2. QED
      BY <3>1, AProgram DEF TypeOK, Handshake, Serving, Receive
  <2>2. reply[pc] = "sent" => Len(ran) = pc
    BY <2>1 DEF Turn, Count
  <2>3. CASE reply[pc] = "sent" /\ Becomes(Driver, "running") /\ pc' = pc + 1
    BY <2>1, <2>2, <2>3 DEF TypeOK, Count, Serving, Becomes, Receive
  <2>4. CASE reply[pc] = "closed" /\ Becomes(Driver, "reaping")
    BY <2>4 DEF TypeOK, Count, Serving, Becomes, Receive
  <2>5. QED
    BY <2>3, <2>4 DEF Receive
<1>6. QED
  BY <1>1, <1>2, <1>3, <1>4, <1>5

LEMMA CallIInv ==
  ASSUME IInv, Call
  PROVE  IInv'
<1> USE Threads DEF IInv
<1>1. /\ Peer \in Actor /\ pc \in DOMAIN program /\ doing[Driver] = "running"
      /\ doing[Peer] = "idle" /\ \A a \in Actor : mailbox[a] = <<>>
  <2>1. Peer \in Actor /\ pc \in DOMAIN program /\ doing[Driver] = "running"
    BY AProgram DEF TypeOK, Call, Peer
  <2>2. QED
    BY <2>1 DEF Roles, Handshake, Turn, Serving, Call, Gone
<1>2. /\ doing' = [doing EXCEPT ![Driver] = "waiting"]
      /\ mailbox' = [mailbox EXCEPT ![Peer] = <<pc>>]
      /\ reply' = [reply EXCEPT ![pc] = "open"]
  <2>1. mailbox[Peer] = <<>>
    BY <1>1
  <2>2. Append(mailbox[Peer], pc) = <<pc>>
    BY <2>1
  <2>3. QED
    BY <1>1, <2>2 DEF TypeOK, Call, Gone, Becomes
<1>3. UNCHANGED <<program, pc, job, open, raised, reported, lock, stream, broken, ran,
                  process>>
  BY DEF Call
<1>4. TypeOK'
  <2>1. <<pc>> \in Seq(DOMAIN program)
    BY <1>1
  <2>2. QED
    BY <1>1, <1>2, <1>3, <2>1 DEF TypeOK
<1>5. Roles'
  BY <1>1, <1>2, <1>3 DEF TypeOK, Roles, Peer
<1>6. Handshake'
  BY <1>1, <1>2, <1>3 DEF TypeOK, Roles, Handshake, Turn, Serving, Peer, Running
<1>7. Provenance'
  BY <1>1, <1>2, <1>3 DEF TypeOK, Provenance, Fault, Past, Blame
<1>8. Count'
  BY <1>1, <1>2, <1>3, AProgram DEF TypeOK, Count, Serving, Peer
<1>9. QED
  BY <1>4, <1>5, <1>6, <1>7, <1>8

LEMMA ReapIInv ==
  ASSUME IInv, Reap
  PROVE  IInv'
<1> USE Threads DEF IInv
<1>1. doing[Peer] = "panicked" /\ Peer \in Actor /\ doing[Driver] = "reaping"
  BY Caught
<1>2. /\ doing' = [doing EXCEPT ![Driver] = "unwinding"]
      /\ raised' = [raised EXCEPT ![Driver] = raised[Peer]]
  BY <1>1 DEF Reap, Becomes
<1>3. UNCHANGED <<program, pc, job, mailbox, open, reply, reported, lock, stream,
                  broken, ran, process>>
  BY DEF Reap
<1>4. TypeOK'
  BY <1>1, <1>2, <1>3 DEF TypeOK
<1>5. Roles'
  BY <1>1, <1>2, <1>3 DEF TypeOK, Roles, Handshake, Turn, Serving, Peer
<1>6. Handshake'
  BY <1>1, <1>2, <1>3 DEF TypeOK, Roles, Handshake, Turn, Serving, Peer, Running
<1>7. Provenance'
  <2>1. Fault(Peer) /\ reported = 1 /\ lock = Free /\ process = "running"
    BY <1>1 DEF TypeOK, Provenance, Fault, Past, Roles, Handshake, Serving, Turn, Running, Reap
  <2>2. \A t \in Thread : Fault(t)'
    BY <1>1, <1>2, <1>3, <2>1 DEF TypeOK, Provenance, Fault, Blame, Past
  <2>3. QED
    BY <1>1, <1>2, <1>3, <2>1, <2>2 DEF TypeOK, Provenance, Past
<1>8. Count'
  BY AProgram, <1>1, <1>2, <1>3 DEF TypeOK, Roles, Handshake, Turn, Serving, Peer, Count
<1>9. QED
  BY <1>4, <1>5, <1>6, <1>7, <1>8

LEMMA ReplyIInv ==
  ASSUME IInv, NEW a \in Actor, Reply(a)
  PROVE  IInv'
<1> USE Threads DEF IInv
<1>1. /\ doing[a] = "replying" /\ Serving(a) /\ job[a] = pc /\ reply[pc] = "open"
      /\ pc \in DOMAIN program
  BY Awaited
<1>2. /\ doing' = [doing EXCEPT ![a] = "idle"] /\ raised' = raised
      /\ reply' = [reply EXCEPT ![pc] = "sent"]
  BY <1>1 DEF Reply, Becomes
<1>3. UNCHANGED <<program, pc, job, mailbox, open, reported, lock, stream, broken, ran,
                  process>>
  BY DEF Reply
<1>4. TypeOK'
  BY <1>1, <1>2, <1>3 DEF TypeOK
<1>5. Roles'
  BY <1>1, <1>2, <1>3 DEF TypeOK, Roles, Peer
<1>6. Handshake'
  <2> SUFFICES ASSUME NEW b \in Actor
               PROVE  Turn(b)'
    BY DEF Handshake
  <2>1. Turn(b)
    BY DEF Handshake
  <2>2. CASE b = a
    BY <2>1, <2>2, <1>1, <1>2, <1>3 DEF TypeOK, Turn, Serving, Peer, Running
  <2>3. CASE b # a
    BY <2>1, <2>3, <1>1, <1>2, <1>3 DEF TypeOK, Turn, Serving, Peer, Running
  <2>4. QED
    BY <2>2, <2>3
<1>7. Provenance'
  <2>1. doing'[a] = "idle" /\ raised'[a] = Nothing /\ doing[a] = "replying"
    BY <1>1, <1>2 DEF TypeOK, Provenance, Fault, Past
  <2>2. \A t \in Thread : t # a => doing'[t] = doing[t]
    BY <1>2 DEF TypeOK
  <2>3. doing'[Driver] = doing[Driver]
    BY <2>2
  <2>4. QED
    BY <2>1, <2>2, <2>3, <1>2, <1>3 DEF Provenance, Fault, Past, Blame
<1>8. Count'
  BY <1>1, <1>2, <1>3 DEF TypeOK, Count, Serving, Peer
<1>9. QED
  BY <1>4, <1>5, <1>6, <1>7, <1>8

LEMMA DieIInv ==
  ASSUME IInv, NEW a \in Actor, Die(a)
  PROVE  IInv'
<1> USE Threads DEF IInv
<1>1. doing[a] = "dying" /\ Turn(a) /\ \A b \in Actor : mailbox[b] = <<>>
  BY DEF TypeOK, Handshake, Turn, Serving, Die
<1>2. doing' = [doing EXCEPT ![a] = "panicked"] /\ reply' = reply /\ mailbox' = mailbox
  BY <1>1 DEF TypeOK, Die, Becomes
<1>3. UNCHANGED <<program, pc, job, open, raised, reported, lock, stream, broken, ran, process>>
  BY DEF Die
<1>4. TypeOK'
  BY <1>1, <1>2, <1>3 DEF TypeOK
<1>5. Roles'
  BY <1>1, <1>2, <1>3 DEF TypeOK, Roles, Peer
<1>6. Handshake'
  BY <1>1, <1>2, <1>3 DEF TypeOK, Roles, Handshake, Turn, Serving, Peer, Running
<1>7. Provenance'
  <2>1. doing'[a] = "panicked" /\ doing[a] = "dying"
    BY <1>1, <1>2 DEF TypeOK
  <2>2. \A t \in Thread : t # a => doing'[t] = doing[t]
    BY <1>2 DEF TypeOK
  <2>3. \A t \in Thread : Fault(t)'
    BY <2>1, <2>2, <1>3 DEF Provenance, Fault, Past, Blame
  <2>4. \A t \in Thread : doing[t] \in Past <=> doing'[t] \in Past
    BY <2>1, <2>2 DEF Past
  <2>5. QED
    BY <2>1, <2>2, <2>3, <2>4, <1>1, <1>3 DEF Provenance, Turn
<1>8. Count'
  BY <1>1, <1>2, <1>3 DEF TypeOK, Count, Serving, Peer
<1>9. QED
  BY <1>4, <1>5, <1>6, <1>7, <1>8

LEMMA HookIInv ==
  ASSUME IInv, NEW t \in Thread, Hook(t)
  PROVE  IInv'
<1> USE Threads DEF IInv
<1>1. /\ doing[t] = "hook" /\ lock = Free /\ reported = 0 /\ Blame(t) /\ process = "running"
      /\ t \in Actor => Turn(t)
  BY DEF Hook, Running, Provenance, Fault, Handshake
<1>2. \A u \in Thread : doing[u] \notin Past /\ (doing[u] = "hook" => u = t)
  BY <1>1, OneInTheHook
<1>3. UNCHANGED <<program, pc, job, mailbox, open, reply, raised, lock, broken, ran>>
  BY DEF Hook
<1>4. \/ process' = "aborted" /\ UNCHANGED <<doing, stream, reported>>
      \/ /\ doing' = [doing EXCEPT ![t] = "unwinding"] /\ stream' = Flushed(stream)
         /\ reported' = 1 /\ process' = process
  BY <1>1 DEF Hook, Becomes
<1>5. TypeOK'
  <2>1. stream' \in Stream
    BY <1>4, StreamTypes DEF TypeOK
  <2>2. QED
    BY <2>1, <1>3, <1>4 DEF TypeOK
<1>6. Roles'
  BY <1>1, <1>3, <1>4 DEF TypeOK, Roles, Peer
<1>7. Handshake'
  BY <1>1, <1>3, <1>4 DEF TypeOK, Roles, Handshake, Turn, Serving, Peer, Running
<1>8. Provenance'
  <2>1. CASE process' = "aborted" /\ UNCHANGED <<doing, stream, reported>>
    BY <1>3, <2>1 DEF Provenance, Fault, Past, Blame
  <2>2. CASE doing' = [doing EXCEPT ![t] = "unwinding"] /\ reported' = 1 /\ process' = process
    <3>1. doing'[t] = "unwinding" /\ \A u \in Thread : u # t => doing'[u] = doing[u]
      BY <2>2 DEF TypeOK
    <3>2. \A u \in Thread : Fault(u)'
      BY <1>1, <1>2, <1>3, <2>2, <3>1 DEF Provenance, Fault, Past, Blame
    <3>3. QED
      BY <1>1, <1>3, <2>2, <3>1, <3>2 DEF Provenance, Past
  <2>3. QED
    BY <1>4, <2>1, <2>2
<1>9. Count'
  BY <1>1, <1>3, <1>4 DEF TypeOK, Count, Serving, Peer
<1>10. QED
  BY <1>5, <1>6, <1>7, <1>8, <1>9

LEMMA ReturnIInv ==
  ASSUME IInv, Return
  PROVE  IInv'
<1> USE Threads DEF IInv
<1>1. doing[Driver] = "running" /\ process = "running" /\ Calm
  <2>1. doing[Driver] = "running" /\ process = "running"
    BY DEF Return, CanReturn, Running
  <2>2. QED
    BY <2>1, CalmMoments
<1>2. Leave(Driver, "returned") /\ \A a \in Actor : doing[a] = "ended"
  BY <1>1 DEF Return, Past, Calm
<1>3. UNCHANGED <<program, pc, job, mailbox, open, reply, reported, broken, ran>>
  BY DEF Return
<1>4. /\ stream' \in Stream
      /\ \/ process' = "returned" /\ UNCHANGED <<doing, raised, lock>>
         \/ Jams(Driver)
  <2>1. stream \in Stream /\ Flushed(stream) \in Stream
    BY StreamTypes DEF TypeOK
  <2>2. QED
    BY <1>2, <2>1 DEF Leave, Jams
<1>5. TypeOK'
  BY <1>3, <1>4 DEF TypeOK, Jams, Panics, Becomes
<1>6. Roles'
  BY <1>1, <1>3, <1>4 DEF TypeOK, Roles, Peer, Jams, Panics, Becomes
<1>7. Handshake'
  BY <1>1, <1>2, <1>3, <1>4
     DEF TypeOK, Roles, Handshake, Turn, Serving, Peer, Running, Jams, Panics, Becomes
<1>8. Provenance'
  BY <1>1, <1>2, <1>3, <1>4
     DEF TypeOK, Provenance, Fault, Past, Blame, Calm, Jams, Panics, Becomes
<1>9. Count'
  BY <1>1, <1>3, <1>4 DEF TypeOK, Count, Serving, Peer, Jams, Panics, Becomes
<1>10. QED
  BY <1>5, <1>6, <1>7, <1>8, <1>9

LEMMA DriveIInv ==
  ASSUME IInv, Drive
  PROVE  IInv'
<1> USE Threads DEF IInv
<1>1. /\ pc \in DOMAIN program /\ doing[Driver] = "running" /\ lock = Free
      /\ process = "running" /\ reported = 0
      /\ \A a \in Actor : doing[a] = "idle" /\ mailbox[a] = <<>>
  <2>1. pc \in DOMAIN program /\ doing[Driver] = "running" /\ process = "running"
    BY DEF Drive, Running
  <2>2. \A a \in Actor : doing[a] = "idle" /\ mailbox[a] = <<>>
    BY <2>1 DEF Roles, Handshake, Turn, Serving
  <2>3. QED
    BY <2>1, <2>2, CalmMoments DEF Calm
<1>2. \A t \in Thread : raised[t] = Nothing
  BY <1>1, CalmMoments DEF Calm
<1>3. UNCHANGED <<program, job, mailbox, open, reply, reported, broken>> /\ pc' = pc + 1
  BY DEF Drive
<1>4. /\ ran' = Append(ran, pc) /\ stream' \in Stream
      /\ Passes(Driver, "running") \/ Stops \/ Fails(Driver, pc) \/ Jams(Driver)
  BY <1>1, Outcomes DEF Drive
<1>5. /\ Len(ran') = Len(ran) + 1 /\ ran'[Len(ran')] = pc
      /\ ran' # <<>> /\ ran' \in Seq(DOMAIN program)
  <2>1. ran \in Seq(DOMAIN program) /\ pc \in DOMAIN program
    BY <1>1 DEF TypeOK
  <2> HIDE DEF IInv
  <2>2. QED
    BY <2>1, <1>4, Appended, <1>3
<1>6. TypeOK'
  <2>1. pc \in 1 .. Len(program) /\ Len(program) \in Nat
    BY <1>1, AProgram DEF TypeOK
  <2>2. /\ program' \in Programs /\ pc' \in 1 .. Len(program') + 1
        /\ job' \in [Actor -> 0 .. Len(program')] /\ mailbox' \in [Actor -> Seq(DOMAIN program')]
        /\ open' \subseteq Actor /\ reply' \in [DOMAIN program' -> {"none", "open", "sent", "closed"}]
        /\ reported' \in Nat /\ broken' \in BOOLEAN /\ ran' \in Seq(DOMAIN program')
    BY <2>1, <1>1, <1>2, <1>3, <1>5 DEF TypeOK
  <2>3. /\ doing' \in [Thread -> {"unborn", "spawning", "running", "waiting", "reaping", "idle",
                          "replying", "hook", "unwinding", "dying", "ended", "panicked"}]
    BY <1>4 DEF TypeOK, Passes, Stops, Fails, Jams, Panics, Becomes
  <2>4. raised' \in [Thread -> {WriteFailed, NoReply, NoReceiver} \union (0 .. Len(program'))]
    <3>1. \/ raised' = raised \/ raised' = [raised EXCEPT ![Driver] = pc]
          \/ raised' = [raised EXCEPT ![Driver] = WriteFailed]
      BY <1>4 DEF Passes, Stops, Fails, Jams, Panics
    <3> DEFINE payload == {WriteFailed, NoReply, NoReceiver} \union (0 .. Len(program))
    <3>2. raised \in [Thread -> payload] /\ pc \in payload /\ WriteFailed \in payload
      BY <2>1 DEF TypeOK
    <3>3. program' = program
      BY <1>3
    <3> HIDE DEF payload, IInv
    <3>4. raised' \in [Thread -> payload]
      BY <3>1, <3>2
    <3>5. QED
      BY <3>3, <3>4 DEF payload
  <2>5. /\ lock' \in Thread \union {Free} /\ stream' \in Stream
        /\ process' \in {"running", "returned", "exited", "aborted", "panicked"}
    BY <1>4 DEF TypeOK, Passes, Stops, Fails, Jams
  <2>6. QED
    BY <2>2, <2>3, <2>4, <2>5 DEF TypeOK
<1>7. \/ doing' = doing \/ doing' = [doing EXCEPT ![Driver] = "running"]
      \/ doing' = [doing EXCEPT ![Driver] = "hook"]
  BY <1>4 DEF Passes, Stops, Fails, Jams, Panics, Becomes
<1>8. Roles'
  BY <1>1, <1>2, <1>3, <1>7 DEF TypeOK, Roles, Peer
<1>9. Handshake'
  BY <1>1, <1>2, <1>3, <1>7 DEF TypeOK, Roles, Handshake, Turn, Serving, Peer, Running
<1>10. Provenance'
  <2>1. CASE Passes(Driver, "running")
    BY <1>1, <1>2, <1>3, <1>4, <2>1
       DEF TypeOK, Roles, Handshake, Turn, Serving, Peer, Provenance, Fault, Past, Blame,
           Passes, Becomes
  <2>2. CASE Stops
    BY <1>1, <1>2, <1>3, <1>4, <2>2
       DEF TypeOK, Roles, Handshake, Turn, Serving, Peer, Provenance, Fault, Past, Blame,
           Stops
  <2>3. CASE Fails(Driver, pc)
    BY <1>1, <1>2, <1>3, <1>4, <1>5, <2>3
       DEF TypeOK, Roles, Handshake, Turn, Serving, Peer, Provenance, Fault, Past, Blame,
           Fails, Panics, Becomes
  <2>4. CASE Jams(Driver)
    BY <1>1, <1>2, <1>3, <1>4, <2>4
       DEF TypeOK, Roles, Handshake, Turn, Serving, Peer, Provenance, Fault, Past, Blame,
           Jams, Panics, Becomes
  <2>5. QED
    BY <1>4, <2>1, <2>2, <2>3, <2>4
<1>11. Count'
  BY <1>1, <1>2, <1>3, <1>5, <1>7, AProgram DEF TypeOK, Count, Serving
<1>12. QED
  BY <1>6, <1>8, <1>9, <1>10, <1>11

LEMMA ServeIInv ==
  ASSUME IInv, NEW a \in Actor, Serve(a)
  PROVE  IInv'
<1> USE Threads DEF IInv
<1>1. /\ pc \in DOMAIN program /\ doing[Driver] = "waiting" /\ a = Peer /\ doing[a] = "idle"
      /\ mailbox[a] = <<pc>> /\ reply[pc] = "open" /\ lock = Free
      /\ process = "running" /\ reported = 0
  <2>1. /\ pc \in DOMAIN program /\ doing[Driver] = "waiting" /\ a = Peer /\ doing[a] = "idle"
        /\ mailbox[a] = <<pc>> /\ reply[pc] = "open" /\ process = "running"
    BY DEF Serve, Running, Roles, Handshake, Turn, Serving
  <2>2. QED
    BY <2>1, CalmMoments DEF Calm, Serve
<1>2. \A t \in Thread : raised[t] = Nothing
  BY CalmMoments DEF Calm, Serve
<1>3. /\ UNCHANGED <<program, pc, open, reply, reported, broken>>
      /\ job' = [job EXCEPT ![a] = pc] /\ mailbox' = [mailbox EXCEPT ![a] = <<>>]
  BY <1>1 DEF Serve
<1>4. /\ ran' = Append(ran, pc) /\ stream' \in Stream
      /\ Passes(a, "replying") \/ Stops \/ Fails(a, pc) \/ Jams(a)
  BY <1>1, Outcomes DEF Serve
<1>5. /\ Len(ran') = Len(ran) + 1 /\ ran'[Len(ran')] = pc
      /\ ran' # <<>> /\ ran' \in Seq(DOMAIN program)
  <2>1. ran \in Seq(DOMAIN program) /\ pc \in DOMAIN program
    BY <1>1 DEF TypeOK
  <2> HIDE DEF IInv
  <2>2. QED
    BY <2>1, <1>4, Appended, <1>3
<1>6. TypeOK'
  <2>1. pc \in 1 .. Len(program) /\ Len(program) \in Nat
    BY <1>1, AProgram DEF TypeOK
  <2>2. /\ program' \in Programs /\ pc' \in 1 .. Len(program') + 1
        /\ job' \in [Actor -> 0 .. Len(program')] /\ mailbox' \in [Actor -> Seq(DOMAIN program')]
        /\ open' \subseteq Actor /\ reply' \in [DOMAIN program' -> {"none", "open", "sent", "closed"}]
        /\ reported' \in Nat /\ broken' \in BOOLEAN /\ ran' \in Seq(DOMAIN program')
    BY <2>1, <1>1, <1>2, <1>3, <1>5 DEF TypeOK
  <2>3. /\ doing' \in [Thread -> {"unborn", "spawning", "running", "waiting", "reaping", "idle",
                          "replying", "hook", "unwinding", "dying", "ended", "panicked"}]
    BY <1>4 DEF TypeOK, Passes, Stops, Fails, Jams, Panics, Becomes
  <2>4. raised' \in [Thread -> {WriteFailed, NoReply, NoReceiver} \union (0 .. Len(program'))]
    <3>1. \/ raised' = raised \/ raised' = [raised EXCEPT ![a] = pc]
          \/ raised' = [raised EXCEPT ![a] = WriteFailed]
      BY <1>4 DEF Passes, Stops, Fails, Jams, Panics
    <3> DEFINE payload == {WriteFailed, NoReply, NoReceiver} \union (0 .. Len(program))
    <3>2. raised \in [Thread -> payload] /\ pc \in payload /\ WriteFailed \in payload
      BY <2>1 DEF TypeOK
    <3>3. program' = program
      BY <1>3
    <3> HIDE DEF payload, IInv
    <3>4. raised' \in [Thread -> payload]
      BY <3>1, <3>2
    <3>5. QED
      BY <3>3, <3>4 DEF payload
  <2>5. /\ lock' \in Thread \union {Free} /\ stream' \in Stream
        /\ process' \in {"running", "returned", "exited", "aborted", "panicked"}
    BY <1>4 DEF TypeOK, Passes, Stops, Fails, Jams
  <2>6. QED
    BY <2>2, <2>3, <2>4, <2>5 DEF TypeOK
<1>7. \/ doing' = doing \/ doing' = [doing EXCEPT ![a] = "replying"]
      \/ doing' = [doing EXCEPT ![a] = "hook"]
  BY <1>4 DEF Passes, Stops, Fails, Jams, Panics, Becomes
<1>8. Roles'
  BY <1>1, <1>2, <1>3, <1>7 DEF TypeOK, Roles, Peer
<1>9. Handshake'
  <2> SUFFICES ASSUME NEW b \in Actor
               PROVE  Turn(b)'
    BY DEF Handshake
  <2>1. Turn(b)
    BY DEF Handshake
  <2>2. CASE b = a
    BY <2>1, <2>2, <1>1, <1>3, <1>7 DEF TypeOK, Turn, Serving, Peer, Running
  <2>3. CASE b # a
    BY <2>1, <2>3, <1>1, <1>3, <1>7 DEF TypeOK, Turn, Serving, Peer, Running
  <2>4. QED
    BY <2>2, <2>3
<1>10. Provenance'
  <2>1. CASE Passes(a, "replying")
    BY <1>1, <1>2, <1>3, <1>4, <2>1
       DEF TypeOK, Roles, Handshake, Turn, Serving, Peer, Provenance, Fault, Past, Blame,
           Passes, Becomes
  <2>2. CASE Stops
    BY <1>1, <1>2, <1>3, <1>4, <2>2
       DEF TypeOK, Roles, Handshake, Turn, Serving, Peer, Provenance, Fault, Past, Blame,
           Stops
  <2>3. CASE Fails(a, pc)
    BY SMTT(30), <1>1, <1>2, <1>3, <1>4, <1>5, <2>3
       DEF TypeOK, Roles, Handshake, Turn, Serving, Peer, Provenance, Fault, Past, Blame,
           Fails, Panics, Becomes
  <2>4. CASE Jams(a)
    BY <1>1, <1>2, <1>3, <1>4, <2>4
       DEF TypeOK, Roles, Handshake, Turn, Serving, Peer, Provenance, Fault, Past, Blame,
           Jams, Panics, Becomes
  <2>5. QED
    BY <1>4, <2>1, <2>2, <2>3, <2>4
<1>11. Count'
  <2>1. Len(ran) = pc - 1 /\ pc \in Nat
    <3>1. mailbox[a] # <<>> /\ pc \in Nat
      BY <1>1, AProgram DEF TypeOK
    <3>2. QED
      BY <3>1, <1>1 DEF Count, Serving
  <2>2. doing'[Driver] = "waiting" /\ mailbox'[a] = <<>> /\ Peer' = Peer /\ Len(ran') = pc
    BY <2>1, <1>1, <1>3, <1>5, <1>7 DEF TypeOK, Peer
  <2>3. QED
    BY <2>2, <1>1, <1>3 DEF Count, Serving
<1>12. QED
  BY <1>6, <1>8, <1>9, <1>10, <1>11

-----------------------------------------------------------------------------
(* The invariant, and what it says.                                        *)

LEMMA NextIInv == IInv /\ [Next]_vars => IInv'
<1> SUFFICES ASSUME IInv, [Next]_vars PROVE IInv'
  OBVIOUS
<1>1. CASE DriverStep
  BY <1>1, SpawnIInv, ShutdownIInv, SpawnedIInv, DriveIInv, CallIInv, ReceiveIInv, ReapIInv,
     ReturnIInv, UnwoundIInv, HookIInv, Threads DEF DriverStep
<1>2. ASSUME NEW a \in Actor, ActorStep(a) PROVE IInv'
  BY <1>2, ServeIInv, ReplyIInv, HookIInv, UnwindIInv, DieIInv, EndLoopIInv, Threads
     DEF ActorStep
<1>3. CASE Break
  BY <1>3, BreakIInv
<1>4. CASE UNCHANGED vars
  BY <1>4 DEF IInv, TypeOK, Roles, Handshake, Turn, Serving, Peer, Provenance, Fault, Past,
              Blame, Count, Running, vars
<1>5. QED
  BY <1>1, <1>2, <1>3, <1>4 DEF Next

(* The invariant holds of every behaviour of the threads.                  *)
THEOREM Invariant == Spec => []IInv
<1>1. QED
  BY InitIInv, NextIInv, PTL DEF Spec

(* Every variable of a crate with actors keeps its type, the program       *)
(* counter and the stdout buffer among them, for every program and every   *)
(* number of actors.                                                       *)
THEOREM TypeCorrect == Spec => []TypeOK
<1>1. IInv => TypeOK
  BY DEF IInv
<1>2. QED
  BY <1>1, Invariant, PTL

(* FR-62, for every number of actors: at most one message is in flight,    *)
(* and while it is nobody replies to another.                              *)
THEOREM MessagesInFlight == Spec => []OneMessageInFlight
<1>1. IInv => OneMessageInFlight
  <2> SUFFICES ASSUME IInv, NEW a \in Actor, NEW b \in Actor
               PROVE  /\ Len(mailbox[a]) <= 1
                      /\ mailbox[a] # <<>> => doing[a] = "idle" /\ reply[Head(mailbox[a])] = "open"
                      /\ (a # b /\ mailbox[a] # <<>>) => mailbox[b] = <<>> /\ doing[b] # "replying"
    BY DEF OneMessageInFlight
  <2>1. Turn(a) /\ Turn(b)
    BY DEF IInv, Handshake
  <2>2. CASE mailbox[a] = <<>>
    BY <2>2
  <2>3. CASE mailbox[a] = <<pc>>
    <3>1. Len(mailbox[a]) = 1 /\ Head(mailbox[a]) = pc /\ mailbox[a] # <<>>
      BY <2>3
    <3>2. QED
      BY <3>1, <2>1 DEF Turn, Serving
  <2>4. QED
    BY <2>1, <2>2, <2>3 DEF Turn
<1>2. QED
  BY <1>1, Invariant, PTL

(* Single-panic provenance, for every program: a process that panics does  *)
(* so with the panic of its last statement, reported once, on whichever    *)
(* thread the statement was.                                               *)
THEOREM PanicProvenance == Spec => []PanicIsTheProgramsOwn
<1>1. IInv => PanicIsTheProgramsOwn
  BY Threads DEF IInv, Provenance, Fault, Past, Blame, PanicIsTheProgramsOwn
<1>2. QED
  BY <1>1, Invariant, PTL

(* Every print prints something: a print of nothing allocates the buffer   *)
(* here and not in C.                                                      *)
PrintsSomething ==
  \A p \in Programs : \A k \in DOMAIN p : p[k].does = "print" => p[k].size > 0

(* The program is seen running as long as nobody has failed.               *)
LEMMA SeenRunning ==
  ASSUME Calm, process = "running"
  PROVE  Outcome = "running"
  BY DEF Calm, Outcome, Running

(* A step between statements shows nothing.                                *)
LEMMA Silent ==
  ASSUME UNCHANGED <<program, ran, stream, process>>,
         \A t \in Thread : doing'[t] = "hook" <=> doing[t] = "hook",
         (\E t \in Thread : raised'[t] # Nothing) <=> (\E t \in Thread : raised[t] # Nothing)
  PROVE  UNCHANGED C!vars
<1>1. Outcome' = Outcome
  BY DEF Outcome, Running
<1>2. QED
  BY <1>1 DEF C!vars

(* What is written of something is what glibc writes.                      *)
LEMMA WrittenLikeGlibc ==
  ASSUME NEW s \in Stream, NEW n \in Nat, n > 0
  PROVE  Written(s, n) = XsPutN(s, n)
  BY DEF Written, XsPutN, Room, Stream

(* A statement on any thread is C's next statement.                        *)
LEMMA PerformIsDo ==
  ASSUME PrintsSomething, TypeOK, Calm, process = "running", ~broken,
         NEW t \in Thread, NEW then, then # "hook",
         Len(ran) + 1 \in DOMAIN program, UNCHANGED program,
         Perform(t, Len(ran) + 1, then)
  PROVE  C!Do
<1> DEFINE k == Len(ran) + 1
<1>1. /\ program[k].does \in Effect /\ program[k].size \in Nat /\ stream \in Stream
      /\ doing \in [Thread -> {"unborn", "spawning", "running", "waiting", "reaping", "idle",
                          "replying", "hook", "unwinding", "dying", "ended", "panicked"}]
      /\ DOMAIN raised = Thread /\ k \in Nat
  BY AProgram DEF TypeOK
<1>2. Outcome = "running" /\ ran' = Append(ran, k)
  BY SeenRunning DEF Perform
<1>3. CASE program[k].does = "print"
  <2>1. Output(t, program[k].size, then)
    BY <1>3 DEF Perform
  <2>2. /\ stream' = Written(stream, program[k].size)
        /\ doing' = [doing EXCEPT ![t] = then] /\ raised' = raised /\ process' = process
    BY <2>1 DEF Output, Becomes
  <2>3. stream' = XsPutN(stream, program[k].size)
    <3>1. program[k].size > 0
      BY <1>3 DEF PrintsSomething, TypeOK
    <3>2. QED
      BY <3>1, <2>2, <1>1, WrittenLikeGlibc
  <2>4. \A u \in Thread : doing'[u] # "hook" /\ raised'[u] = Nothing
    BY <2>2, <1>1 DEF Calm
  <2>5. Outcome' = "running"
    BY <2>2, <2>4 DEF Outcome, Running
  <2>6. QED
    BY <1>2, <1>3, <2>3, <2>5
     DEF C!Do, C!XsPutN, C!Room, C!Overflowing, XsPutN, Room, Overflowing
<1>4. CASE program[k].does = "exit"
  <2>1. Leave(t, "exited")
    BY <1>4 DEF Perform
  <2>2. stream' = Flushed(stream) /\ process' = "exited"
    BY <2>1 DEF Leave
  <2>3. Outcome' = "exited"
    BY <2>2 DEF Outcome, Running
  <2>4. QED
    BY <1>2, <1>4, <2>2, <2>3 DEF C!Do, C!Flushed, Flushed
<1>5. CASE program[k].does = "abort"
  <2>1. process' = "aborted" /\ UNCHANGED stream
    BY <1>5 DEF Perform
  <2>2. Outcome' = "aborted"
    BY <2>1 DEF Outcome, Running
  <2>3. QED
    BY <1>2, <1>5, <2>1, <2>2 DEF C!Do
<1>6. CASE program[k].does = "panic"
  <2>1. Panics(t, k) /\ UNCHANGED <<stream, process>>
    BY <1>6 DEF Perform
  <2>2. doing'[t] = "hook"
    BY <2>1, <1>1 DEF Panics, Becomes
  <2>3. Outcome' = "panicking"
    BY <2>1, <2>2 DEF Outcome, Running
  <2>4. QED
    BY <1>2, <1>6, <2>1, <2>3 DEF C!Do
<1>7. QED
  BY <1>1, <1>3, <1>4, <1>5, <1>6 DEF Effect

(* Every step of a thread is a step of the C program, or nothing to it,    *)
(* unless the reader of stdout has gone away.                              *)
LEMMA StepRefines ==
  ASSUME PrintsSomething, IInv, [Next]_vars
  PROVE  [C!Next]_(C!vars)
<1> SUFFICES ASSUME ~broken PROVE C!Do \/ C!Panicked \/ C!Return \/ UNCHANGED C!vars
  BY DEF C!Next
<1>1. ASSUME NEW a \in Actor, Spawn(a) \/ Shutdown(a) \/ Unwind(a) \/ Die(a) \/ EndLoop(a)
      PROVE  UNCHANGED C!vars
  <2>1. /\ UNCHANGED <<program, ran, stream, process, raised>>
        /\ \A t \in Thread : doing'[t] = "hook" <=> doing[t] = "hook"
    BY <1>1 DEF IInv, TypeOK, Spawn, Shutdown, Unwind, Die, EndLoop, Becomes
  <2>2. QED
    BY <2>1, Silent
<1>2. CASE Spawned \/ Call \/ Receive
  <2>1. /\ UNCHANGED <<program, ran, stream, process, raised>>
        /\ \A t \in Thread : doing'[t] = "hook" <=> doing[t] = "hook"
    BY <1>2 DEF IInv, TypeOK, Spawned, Call, Receive, Becomes
  <2>2. QED
    BY <2>1, Silent
<1>3. CASE Reap
  <2>1. doing[Peer] = "panicked" /\ Peer \in Thread /\ doing[Driver] = "reaping"
    BY <1>3, Caught, Threads
  <2>2. Blame(Peer)
    BY <2>1 DEF IInv, Provenance, Fault, Past
  <2>3. raised[Peer] # Nothing
    BY <2>2, AProgram DEF Blame, IInv, TypeOK, Nothing
  <2>4. /\ UNCHANGED <<program, ran, stream, process>>
        /\ doing' = [doing EXCEPT ![Driver] = "unwinding"]
        /\ raised' = [raised EXCEPT ![Driver] = raised[Peer]]
    BY <1>3, <2>1 DEF Reap, Becomes
  <2>5. \A t \in Thread : doing'[t] = "hook" <=> doing[t] = "hook"
    BY <2>1, <2>4 DEF IInv, TypeOK
  <2>6. raised'[Peer] # Nothing
    BY <2>1, <2>3, <2>4 DEF IInv, TypeOK
  <2>7. QED
    BY <2>1, <2>3, <2>4, <2>5, <2>6, Silent
<1>4. ASSUME NEW a \in Actor, Reply(a)
      PROVE  UNCHANGED C!vars
  <2>1. doing[a] = "replying" /\ reply[job[a]] = "open"
    BY <1>4, Awaited
  <2>2. UNCHANGED <<program, ran, stream, process, raised>> /\ doing' = [doing EXCEPT ![a] = "idle"]
    BY <1>4, <2>1 DEF Reply, Becomes
  <2>3. \A t \in Thread : doing'[t] = "hook" <=> doing[t] = "hook"
    BY <2>1, <2>2 DEF IInv, TypeOK
  <2>4. QED
    BY <2>2, <2>3, Silent
<1>5. CASE Break \/ UNCHANGED vars
  BY <1>5, Silent DEF Break, vars
<1>6. CASE Unwound
  <2>1. Driver \in Thread /\ doing[Driver] = "unwinding" /\ process = "running"
    BY <1>6, Threads DEF Unwound, Running
  <2>2. Blame(Driver)
    BY <2>1 DEF IInv, Provenance, Fault, Past
  <2>3. raised[Driver] # Nothing
    BY <2>2, AProgram DEF Blame, IInv, TypeOK, Nothing
  <2>4. \A t \in Thread : doing[t] # "hook"
    BY <2>1, OneInTheHook DEF Past
  <2>5. Outcome = "panicked"
    BY <2>1, <2>3, <2>4 DEF Outcome, Running
  <2>6. Outcome' = "panicked"
    BY <1>6 DEF Unwound, Outcome, Running
  <2>7. QED
    BY <1>6, <2>5, <2>6 DEF Unwound, C!vars
<1>7. ASSUME NEW t \in Thread, Hook(t)
      PROVE  C!Panicked \/ UNCHANGED C!vars
  <2>1. doing[t] = "hook" /\ lock = Free /\ process = "running" /\ Blame(t)
    BY <1>7, Threads DEF Hook, Running, IInv, Provenance, Fault
  <2>2. raised[t] # Nothing
    BY <2>1, AProgram DEF Blame, IInv, TypeOK, Nothing
  <2>3. /\ stream' = Flushed(stream) /\ UNCHANGED <<program, ran, raised, process>>
        /\ doing' = [doing EXCEPT ![t] = "unwinding"]
    BY <1>7 DEF Hook, Becomes
  <2>4. \A u \in Thread : doing'[u] # "hook"
    BY <2>1, <2>3, OneInTheHook DEF IInv, TypeOK
  <2>5. Outcome = "panicking"
    BY <2>1 DEF Outcome, Running
  <2>6. Outcome' = "panicked"
    BY <2>1, <2>2, <2>3, <2>4 DEF Outcome, Running
  <2>7. QED
    BY <2>3, <2>5, <2>6 DEF C!Panicked, C!Flushed, Flushed
<1>8. CASE Return
  <2>1. doing[Driver] = "running" /\ process = "running" /\ pc \notin DOMAIN program
    BY <1>8 DEF Return, CanReturn, Running
  <2>2. Calm
    BY <2>1, CalmMoments
  <2>3. Leave(Driver, "returned") /\ UNCHANGED <<program, ran>>
    BY <1>8, <2>2, Threads DEF Return, Calm, Past
  <2>4. stream' = Flushed(stream) /\ process' = "returned"
    BY <2>3 DEF Leave
  <2>5. Len(ran) = Len(program)
    BY <2>1, AProgram DEF IInv, TypeOK, Count
  <2>6. Outcome = "running"
    BY <2>1, <2>2, SeenRunning
  <2>7. Outcome' = "returned"
    BY <2>4 DEF Outcome, Running
  <2>8. QED
    BY <2>3, <2>4, <2>5, <2>6, <2>7 DEF C!Return, C!Flushed, Flushed
<1>9. CASE Drive
  <2>1. doing[Driver] = "running" /\ process = "running" /\ pc \in DOMAIN program
    BY <1>9 DEF Drive, Running
  <2>2. Calm
    BY <2>1, CalmMoments
  <2>3. pc = Len(ran) + 1
    BY <2>1, AProgram DEF IInv, TypeOK, Count
  <2>4. Perform(Driver, Len(ran) + 1, "running") /\ UNCHANGED program
    BY <1>9, <2>3 DEF Drive
  <2>5. QED
    BY <2>1, <2>2, <2>3, <2>4, Threads, PerformIsDo DEF IInv
<1>10. ASSUME NEW a \in Actor, Serve(a)
       PROVE  C!Do
  <2>1. mailbox[a] # <<>> /\ process = "running" /\ Turn(a)
    BY <1>10 DEF Serve, Running, IInv, Handshake
  <2>2. Calm
    BY <2>1, CalmMoments
  <2>3. mailbox[a] = <<pc>> /\ Serving(a) /\ pc \in DOMAIN program
    BY <2>1 DEF Turn, Serving, IInv, Roles
  <2>4. pc = Len(ran) + 1
    <3>1. pc \in Nat
      BY <2>3, AProgram DEF IInv, TypeOK
    <3>2. Len(ran) = pc - 1
      BY <2>1, <2>3 DEF IInv, Count
    <3>3. QED
      BY <3>1, <3>2
  <2>5. Perform(a, Len(ran) + 1, "replying") /\ UNCHANGED program
    BY <1>10, <2>3, <2>4 DEF Serve
  <2>6. QED
    BY <2>1, <2>2, <2>3, <2>4, <2>5, Threads, PerformIsDo DEF IInv
<1>11. QED
  BY <1>1, <1>2, <1>3, <1>4, <1>5, <1>6, <1>7, <1>8, <1>9, <1>10, Threads
     DEF Next, DriverStep, ActorStep

(* A crate with actors implements the C program it is made from, however   *)
(* many they are, whatever the program and the size of the buffer, if every*)
(* print prints something: C's statements in C's order, and at every moment*)
(* the file glibc would have written.                                      *)
THEOREM ActorsImplementC ==
  ASSUME PrintsSomething
  PROVE  Spec => RunsLikeC
<1>1. Init => C!Init
  <2> SUFFICES ASSUME Init PROVE C!Init
    OBVIOUS
  <2>1. \A t \in Thread : doing[t] # "hook" /\ raised[t] = Nothing
    BY DEF Init
  <2>2. Outcome = "running"
    BY <2>1 DEF Init, Outcome, Running
  <2>3. QED
    BY <2>2 DEF Init, C!Init, C!Fresh, Fresh
<1>2. IInv /\ [Next]_vars => [C!Next]_(C!vars)
  BY StepRefines
<1>3. QED
  BY <1>1, <1>2, Invariant, PTL DEF Spec, RunsLikeC, C!Spec
=============================================================================
