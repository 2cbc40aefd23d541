----------------------------- MODULE ActorRuntime -----------------------------
(***************************************************************************)
(* A crate emitted with --actor-mode=threaded (or async): the globals of   *)
(* the C program live in actors, each on a thread (or task) of its own, and*)
(* main, the driver, calls their methods through a mailbox and waits for   *)
(* each reply.  The text modelled is what the emitter writes (mod actor_rt,*)
(* spawn, the mailbox loop) and what the actor-thread pass puts around it  *)
(* (construction, one call per access, shutdown before every return),      *)
(* together with the buffered stdout all the threads share.                *)
(***************************************************************************)
EXTENDS StdoutStream, Sequences, FiniteSets

CONSTANTS
  Actors,      \* how many there are, in the order of emitrust.actor_thread
  Programs     \* the programs the driver may be

Actor  == 1 .. Actors
Driver == 0
Thread == {Driver} \union Actor

(* A statement runs in an actor (a method, or an access turned into one) or*)
(* in the driver, and it prints or ends the program.                       *)
Effect == {"print", "exit", "abort", "panic"}
Statement == [at : Thread, does : Effect, size : Nat]

ASSUME ProgramAssumption ==
  /\ Actors \in Nat
  /\ Programs \subseteq Seq(Statement)

(* What a thread panics with: the statement it was at, or one of these.    *)
Nothing     == 0
WriteFailed == -1       \* "stdout write failed"
NoReply     == -2       \* "actor exited without replying"
NoReceiver  == -3       \* "actor caller dropped reply receiver"

VARIABLES
  program,
  pc,          \* the statement the driver is at
  doing,       \* what each thread is doing
  job,         \* the message an actor is working on
  mailbox,     \* what waits in each mailbox, by position in the program
  open,        \* the actors whose Sender is alive
  reply,       \* the reply channel of each call
  raised,      \* what each thread has panicked with
  reported,    \* how many panics the hook has reported
  lock,        \* who holds the mutex of stdout
  stream,
  broken,      \* has the reader of stdout gone away?
  ran,         \* the statements that have happened, in order
  process      \* how the process ended

vars == <<program, pc, doing, job, mailbox, open, reply, raised, reported, lock,
          stream, broken, ran, process>>

Free == -1               \* nobody holds the mutex
Gone == {"ended", "panicked"}
Peer == program[pc].at   \* the actor the driver is calling

Init ==
  /\ program \in Programs
  /\ pc = 1
  /\ doing = [t \in Thread |-> IF t = Driver THEN "spawning" ELSE "unborn"]
  /\ job = [a \in Actor |-> 0]
  /\ mailbox = [a \in Actor |-> <<>>]
  /\ open = {}
  /\ reply = [k \in DOMAIN program |-> "none"]
  /\ raised = [t \in Thread |-> Nothing]
  /\ reported = 0 /\ lock = Free
  /\ stream = Fresh /\ broken = FALSE
  /\ ran = <<>> /\ process = "running"

Running == process = "running"
Becomes(t, what) == doing' = [doing EXCEPT ![t] = what]

-----------------------------------------------------------------------------
(* Statements, on whichever thread they are.                               *)

(* A panic runs the hook before anything is unwound: whoever fails inside  *)
(* the writer is in the hook with the mutex in hand.                       *)
Panics(t, payload) ==
  /\ Becomes(t, "hook")
  /\ raised' = [raised EXCEPT ![t] = payload]

Output(t, n, then) ==
  /\ lock = Free
  /\ IF broken /\ Reaches(stream, n)
     THEN Panics(t, WriteFailed) /\ lock' = t /\ UNCHANGED stream
     ELSE stream' = Written(stream, n) /\ Becomes(t, then) /\ UNCHANGED <<raised, lock>>
  /\ UNCHANGED process

(* The flush before std::process::exit, and the one after c_main returns.  *)
Leave(t, how) ==
  /\ lock = Free
  /\ IF broken /\ stream.held > 0
     THEN Panics(t, WriteFailed) /\ lock' = t /\ UNCHANGED <<stream, process>>
     ELSE stream' = Flushed(stream) /\ process' = how /\ UNCHANGED <<doing, raised, lock>>

Perform(t, k, then) ==
  LET s == program[k]
  IN /\ ran' = Append(ran, k)
     /\ \/ s.does = "print" /\ Output(t, s.size, then)
        \/ s.does = "exit"  /\ Leave(t, "exited")
        \/ s.does = "abort" /\ process' = "aborted" /\ UNCHANGED <<doing, raised, lock, stream>>
        \/ s.does = "panic" /\ Panics(t, k) /\ UNCHANGED <<lock, stream, process>>

(* The hook installed by __emitrust_stdout_init flushes, and so needs the  *)
(* mutex; a panic inside the hook is the end.                              *)
Hook(t) ==
  /\ Running /\ doing[t] = "hook" /\ lock = Free
  /\ IF broken /\ stream.held > 0
     THEN process' = "aborted" /\ UNCHANGED <<doing, stream, reported>>
     ELSE stream' = Flushed(stream) /\ reported' = reported + 1
          /\ Becomes(t, "unwinding") /\ UNCHANGED process
  /\ UNCHANGED <<program, pc, job, mailbox, open, reply, raised, lock, broken, ran>>

-----------------------------------------------------------------------------
(* The driver.                                                             *)

Spawn(a) ==
  /\ Running /\ doing[Driver] = "spawning"
  /\ doing[a] = "unborn" /\ \A b \in 1 .. a - 1 : doing[b] # "unborn"
  /\ Becomes(a, "idle") /\ open' = open \union {a}
  /\ UNCHANGED <<program, pc, job, mailbox, reply, raised, reported, lock, stream,
                 broken, ran, process>>

Spawned ==
  /\ Running /\ doing[Driver] = "spawning" /\ open = Actor
  /\ Becomes(Driver, "running")
  /\ UNCHANGED <<program, pc, job, mailbox, open, reply, raised, reported, lock,
                 stream, broken, ran, process>>

Drive ==
  /\ Running /\ doing[Driver] = "running"
  /\ pc \in DOMAIN program /\ Peer = Driver
  /\ Perform(Driver, pc, "running")
  /\ pc' = pc + 1
  /\ UNCHANGED <<program, job, mailbox, open, reply, reported, broken>>

(* A mistake: the statement goes on without its reply.                     *)
CallWithoutWaiting ==
  /\ Running /\ doing[Driver] = "running"
  /\ pc \in DOMAIN program /\ Peer # Driver /\ doing[Peer] \notin Gone
  /\ mailbox' = [mailbox EXCEPT ![Peer] = Append(@, pc)]
  /\ reply' = [reply EXCEPT ![pc] = "open"]
  /\ pc' = pc + 1
  /\ UNCHANGED <<program, doing, job, open, raised, reported, lock, stream, broken, ran,
                 process>>

(* Handle::call: send, and wait on the call's own channel.                 *)
Call ==
  /\ Running /\ doing[Driver] = "running"
  /\ pc \in DOMAIN program /\ Peer # Driver
  /\ IF doing[Peer] \in Gone
     THEN Becomes(Driver, "reaping") /\ UNCHANGED <<mailbox, reply>>
     ELSE /\ mailbox' = [mailbox EXCEPT ![Peer] = Append(@, pc)]
          /\ reply' = [reply EXCEPT ![pc] = "open"]
          /\ Becomes(Driver, "waiting")
  /\ UNCHANGED <<program, pc, job, open, raised, reported, lock, stream, broken, ran,
                 process>>

Receive ==
  /\ Running /\ doing[Driver] = "waiting"
  /\ \/ reply[pc] = "sent" /\ Becomes(Driver, "running") /\ pc' = pc + 1
     \/ reply[pc] = "closed" /\ Becomes(Driver, "reaping") /\ UNCHANGED pc
  /\ UNCHANGED <<program, job, mailbox, open, reply, raised, reported, lock, stream,
                 broken, ran, process>>

(* A mistake: the caller panics for itself.                                *)
ReapForgettingThePayload ==
  /\ Running /\ doing[Driver] = "reaping"
  /\ Panics(Driver, NoReply)
  /\ UNCHANGED <<program, pc, job, mailbox, open, reply, reported, lock, stream,
                 broken, ran, process>>

(* Handle::reap: join the actor and raise its own panic again, past the    *)
(* hook.                                                                   *)
Reap ==
  /\ Running /\ doing[Driver] = "reaping" /\ doing[Peer] \in Gone
  /\ IF doing[Peer] = "panicked"
     THEN Becomes(Driver, "unwinding") /\ raised' = [raised EXCEPT ![Driver] = raised[Peer]]
     ELSE Panics(Driver, NoReply)
  /\ UNCHANGED <<program, pc, job, mailbox, open, reply, reported, lock, stream,
                 broken, ran, process>>

(* The return of the driver: one shutdown after the other, in list order.  *)
NextToClose(a) == a \in open /\ \A b \in open : a <= b

CanReturn == Running /\ doing[Driver] = "running" /\ pc \notin DOMAIN program

(* A mistake: join comes before the Sender is dropped.                     *)
ShutdownJoiningFirst(a) ==
  /\ CanReturn /\ NextToClose(a) /\ doing[a] \in Gone
  /\ open' = open \ {a}
  /\ UNCHANGED <<program, pc, doing, job, mailbox, reply, raised, reported, lock,
                 stream, broken, ran, process>>

(* Handle::shutdown: drop the Sender, once the one before is joined.       *)
Shutdown(a) ==
  /\ CanReturn /\ NextToClose(a) /\ \A b \in 1 .. a - 1 : doing[b] = "ended"
  /\ open' = open \ {a}
  /\ UNCHANGED <<program, pc, doing, job, mailbox, reply, raised, reported, lock,
                 stream, broken, ran, process>>

(* The last join, and the end of c_main; a late panic is raised again.     *)
Return ==
  LET late == {a \in Actor \ open : doing[a] = "panicked"}
  IN /\ CanReturn
     /\ IF late # {}
        THEN /\ Becomes(Driver, "unwinding")
             /\ \E a \in late : raised' = [raised EXCEPT ![Driver] = raised[a]]
             /\ UNCHANGED <<lock, stream, process>>
        ELSE /\ \A a \in Actor : a \notin open /\ doing[a] = "ended"
             /\ Leave(Driver, "returned")
     /\ UNCHANGED <<program, pc, job, mailbox, open, reply, reported, broken, ran>>

(* Unwinding drops the handles, the threads are detached, and main's panic *)
(* is exit code 101.                                                       *)
Unwound ==
  /\ Running /\ doing[Driver] = "unwinding"
  /\ process' = "panicked" /\ open' = {}
  /\ UNCHANGED <<program, pc, doing, job, mailbox, reply, raised, reported, lock,
                 stream, broken, ran>>

-----------------------------------------------------------------------------
(* An actor: the loop over its mailbox.                                    *)

Serve(a) ==
  /\ Running /\ doing[a] = "idle" /\ mailbox[a] # <<>>
  /\ job' = [job EXCEPT ![a] = Head(mailbox[a])]
  /\ mailbox' = [mailbox EXCEPT ![a] = Tail(@)]
  /\ Perform(a, Head(mailbox[a]), "replying")
  /\ UNCHANGED <<program, pc, open, reply, reported, broken>>

Reply(a) ==
  /\ Running /\ doing[a] = "replying"
  /\ IF reply[job[a]] = "open"
     THEN Becomes(a, "idle") /\ reply' = [reply EXCEPT ![job[a]] = "sent"] /\ UNCHANGED raised
     ELSE Panics(a, NoReceiver) /\ UNCHANGED reply
  /\ UNCHANGED <<program, pc, job, mailbox, open, reported, lock, stream, broken, ran,
                 process>>

(* Unwinding drops the message first, its reply channel with it, ...       *)
Unwind(a) ==
  /\ Running /\ doing[a] = "unwinding"
  /\ reply' = [reply EXCEPT ![job[a]] = "closed"]
  /\ Becomes(a, "dying")
  /\ UNCHANGED <<program, pc, job, mailbox, open, raised, reported, lock, stream,
                 broken, ran, process>>

(* ... then the Receiver and what still waits in it.                       *)
Die(a) ==
  /\ Running /\ doing[a] = "dying"
  /\ reply' = [k \in DOMAIN reply |->
                IF \E i \in DOMAIN mailbox[a] : mailbox[a][i] = k THEN "closed" ELSE reply[k]]
  /\ mailbox' = [mailbox EXCEPT ![a] = <<>>]
  /\ Becomes(a, "panicked")
  /\ UNCHANGED <<program, pc, job, open, raised, reported, lock, stream, broken, ran,
                 process>>

(* No Sender is left: the loop ends.                                       *)
EndLoop(a) ==
  /\ Running /\ doing[a] = "idle" /\ mailbox[a] = <<>> /\ a \notin open
  /\ Becomes(a, "ended")
  /\ UNCHANGED <<program, pc, job, mailbox, open, reply, raised, reported, lock,
                 stream, broken, ran, process>>

-----------------------------------------------------------------------------
(* Whoever reads stdout may stop reading.                                  *)
Break ==
  /\ Running /\ ~broken /\ broken' = TRUE
  /\ UNCHANGED <<program, pc, doing, job, mailbox, open, reply, raised, reported,
                 lock, stream, ran, process>>

DriverStep ==
  \/ \E a \in Actor : Spawn(a) \/ Shutdown(a)
  \/ Spawned \/ Drive \/ Call \/ Receive \/ Reap \/ Return \/ Unwound
  \/ Hook(Driver)

ActorStep(a) == Serve(a) \/ Reply(a) \/ Hook(a) \/ Unwind(a) \/ Die(a) \/ EndLoop(a)

Next == DriverStep \/ (\E a \in Actor : ActorStep(a)) \/ Break

(* Every thread that can take a step eventually does.                      *)
Fairness == WF_vars(DriverStep) /\ \A a \in Actor : WF_vars(ActorStep(a))

Spec == Init /\ [][Next]_vars /\ Fairness

-----------------------------------------------------------------------------
(* Properties.                                                             *)

(* Every variable keeps its type.                                          *)
TypeOK ==
  /\ program \in Programs /\ pc \in 1 .. Len(program) + 1
  /\ doing \in [Thread -> {"unborn", "spawning", "running", "waiting", "reaping", "idle",
                          "replying", "hook", "unwinding", "dying", "ended", "panicked"}]
  /\ job \in [Actor -> 0 .. Len(program)]
  /\ mailbox \in [Actor -> Seq(DOMAIN program)]
  /\ open \subseteq Actor
  /\ reply \in [DOMAIN program -> {"none", "open", "sent", "closed"}]
  /\ raised \in [Thread -> {WriteFailed, NoReply, NoReceiver} \union (0 .. Len(program))]
  /\ reported \in Nat /\ lock \in Thread \union {Free}
  /\ stream \in Stream /\ broken \in BOOLEAN
  /\ ran \in Seq(DOMAIN program)
  /\ process \in {"running", "returned", "exited", "aborted", "panicked"}

(* The program as an observer sees it: panicking from the panic to the     *)
(* hook's flush, panicked from there to the end of the process.            *)
Outcome ==
  IF ~Running THEN process
  ELSE IF \E t \in Thread : doing[t] = "hook" THEN "panicking"
  ELSE IF \E t \in Thread : raised[t] # Nothing THEN "panicked" ELSE "running"

C == INSTANCE CProgram WITH outcome <- Outcome

(* The threads implement the C program as long as stdout is read: its      *)
(* statements in its order, its output, and on the file at every moment    *)
(* what glibc would have there.                                            *)
RunsLikeC == C!Spec

(* FR-62: at most one message is in flight, over all the actors: only the  *)
(* callee of the moment has one, it waits for it and its caller for the    *)
(* reply, and nobody else has a reply to give.                             *)
OneMessageInFlight ==
  \A a, b \in Actor :
    /\ Len(mailbox[a]) <= 1
    /\ mailbox[a] # <<>> => doing[a] = "idle" /\ reply[Head(mailbox[a])] = "open"
    /\ (a # b /\ mailbox[a] # <<>>) => (mailbox[b] = <<>> /\ doing[b] # "replying")

(* Single-panic provenance: a program that panics ends with the panic of   *)
(* the statement that raised it, the last one that ran, whichever thread it*)
(* was on, and reports no other.                                           *)
PanicIsTheProgramsOwn ==
  process = "panicked" =>
    /\ raised[Driver] = ran[Len(ran)] /\ program[raised[Driver]].does = "panic"
    /\ reported = 1

(* Nobody waits for ever: the process ends, unless its reader goes away.   *)
ProgramEnds == <>(process # "running" \/ broken)

(* TranslateToRust.cpp on an actor's panic: raised again in the caller,    *)
(* "exit 101, no hang".                                                    *)
ActorPanicEnds == (\E a \in Actor : raised[a] # Nothing) ~> process # "running"

=============================================================================
