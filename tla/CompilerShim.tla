----------------------------- MODULE CompilerShim -----------------------------
(***************************************************************************)
(* The compiler shim (src/tools/emitrust-clang): the build calls it in the  *)
(* place of clang.  It delegates the whole command line to the real         *)
(* compiler, then, for each C source compiled, imports the source once more *)
(* in a forked child, writes the artifact beside the object (the sidecar)   *)
(* and copies it into the object as a section, over a staged file.  The     *)
(* link step later reads the section or, without one, the sidecar.          *)
(*                                                                         *)
(* Files outlive invocations.  A source may be edited at any moment, any    *)
(* step of the emission may fail, the importer may crash, and the build may *)
(* be interrupted between any two steps.                                    *)
(***************************************************************************)
EXTENDS Integers, Sequences

CONSTANTS
  Job,         \* the C sources; each has its object, its sidecar, its stage file
  MaxEdits,    \* bound on the edits of one source
  MaxRuns      \* bound on the invocations

ASSUME ShimBounds == MaxEdits \in Nat /\ MaxRuns \in Nat

None == 0
Version == 0 .. MaxEdits + 1   \* of a source; None for what is not there

VARIABLES
  source,    \* source[j]: the version of the source (and of its headers)
  object,    \* object[j]: the versions its code and its section were made of
  sidecar,   \* sidecar[j]: the version of the artifact beside it, and if it is whole
  staged,    \* staged[j]: the rewritten object not yet renamed into place
  shim,      \* "idle", "delegate", "emit", "exited", "dead", "interrupted"
  todo,      \* the compile jobs of this invocation still to be side-emitted
  forked,    \* whether the job at hand runs in a child of its own
  step,      \* where its emission is
  module,    \* the version the import read
  written,   \* the sidecars this invocation has opened
  realExit,  \* the real compiler's exit code
  exit,      \* the shim's
  runs       \* the invocations so far

files  == <<source, object, sidecar, staged>>
shimVars == <<files, shim, todo, forked, step, module, written, realExit, exit, runs>>

NoFile == [version |-> None, whole |-> FALSE]
NoObject == [code |-> None, section |-> None]

ShimTypeOK ==
  /\ source \in [Job -> Version]
  /\ object \in [Job -> [code : Version, section : Version]]
  /\ sidecar \in [Job -> [version : Version, whole : BOOLEAN]]
  /\ staged \in [Job -> [code : Version, section : Version]]
  /\ shim \in {"idle", "delegate", "emit", "exited", "dead", "interrupted"}
  /\ todo \in Seq(Job) /\ forked \in BOOLEAN
  /\ step \in {"fork", "scan", "import", "open", "write", "embed", "rename"}
  /\ module \in Version /\ written \subseteq Job
  /\ realExit \in {0, 1} /\ exit \in {0, 1} /\ runs \in Nat

ShimInit ==
  /\ source = [j \in Job |-> 1] /\ object = [j \in Job |-> NoObject]
  /\ sidecar = [j \in Job |-> NoFile] /\ staged = [j \in Job |-> NoObject]
  /\ shim = "idle" /\ todo = <<>> /\ forked = FALSE /\ step = "fork" /\ module = None
  /\ written = {} /\ realExit = 0 /\ exit = 0 /\ runs = 0

-----------------------------------------------------------------------------
(* The world around the shim.                                              *)
Edit(j) ==
  /\ source[j] <= MaxEdits
  /\ source' = [source EXCEPT ![j] = @ + 1]
  /\ UNCHANGED <<object, sidecar, staged, shim, todo, forked, step, module, written,
                 realExit, exit, runs>>

(* The build system calls the shim for one source or for several.           *)
Invoke ==
  /\ shim \notin {"delegate", "emit"} /\ runs < MaxRuns
  /\ \E n \in 1..2 : \E jobs \in [1..n -> Job] :
       /\ \A i, k \in 1..n : jobs[i] = jobs[k] => i = k
       /\ todo' = jobs
  /\ shim' = "delegate" /\ step' = "fork" /\ written' = {} /\ runs' = runs + 1
  /\ UNCHANGED <<files, forked, module, realExit, exit>>

(* ExecuteAndWait on the real compiler.  It writes the objects of the jobs  *)
(* it compiles; a job that fails leaves none.  Only a success is followed   *)
(* by the emission.                                                        *)
Delegate ==
  /\ shim = "delegate"
  /\ \E done \in SUBSET {todo[i] : i \in DOMAIN todo} :
       /\ object' = [j \in Job |->
            IF j \in done THEN [code |-> source[j], section |-> None]
            ELSE IF \E i \in DOMAIN todo : todo[i] = j THEN NoObject
            ELSE object[j]]
       /\ realExit' = IF \A i \in DOMAIN todo : todo[i] \in done THEN 0 ELSE 1
  /\ IF realExit' = 0
     THEN shim' = "emit" /\ UNCHANGED <<todo, exit>>
     ELSE shim' = "exited" /\ todo' = <<>> /\ exit' = realExit'
  /\ UNCHANGED <<source, sidecar, staged, forked, step, module, written, runs>>

-----------------------------------------------------------------------------
(* One emission.                                                           *)
current == Head(todo)

Emitting(s) == shim = "emit" /\ todo # <<>> /\ step = s

(* The end of a job, whatever came of it; after the last one the shim       *)
(* returns what the real compiler returned.                                *)
NextJob ==
  /\ todo' = Tail(todo) /\ step' = "fork"
  /\ IF Tail(todo) = <<>> THEN shim' = "exited" /\ exit' = realExit
     ELSE UNCHANGED <<shim, exit>>

(* A fork failure falls back to emission in the shim itself.                *)
Fork ==
  /\ Emitting("fork")
  /\ forked' \in BOOLEAN /\ step' = "scan"
  /\ UNCHANGED <<files, shim, todo, module, written, realExit, exit, runs>>

(* A scan or a hash that fails: no artifact is written.                     *)
Scan ==
  /\ Emitting("scan")
  /\ \/ step' = "import" /\ UNCHANGED <<shim, todo, exit>>
     \/ NextJob
  /\ UNCHANGED <<files, forked, module, written, realExit, runs>>

(* The import reads the source a second time, the item graph a third: the   *)
(* artifact is made of the version read.  An unsupported ABI flag makes an  *)
(* empty module of it; an import, pipeline or graph that fails, nothing.    *)
Import ==
  /\ Emitting("import")
  /\ \/ module' = source[current] /\ step' = "open" /\ UNCHANGED <<shim, todo, exit>>
     \/ NextJob /\ UNCHANGED module
  /\ UNCHANGED <<files, forked, written, realExit, runs>>

EmbedWhatIsThere ==
  /\ Emitting("open")
  /\ \/ /\ sidecar' = [sidecar EXCEPT ![current] = [version |-> module, whole |-> FALSE]]
        /\ written' = written \union {current} /\ step' = "write"
     \/ step' = "embed" /\ UNCHANGED <<sidecar, written>>
  /\ UNCHANGED <<source, object, staged, shim, todo, exit, forked, module, realExit, runs>>

(* Opening the sidecar truncates it.                                       *)
Open ==
  /\ Emitting("open")
  /\ \/ /\ sidecar' = [sidecar EXCEPT ![current] = [version |-> module, whole |-> FALSE]]
        /\ written' = written \union {current}
        /\ step' = "write" /\ UNCHANGED <<shim, todo, exit>>
     \/ NextJob /\ UNCHANGED <<sidecar, written>>
  /\ UNCHANGED <<source, object, staged, forked, module, realExit, runs>>

(* A serialization that fails removes what it wrote.                       *)
Write ==
  /\ Emitting("write")
  /\ \/ /\ sidecar' = [sidecar EXCEPT ![current].whole = TRUE]
        /\ step' = "embed" /\ UNCHANGED <<shim, todo, exit>>
     \/ NextJob /\ sidecar' = [sidecar EXCEPT ![current] = NoFile]
  /\ UNCHANGED <<source, object, staged, forked, module, written, realExit, runs>>

ReuseStage ==
  /\ Emitting("embed")
  /\ staged' = IF staged[current] = NoObject
               THEN [staged EXCEPT ![current] = [object[current] EXCEPT !.section = sidecar[current].version]]
               ELSE staged
  /\ step' = "rename"
  /\ UNCHANGED <<source, object, sidecar, shim, todo, forked, module, written, realExit,
                 exit, runs>>

(* embedArtifactSection: the object is read, rewritten with the payload     *)
(* into the stage file, which replaces what is left of an earlier one; a    *)
(* failure leaves the object and no stage file behind.                     *)
Embed ==
  /\ Emitting("embed")
  /\ \/ /\ staged' = [staged EXCEPT ![current] =
                        [object[current] EXCEPT !.section = sidecar[current].version]]
        /\ step' = "rename" /\ UNCHANGED <<shim, todo, exit>>
     \/ NextJob /\ staged' \in {staged, [staged EXCEPT ![current] = NoObject]}
  /\ UNCHANGED <<source, object, sidecar, forked, module, written, realExit, runs>>

ReplaceObject ==
  /\ Emitting("rename")
  /\ object' \in {object, [object EXCEPT ![current] = staged[current]]}
  /\ staged' = [staged EXCEPT ![current] = NoObject]
  /\ NextJob
  /\ UNCHANGED <<source, sidecar, forked, module, written, realExit, runs>>

Working == shim = "emit" /\ todo # <<>> /\ step # "fork"

LeaveTheSidecar ==
  /\ Working
  /\ IF forked THEN NextJob ELSE shim' = "dead" /\ exit' = 1 /\ UNCHANGED <<todo, step>>
  /\ UNCHANGED <<source, object, sidecar, staged, forked, module, written, realExit, runs>>

(* A crash of the importer, at any step.  The parent of a child removes the *)
(* sidecar, whatever it holds, and goes on; without a child it is the shim  *)
(* that dies.                                                              *)
Crash ==
  /\ Working
  /\ IF forked
     THEN sidecar' = [sidecar EXCEPT ![current] = NoFile] /\ NextJob
     ELSE shim' = "dead" /\ exit' = 1 /\ UNCHANGED <<sidecar, todo, step>>
  /\ UNCHANGED <<source, object, staged, forked, module, written, realExit, runs>>

(* The build is interrupted: shim and child go, the files stay as they are. *)
Interrupt ==
  /\ shim \in {"delegate", "emit"}
  /\ shim' = "interrupted" /\ exit' = 1
  /\ UNCHANGED <<files, todo, forked, step, module, written, realExit, runs>>

ShimNext ==
  \/ \E j \in Job : Edit(j)
  \/ Invoke \/ Delegate \/ Fork \/ Scan \/ Import \/ Open \/ Write \/ Embed \/ ReplaceObject
  \/ Crash \/ Interrupt

ShimSpec == ShimInit /\ [][ShimNext]_shimVars

-----------------------------------------------------------------------------
-----------------------------------------------------------------------------
(* The build is a plain clang build: what the shim puts in the place of an  *)
(* object is that very object with a section more; only the real compiler   *)
(* changes its code.                                                       *)
CodeIsTheCompilers ==
  [][\A j \in Job : object'[j].code # object[j].code => shim = "delegate"]_shimVars

(* The artifact an object carries is never of an older source than its      *)
(* code: the import ran after the compile that made it, whatever stage file *)
(* or sidecar an earlier invocation left behind.                           *)
SectionNeverOlder ==
  \A j \in Job : object[j].section # None => object[j].section >= object[j].code

(* A child dying in the middle of a write must not leave a truncated        *)
(* artifact a later link would trip over: a shim that returned leaves no    *)
(* half of a sidecar it opened.                                            *)
NoTornSidecar ==
  shim = "exited" => \A j \in written : sidecar[j].whole \/ sidecar[j] = NoFile

=============================================================================
