------------------------------ MODULE ToolProofs ------------------------------
(***************************************************************************)
(* What the compiler shim leaves on disk, for any sources, any number of   *)
(* edits and invocations, and whatever fails or crashes in between; and    *)
(* what the improvement loop commits, for any emitters, any measurements   *)
(* and any number of iterations, however each of them ends.                *)
(***************************************************************************)
EXTENDS CompilerShim, OptimizerHarness, TLAPS

-----------------------------------------------------------------------------
(* The compiler shim.                                                      *)

(* The emission at hand: the import ran after the compile, the sidecar it   *)
(* opened is of that import, and so is what it staged.                      *)
EmissionFollows ==
  shim = "emit" /\ todo # <<>> =>
    /\ step \in {"open", "write", "embed"} => module >= object[current].code
    /\ step \in {"write", "embed"} => sidecar[current].version = module
    /\ step = "rename" => /\ staged[current].section >= staged[current].code
                          /\ staged[current].code = object[current].code

CodeIsNoNewer == \A j \in Job : object[j].code <= source[j]

(* Between the open and the end of the write, one sidecar is half written.  *)
OneHalf ==
  \A j \in written :
     \/ sidecar[j].whole \/ sidecar[j] = NoFile
     \/ shim = "emit" /\ todo # <<>> /\ step = "write" /\ j = current
     \/ shim \in {"dead", "interrupted"}

NothingBegun == shim = "delegate" => step = "fork" /\ written = {}

ShimOrder == NothingBegun /\ EmissionFollows /\ CodeIsNoNewer /\ SectionNeverOlder /\ OneHalf

ShimInv == ShimTypeOK /\ ShimOrder

-----------------------------------------------------------------------------
(* A job of the shim's is a source; what is left after it are jobs too.     *)
LEMMA JobsOnly ==
  ASSUME ShimTypeOK, todo # <<>>
  PROVE  current \in Job /\ Tail(todo) \in Seq(Job)
BY DEF ShimTypeOK, current

LEMMA NoJobs == <<>> \in Seq(Job)
OBVIOUS

LEMMA VersionsAreNumbers == Version \subseteq Nat /\ None \in Version
BY ShimBounds DEF Version, None

-----------------------------------------------------------------------------
Sidecar == [version : Version, whole : BOOLEAN]

(* One entry of a function replaced by a value of its range.               *)
LEMMA Replaced ==
  ASSUME NEW R, NEW f \in [Job -> R], NEW j \in Job, NEW r \in R
  PROVE  [f EXCEPT ![j] = r] \in [Job -> R]
OBVIOUS

LEMMA Sidecars ==
  ASSUME NEW v \in Version
  PROVE  [version |-> v, whole |-> FALSE] \in Sidecar /\ NoFile \in Sidecar
BY VersionsAreNumbers DEF Sidecar, NoFile

LEMMA WholeSidecar ==
  ASSUME NEW s \in Sidecar
  PROVE  [s EXCEPT !.whole = TRUE] \in Sidecar
BY DEF Sidecar

LEMMA InitHolds == ShimInit => ShimInv
<1> SUFFICES ASSUME ShimInit PROVE ShimInv
  OBVIOUS
<1>0. 1 \in Version /\ None \in Version
  BY ShimBounds DEF Version, None
<1>1. ShimTypeOK
  <2>1. /\ source \in [Job -> Version]
        /\ object \in [Job -> [code : Version, section : Version]]
        /\ sidecar \in [Job -> [version : Version, whole : BOOLEAN]]
        /\ staged \in [Job -> [code : Version, section : Version]]
    BY <1>0 DEF ShimInit, NoFile, NoObject
  <2> QED
    BY <2>1, <1>0, NoJobs DEF ShimInit, ShimTypeOK
<1>2. NothingBegun /\ EmissionFollows /\ OneHalf
  BY DEF ShimInit, EmissionFollows, OneHalf, NothingBegun
<1>3. CodeIsNoNewer /\ SectionNeverOlder
  BY DEF ShimInit, CodeIsNoNewer, SectionNeverOlder, NoObject, None
<1> QED
  BY <1>1, <1>2, <1>3 DEF ShimInv, ShimOrder

LEMMA TypePreserved == ShimTypeOK /\ [ShimNext]_shimVars => ShimTypeOK'
<1> SUFFICES ASSUME ShimTypeOK, [ShimNext]_shimVars PROVE ShimTypeOK'
  OBVIOUS
<1> USE VersionsAreNumbers
<1>1. ASSUME NEW j \in Job, Edit(j) PROVE ShimTypeOK'
  <2>1. source[j] + 1 \in Version
    BY <1>1, ShimBounds DEF Edit, ShimTypeOK, Version
  <2> QED
    BY <1>1, <2>1 DEF Edit, ShimTypeOK
<1>2. CASE Invoke
  BY <1>2 DEF Invoke, ShimTypeOK, files
<1>3. CASE Delegate
  <2>1. object' \in [Job -> [code : Version, section : Version]]
    BY <1>3 DEF Delegate, ShimTypeOK, NoObject
  <2>2. todo' \in Seq(Job) /\ exit' \in {0, 1} /\ realExit' \in {0, 1}
    BY <1>3, NoJobs DEF Delegate, ShimTypeOK
  <2> QED
    BY <1>3, <2>1, <2>2 DEF Delegate, ShimTypeOK
<1>4. CASE Fork
  BY <1>4 DEF Fork, ShimTypeOK, files
<1>5. CASE Scan
  BY <1>5, JobsOnly DEF Scan, Emitting, NextJob, ShimTypeOK, files
<1>6. CASE Import
  <2>1. source[current] \in Version /\ Tail(todo) \in Seq(Job)
    BY <1>6, JobsOnly DEF Import, Emitting, ShimTypeOK
  <2>2. module' \in Version
    BY <1>6, <2>1 DEF Import, ShimTypeOK
  <2> QED
    BY <1>6, <2>1, <2>2 DEF Import, NextJob, ShimTypeOK, files
<1>7. CASE Open
  <2>1. current \in Job /\ Tail(todo) \in Seq(Job)
    BY <1>7, JobsOnly DEF Open, Emitting
  <2>2. sidecar' \in [Job -> [version : Version, whole : BOOLEAN]] /\ written' \subseteq Job
    <3>1. sidecar \in [Job -> Sidecar] /\ module \in Version
      BY DEF ShimTypeOK, Sidecar
    <3>2. sidecar' \in [Job -> Sidecar]
      BY <1>7, <2>1, <3>1, Replaced, Sidecars DEF Open
    <3> QED
      BY <1>7, <2>1, <3>2 DEF Open, ShimTypeOK, Sidecar
  <2> QED
    BY <1>7, <2>1, <2>2 DEF Open, NextJob, ShimTypeOK
<1>8. CASE Write
  <2>1. current \in Job /\ Tail(todo) \in Seq(Job)
    BY <1>8, JobsOnly DEF Write, Emitting
  <2>2. sidecar' \in [Job -> [version : Version, whole : BOOLEAN]]
    <3>1. sidecar \in [Job -> Sidecar] /\ sidecar[current] \in Sidecar
      BY <2>1 DEF ShimTypeOK, Sidecar
    <3>2. \/ sidecar' = [sidecar EXCEPT ![current] = NoFile]
          \/ sidecar' = [sidecar EXCEPT ![current] = [sidecar[current] EXCEPT !.whole = TRUE]]
      BY <1>8 DEF Write
    <3>3. NoFile \in Sidecar /\ [sidecar[current] EXCEPT !.whole = TRUE] \in Sidecar
      BY <3>1, Sidecars, WholeSidecar, VersionsAreNumbers
    <3>4. sidecar' \in [Job -> Sidecar]
      BY <2>1, <3>1, <3>2, <3>3, Replaced
    <3> QED
      BY <3>4 DEF Sidecar
  <2> QED
    BY <1>8, <2>1, <2>2 DEF Write, NextJob, ShimTypeOK
<1>9. CASE Embed
  <2>1. current \in Job /\ Tail(todo) \in Seq(Job)
    BY <1>9, JobsOnly DEF Embed, Emitting
  <2>2. staged' \in [Job -> [code : Version, section : Version]]
    <3> DEFINE Object == [code : Version, section : Version]
    <3>1. staged \in [Job -> Object]
      BY DEF ShimTypeOK
    <3>2. NoObject \in Object /\ [object[current] EXCEPT !.section = sidecar[current].version] \in Object
      BY <2>1, VersionsAreNumbers DEF ShimTypeOK, NoObject
    <3> HIDE DEF Object
    <3>3. \/ staged' = [staged EXCEPT ![current] =
                          [object[current] EXCEPT !.section = sidecar[current].version]]
          \/ staged' = staged \/ staged' = [staged EXCEPT ![current] = NoObject]
      BY <1>9 DEF Embed
    <3>4. staged' \in [Job -> Object]
      BY <2>1, <3>1, <3>2, <3>3, Replaced
    <3> QED
      BY <3>4 DEF Object
  <2> QED
    BY <1>9, <2>1, <2>2 DEF Embed, NextJob, ShimTypeOK
<1>10. CASE ReplaceObject
  <2>1. current \in Job /\ Tail(todo) \in Seq(Job)
    BY <1>10, JobsOnly DEF ReplaceObject, Emitting
  <2>2. /\ object' \in [Job -> [code : Version, section : Version]]
        /\ staged' \in [Job -> [code : Version, section : Version]]
    BY <1>10, <2>1 DEF ReplaceObject, ShimTypeOK, NoObject
  <2> QED
    BY <1>10, <2>1, <2>2 DEF ReplaceObject, NextJob, ShimTypeOK
<1>11. CASE Crash
  <2>1. current \in Job /\ Tail(todo) \in Seq(Job)
    BY <1>11, JobsOnly DEF Crash, Working
  <2>2. sidecar' \in [Job -> [version : Version, whole : BOOLEAN]]
    <3>1. sidecar \in [Job -> Sidecar] /\ NoFile \in Sidecar
      BY Sidecars, VersionsAreNumbers DEF ShimTypeOK, Sidecar
    <3>2. sidecar' = sidecar \/ sidecar' = [sidecar EXCEPT ![current] = NoFile]
      BY <1>11 DEF Crash
    <3> QED
      BY <2>1, <3>1, <3>2, Replaced DEF Sidecar
  <2> QED
    BY <1>11, <2>1, <2>2 DEF Crash, NextJob, ShimTypeOK
<1>12. CASE Interrupt
  BY <1>12 DEF Interrupt, ShimTypeOK, files
<1>13. CASE UNCHANGED shimVars
  BY <1>13 DEF shimVars, files, ShimTypeOK
<1> QED
  BY <1>1, <1>2, <1>3, <1>4, <1>5, <1>6, <1>7, <1>8, <1>9, <1>10, <1>11, <1>12, <1>13
  DEF ShimNext

(* Every step of the shim keeps the order compile, import, sidecar, stage.  *)
LEMMA ShimOrderPreserved ==
  ShimInv /\ [ShimNext]_shimVars => ShimOrder'
<1> SUFFICES ASSUME ShimInv, [ShimNext]_shimVars PROVE ShimOrder'
  OBVIOUS
<1> USE VersionsAreNumbers DEF ShimInv, ShimOrder
<1>1. ASSUME NEW j \in Job, Edit(j) PROVE ShimOrder'
  <2>1. NothingBegun' /\ EmissionFollows' /\ SectionNeverOlder' /\ OneHalf'
    BY <1>1 DEF Edit, NothingBegun, EmissionFollows, SectionNeverOlder, OneHalf, current
  <2>2. CodeIsNoNewer'
    <3>1. \A i \in Job : source[i] \in Nat /\ object[i].code \in Nat
      BY DEF ShimTypeOK
    <3>2. \A i \in Job : source'[i] = source[i] \/ source'[i] = source[i] + 1
      BY <1>1 DEF Edit, ShimTypeOK
    <3> QED
      BY <1>1, <3>1, <3>2 DEF Edit, CodeIsNoNewer
  <2> QED
    BY <2>1, <2>2
<1>2. CASE Invoke
  BY <1>2 DEF Invoke, files, NothingBegun, EmissionFollows, CodeIsNoNewer, SectionNeverOlder,
              OneHalf
<1>3. CASE Delegate
  <2>1. \A j \in Job : \/ object'[j] = object[j]
                       \/ object'[j] = [code |-> source[j], section |-> None]
                       \/ object'[j] = NoObject
    BY <1>3 DEF Delegate
  <2>2. \A j \in Job : source[j] \in Nat
    BY DEF ShimTypeOK
  <2>3. CodeIsNoNewer' /\ SectionNeverOlder'
    BY <1>3, <2>1, <2>2 DEF Delegate, CodeIsNoNewer, SectionNeverOlder, NoObject, None
  <2>4. NothingBegun' /\ EmissionFollows' /\ OneHalf'
    BY <1>3 DEF Delegate, NothingBegun, EmissionFollows, OneHalf
  <2> QED
    BY <2>3, <2>4
<1>4. CASE Fork
  BY <1>4 DEF Fork, Emitting, files, NothingBegun, EmissionFollows, CodeIsNoNewer,
              SectionNeverOlder, OneHalf, current
<1>5. CASE Scan
  BY <1>5 DEF Scan, Emitting, NextJob, files, NothingBegun, EmissionFollows, CodeIsNoNewer,
              SectionNeverOlder, OneHalf, current
<1>6. CASE Import
  <2>1. CodeIsNoNewer' /\ SectionNeverOlder' /\ NothingBegun' /\ OneHalf'
    BY <1>6 DEF Import, Emitting, NextJob, files, NothingBegun, CodeIsNoNewer,
                SectionNeverOlder, OneHalf, current
  <2>2. EmissionFollows'
    <3>1. current \in Job /\ object[current].code \in Nat /\ source[current] \in Nat
      BY <1>6, JobsOnly DEF Import, Emitting, ShimTypeOK
    <3>2. object[current].code <= source[current]
      BY <3>1 DEF CodeIsNoNewer
    <3> QED
      BY <1>6, <3>1, <3>2 DEF Import, Emitting, NextJob, files, EmissionFollows, current
  <2> QED
    BY <2>1, <2>2
<1>7. CASE Open
  <2>1. current \in Job /\ todo # <<>>
    BY <1>7, JobsOnly DEF Open, Emitting
  <2>2. CodeIsNoNewer' /\ SectionNeverOlder' /\ NothingBegun'
    BY <1>7 DEF Open, Emitting, NextJob, NothingBegun, CodeIsNoNewer, SectionNeverOlder
  <2>3. EmissionFollows'
    BY <1>7, <2>1 DEF Open, Emitting, NextJob, EmissionFollows, current, ShimTypeOK
  <2>4. OneHalf'
    BY <1>7, <2>1 DEF Open, Emitting, NextJob, OneHalf, current, ShimTypeOK
  <2> QED
    BY <2>2, <2>3, <2>4
<1>8. CASE Write
  <2>1. current \in Job /\ todo # <<>>
    BY <1>8, JobsOnly DEF Write, Emitting
  <2>2. CodeIsNoNewer' /\ SectionNeverOlder' /\ NothingBegun'
    BY <1>8 DEF Write, Emitting, NextJob, NothingBegun, CodeIsNoNewer, SectionNeverOlder
  <2>3. EmissionFollows'
    BY <1>8, <2>1 DEF Write, Emitting, NextJob, EmissionFollows, current, ShimTypeOK
  <2>4. OneHalf'
    <3>1. \A j \in Job \ {current} : sidecar'[j] = sidecar[j]
      BY <1>8, <2>1 DEF Write, ShimTypeOK
    <3>2. sidecar'[current].whole \/ sidecar'[current] = NoFile
      BY <1>8, <2>1 DEF Write, ShimTypeOK, NoFile
    <3>3. \A j \in written : j \in Job /\ (j # current => sidecar[j].whole \/ sidecar[j] = NoFile)
      BY <1>8 DEF Write, Emitting, OneHalf, ShimTypeOK
    <3> QED
      BY <1>8, <3>1, <3>2, <3>3 DEF Write, OneHalf
  <2> QED
    BY <2>2, <2>3, <2>4
<1>9. CASE Embed
  <2>1. current \in Job /\ todo # <<>>
    BY <1>9, JobsOnly DEF Embed, Emitting
  <2>2. CodeIsNoNewer' /\ SectionNeverOlder' /\ NothingBegun' /\ OneHalf'
    BY <1>9 DEF Embed, Emitting, NextJob, NothingBegun, CodeIsNoNewer, SectionNeverOlder,
                OneHalf, current
  <2>3. EmissionFollows'
    <3>1. sidecar[current].version >= object[current].code
      BY <1>9 DEF Embed, Emitting, EmissionFollows
    <3>2. \/ /\ step' = "rename" /\ todo' = todo
             /\ staged'[current].section = sidecar[current].version
             /\ staged'[current].code = object[current].code
          \/ step' = "fork"
      BY SMTT(30), <1>9, <2>1 DEF Embed, NextJob, ShimTypeOK
    <3> QED
      BY <1>9, <3>1, <3>2 DEF Embed, EmissionFollows, current
  <2> QED
    BY <2>2, <2>3
<1>10. CASE ReplaceObject
  <2>1. current \in Job /\ todo # <<>>
    BY <1>10, JobsOnly DEF ReplaceObject, Emitting
  <2>2. NothingBegun' /\ EmissionFollows' /\ OneHalf'
    BY <1>10 DEF ReplaceObject, Emitting, NextJob, NothingBegun, EmissionFollows, OneHalf, current
  <2>3. SectionNeverOlder'
    BY <1>10, <2>1 DEF ReplaceObject, Emitting, SectionNeverOlder, EmissionFollows, ShimTypeOK
  <2>4. CodeIsNoNewer'
    BY <1>10, <2>1 DEF ReplaceObject, Emitting, CodeIsNoNewer, EmissionFollows, ShimTypeOK
  <2> QED
    BY <2>2, <2>3, <2>4
<1>11. CASE Crash
  <2>1. current \in Job /\ todo # <<>>
    BY <1>11, JobsOnly DEF Crash, Working
  <2>2. CodeIsNoNewer' /\ SectionNeverOlder' /\ NothingBegun' /\ EmissionFollows'
    BY <1>11 DEF Crash, Working, NextJob, NothingBegun, CodeIsNoNewer, SectionNeverOlder,
                 EmissionFollows
  <2>3. OneHalf'
    BY <1>11, <2>1 DEF Crash, Working, NextJob, OneHalf, current, ShimTypeOK, NoFile
  <2> QED
    BY <2>2, <2>3
<1>12. CASE Interrupt
  BY <1>12 DEF Interrupt, files, NothingBegun, EmissionFollows, CodeIsNoNewer,
               SectionNeverOlder, OneHalf
<1>13. CASE UNCHANGED shimVars
  BY <1>13 DEF shimVars, files, NothingBegun, EmissionFollows, CodeIsNoNewer, SectionNeverOlder,
               OneHalf, current
<1> QED
  BY <1>1, <1>2, <1>3, <1>4, <1>5, <1>6, <1>7, <1>8, <1>9, <1>10, <1>11, <1>12, <1>13
  DEF ShimNext

(* The invariant holds of every behaviour of the shim.                     *)
THEOREM ShimInvariant == ShimSpec => []ShimInv
<1>1. ShimInv /\ [ShimNext]_shimVars => ShimInv'
  BY TypePreserved, ShimOrderPreserved DEF ShimInv
<1> QED
  BY InitHolds, <1>1, PTL DEF ShimSpec

(* Whatever was edited, interrupted or left on disk, the artifact inside an *)
(* object is never of an older source than the object's code.              *)
THEOREM NoOldSection == ShimSpec => []SectionNeverOlder
<1>1. ShimInv => SectionNeverOlder
  BY DEF ShimInv, ShimOrder
<1> QED
  BY ShimInvariant, <1>1, PTL

(* Wherever a child dies, a shim that returned leaves no half of a sidecar. *)
THEOREM NoHalfSidecar == ShimSpec => []NoTornSidecar
<1>1. ShimInv => NoTornSidecar
  BY DEF ShimInv, ShimOrder, OneHalf, NoTornSidecar
<1> QED
  BY ShimInvariant, <1>1, PTL

(* The build is a plain clang build: whatever is edited, interrupted or left *)
(* over, the shim never gives an object other code than the compiler did,   *)
(* because what it renames into place was made of the object that is there. *)
THEOREM CodeStaysTheCompilers == ShimSpec => CodeIsTheCompilers
<1> DEFINE Step == \A j \in Job : object'[j].code # object[j].code => shim = "delegate"
<1>1. ShimInv /\ [ShimNext]_shimVars => [Step]_shimVars
  <2> SUFFICES ASSUME ShimInv, [ShimNext]_shimVars, NEW j \in Job, object'[j].code # object[j].code
               PROVE  shim = "delegate"
    OBVIOUS
  <2>1. CASE Delegate
    BY <2>1 DEF Delegate
  <2>2. CASE ReplaceObject
    <3>1. current \in Job /\ staged[current].code = object[current].code
      BY <2>2, JobsOnly DEF ReplaceObject, Emitting, ShimInv, ShimOrder, EmissionFollows
    <3>2. object'[j] \in {object[j], staged[j]} /\ (j # current => object'[j] = object[j])
      BY <2>2, <3>1 DEF ReplaceObject, ShimInv, ShimTypeOK
    <3> QED
      BY <3>1, <3>2
  <2>3. CASE UNCHANGED object
    BY <2>3
  <2> QED
    BY <2>1, <2>2, <2>3 DEF ShimNext, shimVars, files, Edit, Invoke, Fork, Scan, Import, Open, Write,
       Embed, Crash, Interrupt
<1> QED
  BY ShimInvariant, <1>1, PTL DEF ShimSpec, CodeIsTheCompilers

-----------------------------------------------------------------------------
(* The optimizer harness.                                                  *)

Goldens == {Golden[e] : e \in Emitter}
Score == [train : Int, held : Int]
Champion == [train : Int, held : Int, allow : SUBSET UNION {Allow[e] : e \in Emitter}]
Entry == [rev : Int, total : Int, train : Int, held : Int]
Tree == [src : Emitter, tests : Goldens, intact : BOOLEAN, champ : Champion, base : Int,
         ledger : Seq(Entry)]

HarnessTypes ==
  /\ work \in Tree /\ index \in Tree /\ head \in Tree
  /\ report \in Score /\ candidate \in Score
  /\ log \in Seq([src : Emitter, champ : Champion, base : Int])

(* From the end of the gate to the commit the worktree is what was gated.   *)
Gated == phase \in {"train", "held", "verdict", "update", "advance", "stage", "commit"}

(* The champion the next candidate is scored against is at least as good as *)
(* the committed one: a failed accept leaves it better, nothing worse.      *)
Ahead(champ) ==
  /\ champ.train <= head.champ.train /\ champ.held <= head.champ.held
  /\ champ.allow \subseteq head.champ.allow

Better(champ) == Ahead(champ) /\ champ.train < head.champ.train

HarnessOrder ==
  /\ NeverShipsRed /\ head.champ.allow \subseteq Allow[First]
  /\ Ahead(work.champ)
  /\ Gated => /\ work.src \in Sound /\ work.tests = Golden[work.src]
              /\ Allow[work.src] \subseteq head.champ.allow
  /\ phase \in {"update", "advance"} =>
       candidate.train < head.champ.train /\ candidate.held <= head.champ.held
  /\ phase \in {"stage", "commit"} => Better(work.champ)
  /\ phase = "commit" =>
       index.src = work.src /\ index.tests = work.tests /\ index.champ = work.champ
  /\ phase \in {"ledger", "follow"} =>
       index.src = head.src /\ index.tests = head.tests /\ index.champ = head.champ

HarnessInv == HarnessTypes /\ HarnessOrder

-----------------------------------------------------------------------------
LEMMA WarningsAreNumbers ==
  \A e \in Emitter : Warnings[e].train \in Int /\ Warnings[e].held \in Int /\ Total(e) \in Int
BY HarnessAssumption DEF Total

LEMMA ReportsAreScores == NoReports \in Score /\ Score = [Slices -> Int]
<1>1. Slices = {"train", "held"}
  BY DEF Slices
<1>2. Score = [Slices -> Int]
  BY <1>1 DEF Score
<1> QED
  BY <1>1, <1>2 DEF NoReports, NoReport

LEMMA TypesInit == HarnessInit => HarnessTypes
<1> SUFFICES ASSUME HarnessInit PROVE HarnessTypes
  OBVIOUS
<1>1. First \in Emitter /\ Golden[First] \in Goldens
  BY HarnessAssumption DEF Goldens
<1>2. [train |-> Warnings[First].train, held |-> Warnings[First].held, allow |-> Allow[First]]
      \in Champion
  BY <1>1, WarningsAreNumbers DEF Champion
<1>3. Total(First) \in Int /\ <<>> \in Seq(Entry)
  BY <1>1, WarningsAreNumbers
<1>4. head \in Tree
  BY <1>1, <1>2, <1>3 DEF HarnessInit, Tree
<1>5. log \in Seq([src : Emitter, champ : Champion, base : Int])
  BY DEF HarnessInit
<1> QED
  BY <1>4, <1>5, ReportsAreScores DEF HarnessInit, HarnessTypes

LEMMA TypesPreserved == HarnessTypes /\ [HarnessNext]_harnessVars => HarnessTypes'
<1> SUFFICES ASSUME HarnessTypes, [HarnessNext]_harnessVars PROVE HarnessTypes'
  OBVIOUS
<1> USE DEF HarnessTypes, scratch
<1>0. ASSUME Revert PROVE work' \in Tree /\ report' \in Score /\ candidate' \in Score
  <2>1. work' \in Tree
    BY <1>0 DEF Revert, Tree
  <2> QED
    BY <1>0, <2>1, ReportsAreScores DEF Revert
<1>1. CASE Optimize
  <2>1. work' \in Tree
    BY <1>1 DEF Optimize, Tree, Goldens
  <2> QED
    BY <1>1, <2>1 DEF Optimize
<1>2. CASE RevertByHand
  BY <1>0, <1>2 DEF RevertByHand
<1>3. CASE Gate
  BY <1>0, <1>3 DEF Gate
<1>4. ASSUME NEW s \in Slices, NEW next, Measure(s, next) PROVE HarnessTypes'
  <2>1. work.src \in Emitter
    BY DEF Tree
  <2>2. Warnings[work.src][s] \in Int
    BY <2>1, WarningsAreNumbers DEF Slices
  <2>3. report' \in Score
    BY <1>4, <2>2, ReportsAreScores DEF Measure, Raise
  <2> QED
    BY <1>4, <2>3 DEF Measure, Raise
<1>5. CASE Verdict
  BY <1>0, <1>5 DEF Verdict
<1>6. CASE Update
  <2>1. work.src \in Emitter
    BY DEF Tree
  <2>2. work' \in Tree
    BY <1>6, <2>1, WarningsAreNumbers DEF Update, Tree, Raise
  <2> QED
    BY <1>6, <2>2 DEF Update, Raise
<1>7. CASE Advance
  <2>1. work.src \in Emitter
    BY DEF Tree
  <2>2. [train |-> candidate.train, held |-> candidate.held, allow |-> Allow[work.src]]
        \in Champion
    BY <2>1 DEF Champion, Score
  <2>3. work' \in Tree
    BY <1>7, <2>2 DEF Advance, Tree
  <2> QED
    BY <1>7, <2>3 DEF Advance
<1>8. CASE Stage
  <2>1. index' \in Tree
    BY <1>8 DEF Stage, Tree
  <2> QED
    BY <1>8, <2>1 DEF Stage
<1>9. CASE Commit
  <2> DEFINE Accepted == [src : Emitter, champ : Champion, base : Int]
  <2> DEFINE commit == [src |-> index.src, champ |-> index.champ, base |-> index.base]
  <2>1. index.src \in Emitter /\ index.champ \in Champion /\ index.base \in Int
    BY DEF Tree
  <2>2. commit \in Accepted /\ log \in Seq(Accepted)
    BY <2>1
  <2>3. log' = log \/ log' = Append(log, commit)
    BY <1>9 DEF Commit
  <2> HIDE DEF Accepted, commit
  <2>4. log' \in Seq(Accepted)
    BY <2>2, <2>3
  <2> QED
    BY <1>9, <2>4 DEF Commit, Raise, Accepted
<1>10. CASE LedgerAppend
  <2>1. Revision \in Int
    BY DEF Revision
  <2>2. [rev |-> Revision, total |-> work.base, train |-> candidate.train,
         held |-> candidate.held] \in Entry
    BY <2>1 DEF Entry, Tree, Score
  <2>3. \A entry \in Entry : Append(work.ledger, entry) \in Seq(Entry)
    BY DEF Tree
  <2>4. \A l \in Seq(Entry) : [work EXCEPT !.ledger = l] \in Tree
    BY DEF Tree
  <2>5. work' \in Tree
    BY <1>10, <2>2, <2>3, <2>4 DEF LedgerAppend, Raise
  <2> QED
    BY <1>10, <2>5 DEF LedgerAppend, Raise
<1>11. CASE Follow
  <2>1. index' \in Tree
    BY <1>11 DEF Follow, Tree
  <2> QED
    BY <1>11, <2>1 DEF Follow
<1>12. CASE Kill
  BY <1>12 DEF Kill
<1>13. CASE UNCHANGED harnessVars
  BY <1>13 DEF harnessVars
<1> QED
  BY <1>1, <1>2, <1>3, <1>4, <1>5, <1>6, <1>7, <1>8, <1>9, <1>10, <1>11, <1>12, <1>13
  DEF HarnessNext, Slices

-----------------------------------------------------------------------------
LEMMA OrderInit == HarnessInit => HarnessOrder
<1> SUFFICES ASSUME HarnessInit PROVE HarnessOrder
  OBVIOUS
<1>1. First \in Sound /\ First \in Emitter
  BY HarnessAssumption
<1>2. Warnings[First].train \in Int /\ Warnings[First].held \in Int
  BY <1>1, WarningsAreNumbers
<1>3. work.champ = head.champ /\ Ahead(head.champ)
  BY <1>2 DEF HarnessInit, Ahead
<1>4. NeverShipsRed /\ head.champ.allow \subseteq Allow[First]
  BY <1>1 DEF HarnessInit, NeverShipsRed
<1> QED
  BY <1>3, <1>4 DEF HarnessInit, HarnessOrder, Gated

(* A revert takes the sources from the index and nothing else that is gated *)
(* or compared.                                                            *)
LEMMA RevertKeepsChampion ==
  ASSUME HarnessTypes, Revert
  PROVE  work'.champ = work.champ
BY DEF HarnessTypes, Revert, Tree

LEMMA HarnessOrderPreserved == HarnessInv /\ [HarnessNext]_harnessVars => HarnessOrder' /\ HarnessTypes'
<1> SUFFICES ASSUME HarnessInv, [HarnessNext]_harnessVars PROVE HarnessOrder'
  BY TypesPreserved DEF HarnessInv
<1> USE DEF HarnessInv, scratch
<1>1. CASE Optimize
  <2>1. work'.champ = work.champ
    BY <1>1 DEF Optimize, HarnessTypes, Tree
  <2> QED
    BY <1>1, <2>1 DEF Optimize, HarnessOrder, Gated, Ahead, NeverShipsRed
<1>2. CASE RevertByHand
  BY <1>2, RevertKeepsChampion DEF RevertByHand, HarnessOrder, Gated, Ahead, NeverShipsRed
<1>3. CASE Gate
  <2>1. CASE Passes(work)
    BY <1>3, <2>1 DEF Gate, Passes, HarnessOrder, Gated, Ahead, NeverShipsRed
  <2>2. CASE ~Passes(work)
    BY <1>3, <2>2, RevertKeepsChampion DEF Gate, HarnessOrder, Gated, Ahead, NeverShipsRed
  <2> QED
    BY <2>1, <2>2
<1>4. CASE Measure("train", "held")
  BY <1>4 DEF Measure, Raise, HarnessOrder, Gated, Ahead, NeverShipsRed
<1>5. CASE Measure("held", "verdict")
  BY <1>5 DEF Measure, Raise, HarnessOrder, Gated, Ahead, NeverShipsRed
<1>6. CASE Verdict
  <2>1. CASE Worthy(report, work.champ)
    <3>1. report.train < head.champ.train /\ report.held <= head.champ.held
      <4>1. /\ report.train \in Int /\ report.held \in Int
            /\ work.champ.train \in Int /\ work.champ.held \in Int
            /\ head.champ.train \in Int /\ head.champ.held \in Int
        BY DEF HarnessTypes, Tree, Champion, Score
      <4> QED
        BY <2>1, <4>1 DEF Worthy, HarnessOrder, Ahead
    <3> QED
      BY <1>6, <2>1, <3>1 DEF Verdict, HarnessOrder, Gated, Ahead, NeverShipsRed
  <2>2. CASE ~Worthy(report, work.champ)
    BY <1>6, <2>2, RevertKeepsChampion DEF Verdict, HarnessOrder, Gated, Ahead, NeverShipsRed
  <2> QED
    BY <2>1, <2>2
<1>7. CASE Update
  <2>1. work'.champ = work.champ /\ work'.src = work.src /\ work'.tests = work.tests
    BY <1>7 DEF Update, Raise, HarnessTypes, Tree
  <2> QED
    BY <1>7, <2>1 DEF Update, Raise, HarnessOrder, Gated, Ahead, NeverShipsRed
<1>8. CASE Advance
  <2>1. /\ work'.src = work.src /\ work'.tests = work.tests
        /\ work'.champ = [train |-> candidate.train, held |-> candidate.held,
                          allow |-> Allow[work.src]]
    BY <1>8 DEF Advance, HarnessTypes, Tree
  <2>2. candidate.train < head.champ.train /\ candidate.held <= head.champ.held
    BY <1>8 DEF Advance, HarnessOrder
  <2>3. Allow[work.src] \subseteq head.champ.allow
    BY <1>8 DEF Advance, HarnessOrder, Gated
  <2>4. candidate.train \in Int /\ head.champ.train \in Int
    BY DEF HarnessTypes, Tree, Champion, Score
  <2>5. Better(work'.champ)
    BY <2>1, <2>2, <2>3, <2>4 DEF Better, Ahead
  <2> QED
    BY <1>8, <2>1, <2>5 DEF Advance, HarnessOrder, Gated, Ahead, Better, NeverShipsRed
<1>9. CASE Stage
  <2>1. index'.champ = work.champ /\ index'.src = work.src /\ index'.tests = work.tests
    BY <1>9 DEF Stage, HarnessTypes, Tree
  <2> QED
    BY <1>9, <2>1 DEF Stage, HarnessOrder, Gated, Ahead, Better, NeverShipsRed
<1>10. CASE Commit
  <2>1. CASE head' = index /\ phase' = "ledger"
    <3>1. index.src = work.src /\ index.tests = work.tests /\ index.champ = work.champ
      BY <1>10 DEF Commit, HarnessOrder
    <3>2. work' = work /\ index' = index
      BY <1>10 DEF Commit, Raise
    <3>3. /\ work.src \in Sound /\ work.tests = Golden[work.src]
          /\ Allow[work.src] \subseteq head.champ.allow
          /\ head.champ.allow \subseteq Allow[First] /\ Ahead(work.champ)
      BY <1>10 DEF Commit, HarnessOrder, Gated
    <3>4. NeverShipsRed' /\ head'.champ.allow \subseteq Allow[First]
      BY <2>1, <3>1, <3>3 DEF NeverShipsRed, Ahead
    <3>5. work.champ.train \in Int /\ work.champ.held \in Int
      BY DEF HarnessTypes, Tree, Champion
    <3>6. Ahead(work.champ)'
      BY <2>1, <3>1, <3>2, <3>5 DEF Ahead
    <3> QED
      BY <2>1, <3>1, <3>2, <3>4, <3>6 DEF HarnessOrder, Gated
  <2>2. CASE Raise /\ UNCHANGED head
    BY <2>2 DEF Raise, HarnessOrder, Gated, Ahead, NeverShipsRed
  <2> QED
    BY <1>10, <2>1, <2>2 DEF Commit
<1>11. CASE LedgerAppend
  <2>1. work'.champ = work.champ
    BY <1>11 DEF LedgerAppend, Raise, HarnessTypes, Tree
  <2> QED
    BY <1>11, <2>1 DEF LedgerAppend, Raise, HarnessOrder, Gated, Ahead, NeverShipsRed
<1>12. CASE Follow
  <2>1. index'.src = index.src /\ index'.tests = index.tests /\ index'.champ = index.champ
    BY <1>12 DEF Follow, HarnessTypes, Tree
  <2>2. head'.src = head.src /\ head'.tests = head.tests /\ head'.champ = head.champ
    BY <1>12, <2>1 DEF Follow, HarnessOrder
  <2> QED
    BY <1>12, <2>2 DEF Follow, HarnessOrder, Gated, Ahead, NeverShipsRed
<1>13. CASE Kill
  BY <1>13 DEF Kill, HarnessOrder, Gated, Ahead, NeverShipsRed
<1>14. CASE UNCHANGED harnessVars
  BY <1>14 DEF harnessVars, HarnessOrder, Gated, Ahead, Better, NeverShipsRed
<1> QED
  BY <1>1, <1>2, <1>3, <1>4, <1>5, <1>6, <1>7, <1>8, <1>9, <1>10, <1>11, <1>12, <1>13, <1>14
  DEF HarnessNext

(* The invariant holds of every behaviour of the loop.                     *)
THEOREM HarnessInvariant == HarnessSpec => []HarnessInv
<1>1. HarnessInit => HarnessInv
  BY TypesInit, OrderInit DEF HarnessInv
<1>2. HarnessInv /\ [HarnessNext]_harnessVars => HarnessInv'
  BY HarnessOrderPreserved DEF HarnessInv
<1> QED
  BY <1>1, <1>2, PTL DEF HarnessSpec

(* The loop never ships red, whatever failed iterations leave behind.       *)
THEOREM CommitsAreGreen == HarnessSpec => []NeverShipsRed
<1>1. HarnessInv => NeverShipsRed
  BY DEF HarnessInv, HarnessOrder
<1> QED
  BY HarnessInvariant, <1>1, PTL

(* The committed ratchet never regresses, on either slice or in what it     *)
(* suppresses.                                                             *)
THEOREM RatchetHolds == HarnessSpec => RatchetNeverRegresses
<1> DEFINE Step == head'.champ # head.champ =>
       /\ head'.champ.train < head.champ.train /\ head'.champ.held <= head.champ.held
       /\ head'.champ.allow \subseteq head.champ.allow
<1>1. HarnessInv /\ [HarnessNext]_harnessVars => [Step]_harnessVars
  <2> SUFFICES ASSUME HarnessInv, [HarnessNext]_harnessVars, head'.champ # head.champ PROVE Step
    OBVIOUS
  <2>1. CASE Commit
    <3>1. head' = index /\ phase = "commit"
      BY <2>1 DEF Commit
    <3>2. index.champ = work.champ /\ Better(work.champ)
      BY <3>1 DEF HarnessInv, HarnessOrder
    <3> QED
      BY <3>1, <3>2 DEF Better, Ahead
  <2>2. CASE Follow
    <3>1. index'.champ = index.champ /\ index.champ = head.champ
      BY <2>2 DEF Follow, HarnessInv, HarnessTypes, HarnessOrder, Tree
    <3> QED
      BY <2>2, <3>1 DEF Follow
  <2>3. CASE UNCHANGED head
    BY <2>3
  <2> QED
    BY <2>1, <2>2, <2>3 DEF HarnessNext, harnessVars, Optimize, RevertByHand, Gate, Measure, Verdict, Update,
       Advance, Stage, LedgerAppend, Kill
<1> QED
  BY HarnessInvariant, <1>1, PTL DEF HarnessSpec, RatchetNeverRegresses
=============================================================================
