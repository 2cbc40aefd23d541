------------------------- MODULE ImportRecoveryProofs -------------------------
(***************************************************************************)
(* What a rollback may rely on, for any declarations, any faults and any    *)
(* nesting of imports: the anchor splits the module into what was there and *)
(* what the import made, the table and the module agree, a rollback restores *)
(* what its checkpoint found, no definition is lost in silence, and a call  *)
(* keeps its callee but for what another class was imported without.        *)
(***************************************************************************)
EXTENDS ImportRecovery, WellFoundedInduction, SequenceTheorems, TLAPS

Active == step \in {"import", "retry"}

IsOp(op) ==
  /\ op \in [symbol : Name \union Class, body : Body, calls : SUBSET Name]
  /\ op.body = "struct" <=> op.symbol \in Class

RecoveryTypes ==
  /\ program \in Programs
  /\ born \in Nat /\ functions \in [Name -> Nat]
  /\ DOMAIN module \subseteq 1..born /\ \A i \in DOMAIN module : IsOp(module[i])
  /\ imported \subseteq Class
  /\ checkpoint \in [anchor : Nat, clones : Seq(Name), start : Nat,
                     before : [Name -> Body \union {"absent"}]]
  /\ stub \in [only : BOOLEAN, symbol : SUBSET Name]
  /\ reply \in {"none", "ok", "failed"}
  /\ step \in {"walk", "import", "undone", "retry", "done", "error"}
  /\ item \in Nat \ {0} /\ (Active \/ step = "undone" => item \in DOMAIN program)

-----------------------------------------------------------------------------
(* The stack of imports.                                                   *)
Frame == [unit : {"function", "class", "functions", "classes"},
          of : Name \union Class \union Template,
          phase : {"signature", "body", "fields", "signatures", "bodies", "items"},
          left : Seq(Name \union Class), defines : BOOLEAN]

Fits(fr) ==
  /\ fr \in Frame
  /\ fr.unit = "function" =>
       /\ fr.of \in Name
       /\ \/ fr.phase = "signature" /\ fr.left \in Seq(Class)
          \/ fr.phase = "body" /\ fr.left \in Seq(Name)
  /\ fr.unit = "class" =>
       /\ fr.of \in Class
       /\ \/ fr.phase = "fields" /\ fr.left \in Seq(Class)
          \/ fr.phase \in {"signatures", "bodies"} /\ fr.left \in Seq(Methods(fr.of))
  /\ fr.unit = "functions" => fr.phase = "items" /\ fr.left \in Seq(Name)
  /\ fr.unit = "classes" => fr.phase = "items" /\ fr.left \in Seq(Class)

Demands(fr) ==
  \/ fr.unit = "function" /\ fr.phase = "signature"
  \/ fr.unit = "class" /\ fr.phase = "fields"
  \/ fr.unit = "classes"

Imports(fr) == fr.unit = "class" /\ fr.phase \in {"signatures", "bodies"}

(* A frame waits for the answer of another.                                *)
Awaits(fr, child) ==
  /\ fr.left # <<>> /\ fr.phase # "body"
  /\ Demands(fr) => child.unit = "class"
  /\ Imports(fr) => child.unit = "function" /\ child.of = Head(fr.left)
  /\ fr.unit = "functions" => child.unit = "function"

Nested(fs) ==
  /\ fs \in Seq(Frame) /\ \A k \in 1..Len(fs) : Fits(fs[k])
  /\ \A k \in 1..Len(fs) : k > 1 => Awaits(fs[k], fs[k - 1])

StackInv ==
  /\ Nested(frames)
  /\ frames # <<>> => Active
  /\ frames # <<>> /\ reply # "none" => Top.left # <<>> /\ Top.phase # "body"
  /\ ~Active => reply = "none"

-----------------------------------------------------------------------------
(* What an import under way has done to the module.                        *)
TableInv ==
  /\ \A f \in Name : functions[f] # 0 /\ step \notin {"done", "error"} =>
       functions[f] \in FunctionOps /\ module[functions[f]].symbol = f
  /\ step \notin {"done", "error"} =>
       \A i \in FunctionOps : functions[module[i].symbol] = i

Fresh(c) == \A m \in Methods(c) : functions[m] = 0 \/ functions[m] > checkpoint.start

OwnersInv ==
  /\ \A f \in Name : functions[f] # 0 => OwnersOf(f) \subseteq imported
  /\ Active => \A f \in Range(checkpoint.clones) : OwnersOf(f) \subseteq imported
  /\ \A k \in 1..Len(frames) : frames[k].unit = "class" =>
       frames[k].of \in imported /\ Fresh(frames[k].of)

AnchorInv ==
  Active =>
    /\ checkpoint.anchor \in DOMAIN module \union {0}
    /\ checkpoint.anchor <= checkpoint.start /\ checkpoint.start <= born
    /\ \A i \in DOMAIN module : i <= checkpoint.anchor <=> i <= checkpoint.start

(* Only the function being imported, or one that has just failed, is open.  *)
Unfinished(i) ==
  \/ reply = "none" /\ frames # <<>> /\ Top.unit = "function" /\ Top.phase = "body"
     /\ Top.of = module[i].symbol
  \/ reply = "failed" /\ frames # <<>> /\ Imports(Top) /\ Head(Top.left) = module[i].symbol
  \/ reply = "failed" /\ (frames = <<>> \/ Top.unit = "functions")

OpenInv ==
  /\ \A i \in DOMAIN module : module[i].body = "open" =>
       Active /\ i > checkpoint.start /\ Unfinished(i)
  /\ frames # <<>> /\ Top.unit = "function" /\ Top.phase = "body" =>
       LET i == functions[Top.of] IN
       i # 0 /\ i > checkpoint.start /\ module[i].body = "open"

(* What the functions were when the checkpoint was taken, from what is left *)
(* of them.                                                                *)
BeforeInv ==
  Active =>
    /\ \A f \in Name : checkpoint.before[f] =
         IF f \in Range(checkpoint.clones) THEN "prototype"
         ELSE IF functions[f] # 0 /\ functions[f] <= checkpoint.start
              THEN module[functions[f]].body ELSE "absent"
    /\ \A f \in Range(checkpoint.clones) :
         functions[f] = 0 \/ functions[f] > checkpoint.start
    /\ \A j, k \in DOMAIN checkpoint.clones :
         checkpoint.clones[j] = checkpoint.clones[k] => j = k

RecoveryInv ==
  /\ RecoveryTypes /\ StackInv /\ TableInv /\ OwnersInv /\ AnchorInv /\ OpenInv /\ BeforeInv

-----------------------------------------------------------------------------
(* Pushing, replacing and popping a frame.                                 *)
LEMMA PopNested ==
  ASSUME NEW fs, Nested(fs), fs # <<>>
  PROVE  /\ Fits(Head(fs)) /\ Nested(Tail(fs))
         /\ Tail(fs) # <<>> => /\ Fits(Head(Tail(fs))) /\ Awaits(Head(Tail(fs)), Head(fs))
                               /\ Head(Tail(fs)) = fs[2] /\ Len(fs) > 1
         /\ Len(Tail(fs)) = Len(fs) - 1 /\ Len(fs) \in Nat \ {0} /\ Head(fs) = fs[1]
         /\ \A k \in 1..Len(fs) - 1 : Tail(fs)[k] = fs[k + 1]
<1>1. /\ fs \in Seq(Frame) /\ \A k \in 1..Len(fs) : Fits(fs[k])
      /\ \A k \in 1..Len(fs) : k > 1 => Awaits(fs[k], fs[k - 1])
  BY DEF Nested
<1>2. /\ Len(fs) \in Nat /\ Len(fs) > 0 /\ Head(fs) = fs[1] /\ Tail(fs) \in Seq(Frame)
      /\ Len(Tail(fs)) = Len(fs) - 1
      /\ \A k \in 1..Len(fs) - 1 : Tail(fs)[k] = fs[k + 1]
  BY <1>1
<1>3. \A k \in 1..Len(fs) - 1 : Fits(Tail(fs)[k])
  BY <1>1, <1>2
<1>4. \A k \in 1..Len(fs) - 1 : k > 1 => Awaits(Tail(fs)[k], Tail(fs)[k - 1])
  <2> SUFFICES ASSUME NEW k \in 1..Len(fs) - 1, k > 1
               PROVE  Awaits(Tail(fs)[k], Tail(fs)[k - 1])
    OBVIOUS
  <2>1. k + 1 \in 1..Len(fs) /\ k - 1 \in 1..Len(fs) - 1 /\ (k + 1) - 1 = k /\ (k - 1) + 1 = k
    BY <1>2
  <2>2. Awaits(fs[k + 1], fs[k])
    BY <1>1, <2>1
  <2> QED
    BY <1>2, <2>1, <2>2
<1>5. Nested(Tail(fs))
  BY <1>2, <1>3, <1>4 DEF Nested
<1>6. Tail(fs) # <<>> => Head(Tail(fs)) = fs[2] /\ Len(fs) > 1
  BY <1>2
<1>7. Len(fs) > 1 => Awaits(fs[2], fs[1]) /\ Fits(fs[2])
  BY <1>1, <1>2
<1> QED
  BY <1>1, <1>2, <1>5, <1>6, <1>7

LEMMA PushNested ==
  ASSUME NEW fs, Nested(fs), NEW fr, Fits(fr), fs # <<>> => Awaits(Head(fs), fr)
  PROVE  /\ Nested(<<fr>> \o fs) /\ <<fr>> \o fs # <<>> /\ Head(<<fr>> \o fs) = fr
         /\ Len(<<fr>> \o fs) = Len(fs) + 1 /\ (<<fr>> \o fs)[1] = fr
         /\ \A k \in 1..Len(fs) : (<<fr>> \o fs)[k + 1] = fs[k]
<1> DEFINE gs == <<fr>> \o fs
<1>1. /\ fs \in Seq(Frame) /\ \A k \in 1..Len(fs) : Fits(fs[k])
      /\ \A k \in 1..Len(fs) : k > 1 => Awaits(fs[k], fs[k - 1])
      /\ fr \in Frame
  BY DEF Nested, Fits
<1>2. /\ gs \in Seq(Frame) /\ Len(gs) = Len(fs) + 1 /\ Len(fs) \in Nat /\ gs[1] = fr
      /\ \A k \in 1..Len(fs) : gs[k + 1] = fs[k]
  BY <1>1
<1>3. \A k \in 1..Len(gs) : k = 1 \/ (k - 1 \in 1..Len(fs) /\ gs[k] = fs[k - 1])
  <2> SUFFICES ASSUME NEW k \in 1..Len(gs), k # 1
               PROVE  k - 1 \in 1..Len(fs) /\ gs[k] = fs[k - 1]
    OBVIOUS
  <2>1. k - 1 \in 1..Len(fs) /\ (k - 1) + 1 = k
    BY <1>2
  <2> QED
    BY <1>2, <2>1
<1>4. \A k \in 1..Len(gs) : Fits(gs[k])
  BY <1>1, <1>2, <1>3
<1>5. \A k \in 1..Len(gs) : k > 1 => Awaits(gs[k], gs[k - 1])
  <2> SUFFICES ASSUME NEW k \in 1..Len(gs), k > 1 PROVE Awaits(gs[k], gs[k - 1])
    OBVIOUS
  <2>1. CASE k = 2
    <3>1. fs # <<>> /\ Head(fs) = fs[1] /\ gs[2] = fs[1]
      BY <1>1, <1>2, <1>3, <2>1
    <3> QED
      BY <1>2, <2>1, <3>1
  <2>2. CASE k > 2
    <3>1. /\ k - 1 \in 1..Len(fs) /\ k - 1 > 1 /\ k - 1 \in 1..Len(gs) /\ k - 1 # 1
      BY <1>2, <2>2
    <3>2. gs[k] = fs[k - 1] /\ gs[k - 1] = fs[(k - 1) - 1]
      BY <1>3, <2>2, <3>1
    <3> QED
      BY <1>1, <3>1, <3>2
  <2> QED
    BY <1>2, <2>1, <2>2
<1>6. gs # <<>> /\ Head(gs) = fr
  BY <1>2
<1> QED
  BY <1>2, <1>4, <1>5, <1>6 DEF Nested

LEMMA BecomeNested ==
  ASSUME NEW fs, Nested(fs), fs # <<>>, NEW fr, Fits(fr),
         fr.unit = Head(fs).unit, fr.of = Head(fs).of
  PROVE  /\ Nested(<<fr>> \o Tail(fs)) /\ <<fr>> \o Tail(fs) # <<>>
         /\ Head(<<fr>> \o Tail(fs)) = fr
         /\ Len(<<fr>> \o Tail(fs)) = Len(fs) /\ (<<fr>> \o Tail(fs))[1] = fr
         /\ \A k \in 2..Len(fs) : (<<fr>> \o Tail(fs))[k] = fs[k]
<1>1. Nested(Tail(fs)) /\ (Tail(fs) # <<>> => Awaits(Head(Tail(fs)), Head(fs)))
  BY PopNested
<1>2. Tail(fs) # <<>> => Awaits(Head(Tail(fs)), fr)
  BY <1>1 DEF Awaits
<1> DEFINE gs == <<fr>> \o Tail(fs)
<1>3. /\ Nested(gs) /\ gs # <<>> /\ Head(gs) = fr /\ gs[1] = fr
      /\ Len(gs) = Len(Tail(fs)) + 1 /\ \A k \in 1..Len(Tail(fs)) : gs[k + 1] = Tail(fs)[k]
  <2> DEFINE ts == Tail(fs)
  <2>1. Nested(ts) /\ (ts # <<>> => Awaits(Head(ts), fr)) /\ Fits(fr)
    BY <1>1, <1>2
  <2> HIDE DEF ts
  <2>2. /\ Nested(<<fr>> \o ts) /\ <<fr>> \o ts # <<>> /\ Head(<<fr>> \o ts) = fr
        /\ Len(<<fr>> \o ts) = Len(ts) + 1 /\ (<<fr>> \o ts)[1] = fr
        /\ \A k \in 1..Len(ts) : (<<fr>> \o ts)[k + 1] = ts[k]
    BY <2>1, PushNested
  <2> QED
    BY <2>2 DEF ts
<1>4. /\ Len(Tail(fs)) = Len(fs) - 1 /\ Len(fs) \in Nat \ {0}
      /\ \A k \in 1..Len(fs) - 1 : Tail(fs)[k] = fs[k + 1]
  BY PopNested
<1>5. \A k \in 2..Len(fs) : gs[k] = fs[k]
  <2> SUFFICES ASSUME NEW k \in 2..Len(fs) PROVE gs[k] = fs[k]
    OBVIOUS
  <2>1. k - 1 \in 1..Len(fs) - 1 /\ (k - 1) + 1 = k
    BY <1>4
  <2> QED
    BY <1>3, <1>4, <2>1
<1> QED
  BY <1>3, <1>4, <1>5

(* The last of a set of positions.                                         *)
LEMMA LastIsLast ==
  ASSUME NEW n \in Nat, NEW S \in SUBSET (1..n)
  PROVE  Last(S) \in S \union {0} /\ \A j \in S : j <= Last(S)
<1> DEFINE T == {n - i : i \in S}
<1>1. CASE S = {}
  <2>1. \E i \in S \union {0} : \A j \in S : j <= i
    BY <1>1
  <2> QED
    BY <2>1 DEF Last
<1>2. CASE S # {}
  <2>0. \A i \in S : n - i \in Nat
    OBVIOUS
  <2>1. T \subseteq Nat /\ T # {}
    BY <1>2, <2>0
  <2>2. PICK t \in T : \A u \in T : ~(<<u, t>> \in OpToRel(<, Nat))
    BY <2>1, NatLessThanWellFounded, WFMin
  <2>3. \A u \in T : ~(u < t)
    BY <2>1, <2>2 DEF OpToRel
  <2>4. PICK i \in S : t = n - i
    BY <2>2
  <2>5. \A j \in S : j <= i
    <3> SUFFICES ASSUME NEW j \in S PROVE j <= i
      OBVIOUS
    <3>1. n - j \in T
      OBVIOUS
    <3>2. i \in Int /\ j \in Int
      OBVIOUS
    <3>3. ~(n - j < n - i)
      BY <2>3, <2>4, <3>1
    <3> QED
      BY <3>2, <3>3
  <2>6. \E k \in S \union {0} : \A j \in S : j <= k
    BY <2>5
  <2> QED
    BY <2>6 DEF Last
<1> QED
  BY <1>1, <1>2

-----------------------------------------------------------------------------
(* The frames the actions make.                                            *)
LEMMA MethodsAreNames ==
  ASSUME NEW c \in Class
  PROVE  /\ Methods(c) \subseteq Name /\ MethodsOf[c] \in Seq(Methods(c))
         /\ \A f \in Methods(c) : OwnersOf(f) = {c}
<1>1. MethodsOf[c] \in Seq(Name)
  BY RecoveryAssumption
<1>2. Methods(c) = {MethodsOf[c][k] : k \in 1..Len(MethodsOf[c])}
  BY <1>1 DEF Methods, Range
<1>3. Methods(c) \subseteq Name /\ MethodsOf[c] \in Seq(Methods(c))
  BY <1>1, <1>2
<1>4. \A f \in Methods(c) : OwnersOf(f) = {c}
  BY <1>3, RecoveryAssumption DEF OwnersOf, Methods
<1> QED
  BY <1>3, <1>4

LEMMA NewFramesFit ==
  /\ \A f \in Name, d \in BOOLEAN : Fits(Function(f, d))
  /\ \A c \in Class : Fits(Record(c))
  /\ \A d \in Declaration : Fits(FrameOf(d))
<1>1. \A f \in Name, d \in BOOLEAN : Fits(Function(f, d))
  <2> SUFFICES ASSUME NEW f \in Name, NEW d \in BOOLEAN PROVE Fits(Function(f, d))
    OBVIOUS
  <2>1. SignatureOf[f] \in Seq(Class) /\ SignatureOf[f] \in Seq(Name \union Class)
    BY RecoveryAssumption
  <2> QED
    BY <2>1 DEF Fits, Function, Frame
<1>2. \A c \in Class : Fits(Record(c))
  <2> SUFFICES ASSUME NEW c \in Class PROVE Fits(Record(c))
    OBVIOUS
  <2>1. FieldsOf[c] \in Seq(Class) /\ FieldsOf[c] \in Seq(Name \union Class)
    BY RecoveryAssumption
  <2> QED
    BY <2>1 DEF Fits, Record, Frame
<1>3. \A d \in Declaration : Fits(FrameOf(d))
  <2> SUFFICES ASSUME NEW d \in Declaration PROVE Fits(FrameOf(d))
    OBVIOUS
  <2>1. CASE d.kind = "function"
    BY <1>1, <2>1 DEF Declaration, FrameOf
  <2>2. CASE d.kind = "functions"
    <3>0. d.names \in Seq(Name) /\ d.symbol \in Template
      BY <2>2 DEF Declaration
    <3>1. d.names \in Seq(Name) /\ d.names \in Seq(Name \union Class) /\ d.symbol \in Template
      BY <3>0
    <3> QED
      BY <2>2, <3>1 DEF Fits, FrameOf, Items, Frame
  <2>3. CASE d.kind = "classes"
    <3>0. d.names \in Seq(Class) /\ d.symbol \in Template \union Class
      BY <2>3 DEF Declaration
    <3>1. /\ d.names \in Seq(Class) /\ d.names \in Seq(Name \union Class)
          /\ d.symbol \in Template \union Class
      BY <3>0
    <3> QED
      BY <2>3, <3>1 DEF Fits, FrameOf, Items, Frame
  <2> QED
    BY <2>1, <2>2, <2>3 DEF Declaration
<1> QED
  BY <1>1, <1>2, <1>3

LEMMA StackPush ==
  ASSUME StackInv, Active', NEW fr, Fits(fr), Push(fr), frames # <<>> => Awaits(Top, fr)
  PROVE  StackInv'
<1>1. Nested(frames') /\ frames' # <<>> /\ reply' = "none"
  BY PushNested DEF StackInv, Push, Top
<1> QED
  BY <1>1 DEF StackInv

LEMMA StackBecome ==
  ASSUME StackInv, Active', frames # <<>>, NEW fr, Fits(fr), Become(fr),
         fr.unit = Top.unit, fr.of = Top.of
  PROVE  StackInv'
<1>1. Nested(frames') /\ frames' # <<>> /\ reply' = "none"
  BY BecomeNested DEF StackInv, Become, Top
<1> QED
  BY <1>1 DEF StackInv

LEMMA StackReturn ==
  ASSUME StackInv, Active', frames # <<>>, NEW r, Return(r)
  PROVE  StackInv'
<1>1. /\ Nested(Tail(frames))
      /\ Tail(frames) # <<>> => Awaits(Head(Tail(frames)), Head(frames))
  BY PopNested DEF StackInv
<1> QED
  BY <1>1 DEF StackInv, Return, Top, Awaits

(* The frames that drop the head of what is left, or move on.               *)
LEMMA AdvanceFits ==
  ASSUME NEW fr, Fits(fr), fr.left # <<>>
  PROVE  /\ Fits([fr EXCEPT !.left = Tail(fr.left)])
         /\ [fr EXCEPT !.left = Tail(fr.left)].unit = fr.unit
         /\ [fr EXCEPT !.left = Tail(fr.left)].of = fr.of
         /\ [fr EXCEPT !.left = Tail(fr.left)].phase = fr.phase
<1>1. fr \in Frame
  BY DEF Fits
<1>2. \A S : fr.left \in Seq(S) => Tail(fr.left) \in Seq(S)
  OBVIOUS
<1>3. [fr EXCEPT !.left = Tail(fr.left)] \in Frame
  BY <1>1, <1>2 DEF Frame
<1> QED
  BY <1>1, <1>2, <1>3 DEF Fits, Frame

LEMMA ClassPassFits ==
  ASSUME NEW fr, Fits(fr), fr.unit = "class", NEW p \in {"signatures", "bodies"}
  PROVE  /\ Fits([fr EXCEPT !.phase = p, !.left = MethodsOf[fr.of]])
         /\ [fr EXCEPT !.phase = p, !.left = MethodsOf[fr.of]].unit = "class"
         /\ [fr EXCEPT !.phase = p, !.left = MethodsOf[fr.of]].of = fr.of
<1>1. fr \in Frame /\ fr.of \in Class
  BY DEF Fits
<1>2. MethodsOf[fr.of] \in Seq(Methods(fr.of)) /\ MethodsOf[fr.of] \in Seq(Name \union Class)
  BY <1>1, MethodsAreNames
<1>3. [fr EXCEPT !.phase = p, !.left = MethodsOf[fr.of]] \in Frame
  BY <1>1, <1>2 DEF Frame
<1> QED
  BY <1>1, <1>2, <1>3 DEF Fits, Frame

LEMMA TopFits ==
  ASSUME StackInv, frames # <<>>
  PROVE  Fits(Top) /\ Active
BY PopNested DEF StackInv, Top

LEMMA StackInit == RecoveryTypes /\ Init => StackInv
<1> SUFFICES ASSUME Init PROVE StackInv
  OBVIOUS
<1>1. frames = <<>> /\ reply = "none" /\ step = "walk" /\ Len(frames) = 0
  BY DEF Init
<1> QED
  BY <1>1 DEF StackInv, Nested, Active

LEMMA StackStep ==
  ASSUME RecoveryTypes, StackInv, [Next]_vars
  PROVE  StackInv'
<1>1. CASE UNCHANGED vars
  BY <1>1 DEF vars, StackInv, Active, Top, walk
<1>2. ASSUME step' = step, frames # <<>> PROVE Active' /\ Active /\ Fits(Top)
  BY <1>2, TopFits DEF Active
<1>3. CASE Begin
  <2>1. frames = <<>> /\ Active'
    BY <1>3 DEF Begin, StackInv, Active
  <2>2. CASE Declared.symbol \in refused
    <3>1. frames' = <<>> /\ reply' = "failed"
      BY <1>3, <2>1, <2>2 DEF Begin
    <3> QED
      BY <2>1, <3>1 DEF StackInv, Nested, Active
  <2>3. CASE Declared.symbol \notin refused
    <3>1. Declared \in Declaration
      BY <1>3, ProgramAssumption DEF Begin, RecoveryTypes, Declared
    <3>2. Push(FrameOf(Declared))
      BY <1>3, <2>3 DEF Begin
    <3> QED
      BY <2>1, <3>1, <3>2, NewFramesFit, StackPush
  <2> QED
    BY <2>2, <2>3
<1>4. CASE Accept \/ Reject \/ FinishRetry \/ Finalize
  <2>1. frames = <<>> /\ frames' = <<>> /\ reply' = "none"
    BY <1>4 DEF Accept, Reject, FinishRetry, Finalize, Next1, StackInv, Active
  <2> QED
    BY <2>1 DEF StackInv, Nested, Active
<1>5. CASE Retry
  <2>1. frames = <<>> /\ Active' /\ Push(FrameOf(Declared))
    BY <1>5 DEF Retry, StackInv, Active
  <2>2. Declared \in Declaration
    BY <1>5, ProgramAssumption DEF Retry, RecoveryTypes, Declared
  <2> QED
    BY <2>1, <2>2, NewFramesFit, StackPush
<1>6. CASE Demand
  <2>1. frames # <<>> /\ Top.left # <<>> /\ Demands(Top) /\ reply = "none"
    BY <1>6 DEF Demand, At, Demands
  <2>2. Active' /\ Active /\ Fits(Top)
    BY <1>2, <1>6, <2>1 DEF Demand, walk
  <2>3. Head(Top.left) \in Class /\ Top.phase # "body"
    BY <2>1, <2>2 DEF Demands, Fits
  <2>4. CASE Head(Top.left) \in imported
    <3>1. frames' = frames
      BY <1>6, <2>4 DEF Demand
    <3> QED
      BY <2>1, <2>2, <2>3, <3>1 DEF StackInv, Top
  <2>5. CASE Head(Top.left) \notin imported
    <3>1. Push(Record(Head(Top.left)))
      BY <1>6, <2>5 DEF Demand
    <3>2. Awaits(Top, Record(Head(Top.left)))
      BY <2>1, <2>3 DEF Awaits, Demands, Imports, Record
    <3> QED
      BY <2>2, <2>3, <3>1, <3>2, NewFramesFit, StackPush
  <2> QED
    BY <2>4, <2>5
<1>7. CASE Advance
  <2>1. frames # <<>> /\ Top.left # <<>> /\ Become([Top EXCEPT !.left = Tail(Top.left)])
    BY <1>7 DEF Advance, StackInv
  <2>2. Active' /\ Fits(Top)
    BY <1>2, <1>7, <2>1 DEF Advance, walk
  <2> QED
    BY <2>1, <2>2, AdvanceFits, StackBecome
<1>8. CASE RejectSignature \/ RejectClass \/ RejectItems \/ EndItems
  <2>1. frames # <<>> /\ \E r : Return(r)
    BY <1>8 DEF RejectSignature, RejectClass, RejectItems, EndItems, At
  <2>2. Active'
    BY <1>2, <1>8, <2>1 DEF RejectSignature, RejectClass, RejectItems, EndItems, walk
  <2> QED
    BY <2>1, <2>2, StackReturn
<1>9. CASE Reconcile
  <2>1. frames # <<>> /\ \E r : Return(r)
    BY <1>9 DEF Reconcile, Signed, At
  <2>2. Active'
    BY <1>2, <1>9, <2>1 DEF Reconcile, walk
  <2> QED
    BY <2>1, <2>2, StackReturn
<1>10. CASE Register
  <2>1. frames # <<>> /\ Top.unit = "function"
    BY <1>10 DEF Register, Signed, At
  <2>2. Active' /\ Fits(Top)
    BY <1>2, <1>10, <2>1 DEF Register, walk
  <2> DEFINE fr == [Top EXCEPT !.phase = "body", !.left = CallsOf[Top.of]]
  <2>3. Become(fr) \/ Return("ok")
    BY <1>10 DEF Register
  <2>4. Fits(fr) /\ fr.unit = Top.unit /\ fr.of = Top.of
    <3>1. Top \in Frame /\ Top.of \in Name
      BY <2>1, <2>2 DEF Fits
    <3>2. CallsOf[Top.of] \in Seq(Name) /\ CallsOf[Top.of] \in Seq(Name \union Class)
      BY <3>1, RecoveryAssumption
    <3>3. fr \in Frame
      BY <3>1, <3>2 DEF Frame
    <3> QED
      BY <2>1, <3>1, <3>2, <3>3 DEF Fits, Frame
  <2> QED
    BY <2>1, <2>2, <2>3, <2>4, StackBecome, StackReturn
<1>11. CASE Call
  <2>1. frames # <<>> /\ Top.left # <<>>
    BY <1>11 DEF Call, At
  <2>2. Active' /\ Fits(Top)
    BY <1>2, <1>11, <2>1 DEF Call, walk
  <2>3. Become([Top EXCEPT !.left = Tail(Top.left)]) \/ Return("failed")
    BY <1>11 DEF Call
  <2> QED
    BY <2>1, <2>2, <2>3, AdvanceFits, StackBecome, StackReturn
<1>12. CASE EndBody
  <2>1. frames # <<>> /\ \E r : Return(r)
    BY <1>12 DEF EndBody, At
  <2>2. Active'
    BY <1>2, <1>12, <2>1 DEF EndBody, walk
  <2> QED
    BY <2>1, <2>2, StackReturn
<1>13. CASE Define \/ EndPass
  <2>1. frames # <<>> /\ Top.unit = "class"
    BY <1>13 DEF Define, EndPass, At
  <2>2. Active' /\ Fits(Top)
    BY <1>2, <1>13, <2>1 DEF Define, EndPass, walk
  <2>3. \/ Become([Top EXCEPT !.phase = "signatures", !.left = MethodsOf[Top.of]])
        \/ Become([Top EXCEPT !.phase = "bodies", !.left = MethodsOf[Top.of]])
        \/ Return("ok")
    BY <1>13 DEF Define, EndPass
  <2> QED
    BY <2>1, <2>2, <2>3, ClassPassFits, StackBecome, StackReturn
<1>14. CASE ImportMethod
  <2>1. frames # <<>> /\ Top.left # <<>> /\ Imports(Top)
    BY <1>14 DEF ImportMethod, At, Imports
  <2>2. Active' /\ Fits(Top)
    BY <1>2, <1>14, <2>1 DEF ImportMethod, walk
  <2> DEFINE m == Head(Top.left)
  <2>3. CASE m \in omitted
    <3>1. Become([Top EXCEPT !.left = Tail(Top.left)])
      BY <1>14, <2>3 DEF ImportMethod
    <3> QED
      BY <2>1, <2>2, <3>1, AdvanceFits, StackBecome
  <2>4. CASE m \notin omitted
    <3>1. PICK d \in BOOLEAN : Push(Function(m, d))
      BY <1>14, <2>4 DEF ImportMethod
    <3>2. m \in Name
      BY <2>1, <2>2, MethodsAreNames DEF Fits, Imports
    <3>3. Awaits(Top, Function(m, d))
      BY <2>1 DEF Awaits, Demands, Imports, Function
    <3> QED
      BY <2>2, <3>1, <3>2, <3>3, NewFramesFit, StackPush
  <2> QED
    BY <2>3, <2>4
<1>15. CASE Omit
  <2>1. /\ frames # <<>> /\ Top.unit = "class"
        /\ Become([Top EXCEPT !.phase = "signatures", !.left = MethodsOf[Top.of]])
    BY <1>15 DEF Omit
  <2>2. Active' /\ Fits(Top)
    BY <1>2, <1>15, <2>1 DEF Omit, walk
  <2> QED
    BY <2>1, <2>2, ClassPassFits, StackBecome
<1>16. CASE ImportSpecialization
  <2>1. /\ frames # <<>> /\ Top.left # <<>> /\ Top.unit = "functions"
        /\ Push(Function(Head(Top.left), TRUE))
    BY <1>16 DEF ImportSpecialization, At
  <2>2. Active' /\ Fits(Top)
    BY <1>2, <1>16, <2>1 DEF ImportSpecialization, walk
  <2>3. Head(Top.left) \in Name /\ Top.phase = "items"
    BY <2>1, <2>2 DEF Fits
  <2>4. Awaits(Top, Function(Head(Top.left), TRUE))
    BY <2>1, <2>3 DEF Awaits, Demands, Imports, Function
  <2> QED
    BY <2>1, <2>2, <2>3, <2>4, NewFramesFit, StackPush
<1> QED
  BY <1>1, <1>3, <1>4, <1>5, <1>6, <1>7, <1>8, <1>9, <1>10, <1>11, <1>12, <1>13, <1>14,
     <1>15, <1>16 DEF Next

-----------------------------------------------------------------------------
(* The module after a new operation, and without some.                     *)
LEMMA NewOps ==
  /\ \A f \in Name, b \in Body \ {"struct"} : IsOp(Op(f, b))
  /\ \A c \in Class : IsOp(Op(c, "struct"))
BY RecoveryAssumption DEF IsOp, Op, Body

LEMMA WithTypes ==
  ASSUME RecoveryTypes, NEW op, IsOp(op)
  PROVE  /\ DOMAIN With(module, op) = DOMAIN module \union {born + 1}
         /\ DOMAIN With(module, op) \subseteq 1..(born + 1)
         /\ With(module, op)[born + 1] = op
         /\ \A i \in DOMAIN module : With(module, op)[i] = module[i] /\ i <= born /\ i # 0
         /\ \A i \in DOMAIN With(module, op) : IsOp(With(module, op)[i])
BY DEF RecoveryTypes, With

LEMMA RestrictTypes ==
  ASSUME NEW m, NEW S \in SUBSET DOMAIN m
  PROVE  DOMAIN Restrict(m, S) = S /\ \A i \in S : Restrict(m, S)[i] = m[i]
BY DEF Restrict

LEMMA TableTypes ==
  ASSUME RecoveryTypes, step \notin {"done", "error"}, TableInv
  PROVE  Table \in [Name -> Body \union {"absent"}]
<1>1. \A f \in Name : functions[f] # 0 => module[functions[f]].body \in Body
  BY DEF RecoveryTypes, TableInv, FunctionOps, IsOp
<1> QED
  BY <1>1 DEF Table

LEMMA AnchorTypes ==
  ASSUME RecoveryTypes, NEW S, AnchorInv, Active
  PROVE  /\ AnchorWithout(S) \in Nat /\ AnchorWithout(S) <= checkpoint.anchor
         /\ AnchorWithout(S) \in (DOMAIN module \ S) \union {0}
         /\ \A i \in DOMAIN module \ S : i <= checkpoint.anchor => i <= AnchorWithout(S)
<1> DEFINE T == {i \in DOMAIN module \ S : i < checkpoint.anchor}
<1>1. /\ checkpoint.anchor \in Nat /\ T \in SUBSET (1..born) /\ born \in Nat
      /\ \A i \in DOMAIN module : i \in Nat
  BY DEF RecoveryTypes
<1>2. Last(T) \in T \union {0} /\ \A j \in T : j <= Last(T)
  BY <1>1, LastIsLast
<1>3. CASE checkpoint.anchor \in S
  <2>1. AnchorWithout(S) = Last(T)
    BY <1>3 DEF AnchorWithout
  <2> QED
    BY <1>1, <1>2, <1>3, <2>1
<1>4. CASE checkpoint.anchor \notin S
  <2>1. AnchorWithout(S) = checkpoint.anchor
    BY <1>4 DEF AnchorWithout
  <2> QED
    BY <1>1, <1>4, <2>1 DEF AnchorInv
<1> QED
  BY <1>3, <1>4

LEMMA MarkTypes ==
  ASSUME RecoveryTypes, step \notin {"done", "error"}, TableInv
  PROVE  /\ Mark \in [anchor : Nat, clones : Seq(Name), start : Nat,
                      before : [Name -> Body \union {"absent"}]]
         /\ Mark.anchor \in DOMAIN module \union {0} /\ Mark.anchor <= born
         /\ Mark.start = born /\ Mark.clones = <<>> /\ Mark.before = Table
         /\ \A i \in DOMAIN module : i <= Mark.anchor
<1>1. DOMAIN module \in SUBSET (1..born) /\ born \in Nat
  BY DEF RecoveryTypes
<1>2. Last(DOMAIN module) \in DOMAIN module \union {0} /\ \A i \in DOMAIN module : i <= Last(DOMAIN module)
  BY <1>1, LastIsLast
<1>3. Table \in [Name -> Body \union {"absent"}]
  BY TableTypes
<1> QED
  BY <1>1, <1>2, <1>3 DEF Mark

-----------------------------------------------------------------------------
(* What a rollback, an erasure and a registration do.                      *)
LEMMA RollBackEffect ==
  ASSUME RecoveryTypes, RollBack
  PROVE  /\ DOMAIN module' = Remaining \union {born + k : k \in DOMAIN Clones}
         /\ Clones \in Seq(Name) /\ born' = born + Len(Clones) /\ born' \in Nat /\ born <= born'
         /\ \A i \in Remaining : i \in DOMAIN module /\ i \in 1..born /\ module'[i] = module[i]
         /\ \A k \in DOMAIN Clones :
              /\ Clones[k] \in Name /\ k \in 1..Len(Clones)
              /\ module'[born + k] = Op(Clones[k], "prototype")
         /\ functions' \in [Name -> Nat]
         /\ \A f \in Range(Clones) : f \in Name /\ \E k \in DOMAIN Clones :
              Clones[k] = f /\ functions'[f] = born + k
         /\ \A f \in Name \ Range(Clones) :
              functions'[f] = IF functions[f] \in Remaining THEN functions[f] ELSE 0
<1>1. Clones \in Seq(Name) /\ born \in Nat /\ functions \in [Name -> Nat]
  BY DEF RecoveryTypes, Clones
<1>2. \A i \in Remaining : i \in DOMAIN module /\ i \in 1..born
  BY DEF Remaining, RecoveryTypes
<1>3. /\ Len(Clones) \in Nat /\ DOMAIN Clones = 1..Len(Clones)
      /\ \A k \in DOMAIN Clones : Clones[k] \in Name
  BY <1>1
<1>4. /\ DOMAIN module' = Remaining \union {born + k : k \in DOMAIN Clones}
      /\ \A i \in DOMAIN module' :
           module'[i] = IF i <= born THEN module[i] ELSE Op(Clones[i - born], "prototype")
  BY DEF RollBack
<1>5. \A i \in Remaining : module'[i] = module[i]
  BY <1>2, <1>4, <1>1
<1>6. \A k \in DOMAIN Clones : module'[born + k] = Op(Clones[k], "prototype")
  <2> SUFFICES ASSUME NEW k \in DOMAIN Clones
               PROVE  module'[born + k] = Op(Clones[k], "prototype")
    OBVIOUS
  <2>1. born + k \in DOMAIN module' /\ ~(born + k <= born) /\ (born + k) - born = k
    BY <1>1, <1>3, <1>4
  <2> QED
    BY <1>4, <2>1
<1>7. \A f \in Range(Clones) : f \in Name /\ \E k \in DOMAIN Clones : Clones[k] = f
  BY <1>3 DEF Range
<1>8. \A f \in Range(Clones) : \E k \in DOMAIN Clones : Clones[k] = f /\ functions'[f] = born + k
  <2> SUFFICES ASSUME NEW f \in Range(Clones)
               PROVE  \E k \in DOMAIN Clones : Clones[k] = f /\ functions'[f] = born + k
    OBVIOUS
  <2> DEFINE k == CHOOSE k \in DOMAIN Clones : Clones[k] = f
  <2>1. k \in DOMAIN Clones /\ Clones[k] = f
    BY <1>7
  <2>2. functions'[f] = born + k
    BY <1>7 DEF RollBack
  <2> QED
    BY <2>1, <2>2
<1>9. \A f \in Name \ Range(Clones) :
        functions'[f] = IF functions[f] \in Remaining THEN functions[f] ELSE 0
  BY DEF RollBack
<1>10. functions' \in [Name -> Nat]
  <2>1. \A f \in Name : functions'[f] \in Nat
    BY <1>1, <1>3, <1>8, <1>9
  <2>2. functions' = [f \in Name |-> functions'[f]]
    BY DEF RollBack
  <2> QED
    BY <2>1, <2>2
<1>11. born' = born + Len(Clones) /\ born' \in Nat /\ born <= born'
  BY <1>1, <1>3 DEF RollBack
<1> QED
  BY <1>1, <1>2, <1>3, <1>4, <1>5, <1>6, <1>7, <1>8, <1>9, <1>10, <1>11

LEMMA EraseEffect ==
  ASSUME RecoveryTypes, NEW S \in SUBSET Name, NEW X, Erase(S, X)
  PROVE  /\ DOMAIN module' = DOMAIN module \ (Registered(S) \union X)
         /\ \A i \in DOMAIN module' : module'[i] = module[i]
         /\ functions' \in [Name -> Nat]
         /\ \A f \in Name : functions'[f] = IF f \in S THEN 0 ELSE functions[f]
         /\ checkpoint' = [checkpoint EXCEPT !.anchor = AnchorWithout(Registered(S) \union X)]
<1>1. module' = Restrict(module, DOMAIN module \ (Registered(S) \union X))
  BY DEF Erase
<1>2. /\ DOMAIN module' = DOMAIN module \ (Registered(S) \union X)
      /\ \A i \in DOMAIN module' : module'[i] = module[i]
  BY <1>1, RestrictTypes
<1>3. functions \in [Name -> Nat]
  BY DEF RecoveryTypes
<1>4. functions' = [f \in Name |-> IF f \in S THEN 0 ELSE functions[f]]
  BY DEF Erase
<1> QED
  BY <1>2, <1>3, <1>4 DEF Erase

LEMMA RegisterEffect ==
  ASSUME RecoveryTypes, StackInv, Register
  PROVE  LET f == Top.of
             old == functions[f]
         IN /\ frames # <<>> /\ reply = "none" /\ Top.unit = "function" /\ f \in Name /\ ~Unowned(f)
            /\ old \in Nat /\ (old # 0 => module[old].body = "prototype")
            /\ DOMAIN module' = (DOMAIN module \ {old}) \union {born + 1} /\ born' = born + 1
            /\ \A i \in DOMAIN module \ {old} : module'[i] = module[i] /\ i \in 1..born
            /\ \E b \in {"stub", "open", "prototype"} : module'[born + 1] = Op(f, b)
            /\ module'[born + 1].body = "open" =>
                 Become([Top EXCEPT !.phase = "body", !.left = CallsOf[f]])
            /\ module'[born + 1].body # "open" => Return("ok")
            /\ functions' = [functions EXCEPT ![f] = born + 1]
            /\ checkpoint' = [checkpoint EXCEPT
                 !.clones = IF old # 0 /\ old <= checkpoint.anchor THEN Append(@, f) ELSE @,
                 !.anchor = AnchorWithout({old} \ {0})]
<1> DEFINE f == Top.of
           old == functions[f]
           body == IF stub.only THEN "stub" ELSE IF Top.defines THEN "open" ELSE "prototype"
<1>1. frames # <<>> /\ reply = "none" /\ Top.unit = "function" /\ ~Unowned(f)
  BY DEF Register, Signed, At
<1>2. f \in Name
  BY <1>1, TopFits DEF Fits
<1>3. old \in Nat /\ (old # 0 => module[old].body = "prototype") /\ born \in Nat
  BY <1>2 DEF RecoveryTypes, Register
<1>4. IsOp(Op(f, body)) /\ Op(f, body).body = body
  BY <1>2, NewOps DEF Body, Op
<1>5. module' = Restrict(With(module, Op(f, body)), (DOMAIN module \ {old}) \union {born + 1})
  BY DEF Register
<1>6. (DOMAIN module \ {old}) \union {born + 1} \in SUBSET DOMAIN With(module, Op(f, body))
  BY <1>4, WithTypes
<1>7. /\ DOMAIN module' = (DOMAIN module \ {old}) \union {born + 1}
      /\ \A i \in DOMAIN module' : module'[i] = With(module, Op(f, body))[i]
  BY <1>5, <1>6, RestrictTypes
<1>8. /\ \A i \in DOMAIN module \ {old} : module'[i] = module[i] /\ i \in 1..born
      /\ module'[born + 1] = Op(f, body)
  BY <1>3, <1>4, <1>7, WithTypes DEF RecoveryTypes
<1>9. /\ body = "open" => Become([Top EXCEPT !.phase = "body", !.left = CallsOf[f]])
      /\ body # "open" => Return("ok")
  BY DEF Register
<1>10. checkpoint' = [checkpoint EXCEPT
          !.clones = IF old # 0 /\ old <= checkpoint.anchor THEN Append(@, f) ELSE @,
          !.anchor = AnchorWithout({old} \ {0})]
  BY DEF Register, Predates
<1>11. functions' = [functions EXCEPT ![f] = born + 1] /\ born' = born + 1
  BY DEF Register
<1>12. \E b \in {"stub", "open", "prototype"} : module'[born + 1] = Op(f, b)
  BY <1>8
<1>13. module'[born + 1].body = body
  BY <1>4, <1>8
<1> QED
  BY <1>1, <1>2, <1>3, <1>7, <1>8, <1>9, <1>10, <1>11, <1>12, <1>13

-----------------------------------------------------------------------------
(* What a step does to the module, whichever action it is.                 *)
Live == step \notin {"done", "error"}

Quiet ==
  /\ Live /\ Live' /\ (Active' => Active)
  /\ UNCHANGED <<module, born, functions, checkpoint>>

Marks ==
  /\ Live /\ ~Active /\ frames = <<>> /\ Active'
  /\ checkpoint' = Mark
  /\ UNCHANGED <<module, born, functions>>

Undoes ==
  /\ Active /\ frames = <<>> /\ Live' /\ ~Active'
  /\ RollBack
  /\ UNCHANGED checkpoint

Writes ==
  /\ Active /\ step' = step /\ UNCHANGED <<born, functions, checkpoint>>
  /\ LET i == functions[Top.of] IN
     /\ i \in DOMAIN module /\ i > checkpoint.start
     /\ module[i].symbol = Top.of /\ module[i].body = "open"
     /\ \E op : /\ IsOp(op) /\ op.symbol = Top.of
                /\ \/ op.body = "open" /\ reply' = "none"
                      /\ frames # <<>> /\ Top.unit = "function" /\ Top.phase = "body"
                      /\ Become([Top EXCEPT !.left = Tail(Top.left)])
                   \/ op.body = "real"
                /\ module' = [module EXCEPT ![i] = op]

Defines ==
  /\ Active /\ step' = step /\ UNCHANGED <<functions, checkpoint>>
  /\ born' = born + 1
  /\ \E c \in Class : module' = With(module, Op(c, "struct"))

Erases ==
  /\ Active /\ step' = step /\ UNCHANGED born
  /\ frames # <<>> /\ Top.unit = "class" /\ Top.of \in Class
  /\ \E X \in {{}, StructsOf(Top.of)} : Erase(Methods(Top.of), X)

LEMMA OpenIsNamed ==
  ASSUME RecoveryTypes, StackInv, TableInv, OpenInv, At("function", "body")
  PROVE  LET i == functions[Top.of] IN
         /\ Top.of \in Name /\ Active /\ i \in DOMAIN module /\ i > checkpoint.start
         /\ module[i].symbol = Top.of /\ module[i].body = "open" /\ IsOp(module[i])
<1>1. frames # <<>> /\ Top.unit = "function" /\ Top.phase = "body"
  BY DEF At
<1>2. Top.of \in Name /\ Active
  BY <1>1, TopFits DEF Fits
<1>3. /\ functions[Top.of] # 0 /\ functions[Top.of] > checkpoint.start
      /\ module[functions[Top.of]].body = "open"
  BY <1>1 DEF OpenInv
<1>4. functions[Top.of] \in FunctionOps /\ module[functions[Top.of]].symbol = Top.of
  BY <1>2, <1>3 DEF TableInv, Active
<1> QED
  BY <1>2, <1>3, <1>4 DEF FunctionOps, RecoveryTypes

LEMMA CallWrites ==
  ASSUME RecoveryTypes, StackInv, TableInv, OpenInv, Call \/ EndBody
  PROVE  Quiet \/ Writes
<1> DEFINE i == functions[Top.of]
<1>1. At("function", "body") /\ frames # <<>> /\ reply = "none" /\ Top.unit = "function"
      /\ Top.phase = "body"
  BY DEF Call, EndBody, At
<1>2. /\ Top.of \in Name /\ Active /\ i \in DOMAIN module /\ i > checkpoint.start
      /\ module[i].symbol = Top.of /\ module[i].body = "open" /\ IsOp(module[i])
  BY <1>1, OpenIsNamed
<1>3. step' = step /\ UNCHANGED <<born, functions, checkpoint>>
  BY DEF Call, EndBody, walk
<1>4. CASE UNCHANGED module
  BY <1>2, <1>3, <1>4 DEF Quiet, Live, Active
<1>5. CASE Call /\ functions[Head(Top.left)] # 0
  <2> DEFINE op == [module[i] EXCEPT !.calls = @ \union {Head(Top.left)}]
  <2>1. module' = [module EXCEPT ![i] = op] /\ Become([Top EXCEPT !.left = Tail(Top.left)])
    BY <1>5 DEF Call
  <2>2. Fits(Top) /\ Top.left # <<>>
    BY <1>1, <1>5, TopFits DEF Call
  <2>3. Top.left \in Seq(Name)
    BY <1>1, <2>2 DEF Fits
  <2>4. Head(Top.left) \in Name
    BY <2>2, <2>3
  <2>5. IsOp(op) /\ op.symbol = Top.of /\ op.body = "open"
    BY <1>2, <2>4 DEF IsOp
  <2>6. reply' = "none"
    BY <2>1 DEF Become
  <2> QED
    BY <1>1, <1>2, <1>3, <2>1, <2>5, <2>6 DEF Writes
<1>6. CASE EndBody /\ <<Top.of, "body">> \notin faults
  <2> DEFINE op == [module[i] EXCEPT !.body = "real"]
  <2>1. module' = [module EXCEPT ![i] = op]
    BY <1>6 DEF EndBody
  <2>2. IsOp(op) /\ op.symbol = Top.of /\ op.body = "real"
    BY <1>2 DEF IsOp, Body
  <2> QED
    BY <1>2, <1>3, <2>1, <2>2 DEF Writes
<1> QED
  BY <1>4, <1>5, <1>6 DEF Call, EndBody

LEMMA Effects ==
  ASSUME RecoveryTypes, StackInv, TableInv, OpenInv, Next
  PROVE  \/ Quiet \/ Marks \/ Undoes \/ Defines \/ Erases \/ Register \/ Finalize
         \/ Writes /\ (Call \/ EndBody)
<1>1. frames # <<>> => Active /\ Fits(Top)
  BY TopFits
<1>2. CASE Begin \/ Retry
  <2>1. frames = <<>> /\ ~Active
    BY <1>1, <1>2 DEF Begin, Retry, Active
  <2> QED
    BY <1>2, <2>1 DEF Begin, Retry, Marks, Active, Live
<1>3. CASE Accept
  BY <1>3 DEF Accept, Next1, Quiet, Live, Active
<1>4. CASE Reject
  BY <1>4 DEF Reject, Next1, Undoes, Live, Active
<1>5. CASE FinishRetry
  <2>1. step = "retry" /\ step' = "walk" /\ frames = <<>> /\ UNCHANGED checkpoint
    BY <1>5 DEF FinishRetry, Next1
  <2>2. RollBack \/ UNCHANGED <<module, born, functions>>
    BY <1>5 DEF FinishRetry
  <2> QED
    BY <2>1, <2>2 DEF Quiet, Undoes, Live, Active
<1>6. CASE Demand \/ Advance \/ RejectSignature \/ Reconcile \/ ImportMethod \/ EndPass
             \/ ImportSpecialization \/ EndItems \/ RejectItems
  <2>1. frames # <<>> /\ UNCHANGED <<module, born, functions, checkpoint>> /\ step' = step
    BY <1>6 DEF Demand, Advance, RejectSignature, Reconcile, ImportMethod, EndPass,
       ImportSpecialization, EndItems, RejectItems, At, Signed, walk
  <2> QED
    BY <1>1, <2>1 DEF Quiet, Live, Active
<1>7. CASE Call \/ EndBody
  BY <1>7, CallWrites
<1>8. CASE Define
  <2>1. frames # <<>> /\ Top.unit = "class" /\ step' = step
    BY <1>8 DEF Define, At, walk
  <2>2. Active /\ Top.of \in Class
    BY <1>1, <2>1 DEF Fits
  <2> QED
    BY <1>8, <2>1, <2>2 DEF Define, Defines
<1>9. CASE Omit \/ RejectClass
  <2>1. frames # <<>> /\ Top.unit = "class" /\ step' = step /\ UNCHANGED born
    BY <1>9 DEF Omit, RejectClass, walk
  <2>2. Active /\ Top.of \in Class
    BY <1>1, <2>1 DEF Fits
  <2>3. \/ UNCHANGED <<module, functions, checkpoint>>
        \/ Erase(Methods(Top.of), {}) \/ Erase(Methods(Top.of), StructsOf(Top.of))
    BY <1>9 DEF Omit, RejectClass
  <2> QED
    BY <2>1, <2>2, <2>3 DEF Quiet, Erases, Live, Active
<1> QED
  BY <1>2, <1>3, <1>4, <1>5, <1>6, <1>7, <1>8, <1>9 DEF Next

-----------------------------------------------------------------------------
(* Types.                                                                  *)
ControlTypes ==
  /\ program \in Programs /\ imported \subseteq Class
  /\ stub \in [only : BOOLEAN, symbol : SUBSET Name]
  /\ reply \in {"none", "ok", "failed"}
  /\ step \in {"walk", "import", "undone", "retry", "done", "error"}
  /\ item \in Nat \ {0} /\ (Active \/ step = "undone" => item \in DOMAIN program)

DataTypes ==
  /\ born \in Nat /\ functions \in [Name -> Nat]
  /\ DOMAIN module \subseteq 1..born /\ \A i \in DOMAIN module : IsOp(module[i])
  /\ checkpoint \in [anchor : Nat, clones : Seq(Name), start : Nat,
                     before : [Name -> Body \union {"absent"}]]

LEMMA TypesSplit == RecoveryTypes <=> ControlTypes /\ DataTypes
BY DEF RecoveryTypes, ControlTypes, DataTypes

LEMMA ControlStep ==
  ASSUME RecoveryTypes, StackInv, Next
  PROVE  ControlTypes'
<1>1. ControlTypes
  BY TypesSplit
<1>2. program' = program
  BY DEF Next, Begin, Accept, Reject, Retry, FinishRetry, Finalize, Demand, Advance,
     RejectSignature, Reconcile, Register, Call, EndBody, Define, ImportMethod, EndPass, Omit,
     RejectClass, ImportSpecialization, EndItems, RejectItems, input
<1>3. frames # <<>> => Fits(Top) /\ Active
  BY TopFits
<1>4. CASE Begin
  <2>1. item \in DOMAIN program /\ UNCHANGED <<imported, stub, item>> /\ step' = "import"
    <3>1. program \in Seq(Declaration) /\ item \in Nat \ {0} /\ item <= Len(program)
      BY <1>1, <1>4, ProgramAssumption DEF Begin, ControlTypes
    <3> QED
      BY <1>4, <3>1 DEF Begin, types
  <2>2. reply' \in {"none", "failed"}
    BY <1>4 DEF Begin, Push
  <2> QED
    BY <1>1, <1>2, <2>1, <2>2 DEF ControlTypes
<1>5. CASE Accept \/ Reject \/ FinishRetry
  <2>1. UNCHANGED imported /\ reply' = "none" /\ stub' \in {stub, NoStub}
    BY <1>5 DEF Accept, Reject, FinishRetry, Next1, types
  <2>2. \/ step' = "walk" /\ item' = item + 1
        \/ step' = "undone" /\ item' = item /\ step = "import"
    BY <1>5 DEF Accept, Reject, FinishRetry, Next1
  <2>3. item' \in Nat \ {0} /\ (step' = "undone" => item' \in DOMAIN program)
    BY <1>1, <2>2 DEF ControlTypes, Active
  <2>4. stub' \in [only : BOOLEAN, symbol : SUBSET Name]
    <3>1. NoStub \in [only : BOOLEAN, symbol : SUBSET Name]
      BY DEF NoStub
    <3> QED
      BY <1>1, <2>1, <3>1 DEF ControlTypes
  <2>5. step' \in {"walk", "undone"} /\ ~Active'
    BY <2>2 DEF Active
  <2> QED
    BY <1>1, <1>2, <2>1, <2>3, <2>4, <2>5 DEF ControlTypes
<1>6. CASE Retry
  BY <1>1, <1>2, <1>6 DEF Retry, ControlTypes, types, Push, Active
<1>7. CASE Finalize
  BY <1>1, <1>2, <1>7 DEF Finalize, ControlTypes, types, Active
<1>8. CASE Demand
  <2>1. imported' \subseteq Class
    <3>1. Demands(Top) /\ Fits(Top) /\ Top.left # <<>>
      BY <1>3, <1>8 DEF Demand, At, Demands
    <3>2. Top.left \in Seq(Class)
      BY <3>1 DEF Demands, Fits
    <3>3. Head(Top.left) \in Class
      BY <3>1, <3>2
    <3> QED
      BY <1>1, <1>8, <3>3 DEF Demand, ControlTypes
  <2>2. reply' \in {"none", "ok", "failed"} /\ UNCHANGED <<stub, step, item>>
    BY <1>8 DEF Demand, Push, walk
  <2> QED
    BY <1>1, <1>2, <2>1, <2>2 DEF ControlTypes, Active
<1>9. CASE Register
  <2>1. Top.of \in Name
    BY <1>3, <1>9 DEF Register, Signed, At, Fits
  <2>2. UNCHANGED <<imported, step, item>> /\ reply' \in {"none", "ok"}
    BY <1>9 DEF Register, types, walk, Become, Return
  <2>3. stub' = (IF stub.only THEN [stub EXCEPT !.symbol = {Top.of}] ELSE stub)
    BY <1>9 DEF Register
  <2>4. stub' \in [only : BOOLEAN, symbol : SUBSET Name]
    BY <1>1, <2>1, <2>3 DEF ControlTypes
  <2> QED
    BY <1>1, <1>2, <2>2, <2>4 DEF ControlTypes, Active
<1>10. CASE Advance \/ RejectSignature \/ Reconcile \/ ImportMethod \/ EndPass
            \/ ImportSpecialization \/ EndItems \/ RejectItems
  <2>1. UNCHANGED <<imported, stub, step, item>>
    BY <1>10 DEF Advance, RejectSignature, Reconcile, ImportMethod, EndPass,
       ImportSpecialization, EndItems, RejectItems, types, walk
  <2>2. reply' \in {"none", "ok", "failed"}
    BY <1>10 DEF Advance, RejectSignature, Reconcile, ImportMethod, EndPass,
       ImportSpecialization, EndItems, RejectItems, Become, Push, Return
  <2> QED
    BY <1>1, <1>2, <2>1, <2>2 DEF ControlTypes, Active
<1>11. CASE Call \/ EndBody \/ Define \/ Omit \/ RejectClass
  <2>1. UNCHANGED <<imported, stub, step, item>>
    BY <1>11 DEF Call, EndBody, Define, Omit, RejectClass, types, walk
  <2>2. reply' \in {"none", "ok", "failed"}
    BY <1>11 DEF Call, EndBody, Define, Omit, RejectClass, Become, Return
  <2> QED
    BY <1>1, <1>2, <2>1, <2>2 DEF ControlTypes, Active
<1> QED
  BY <1>4, <1>5, <1>6, <1>7, <1>8, <1>9, <1>10, <1>11 DEF Next

LEMMA DataStep ==
  ASSUME RecoveryInv, Next
  PROVE  DataTypes'
<1>1. RecoveryTypes /\ StackInv /\ TableInv /\ OpenInv /\ AnchorInv /\ DataTypes
  BY TypesSplit DEF RecoveryInv
<1>2. CASE Quiet
  BY <1>1, <1>2 DEF Quiet, DataTypes
<1>3. CASE Marks
  <2>1. checkpoint' \in [anchor : Nat, clones : Seq(Name), start : Nat,
                         before : [Name -> Body \union {"absent"}]]
    BY <1>1, <1>3, MarkTypes DEF Marks, Live
  <2> QED
    BY <1>1, <1>3, <2>1 DEF Marks, DataTypes
<1>4. CASE Undoes
  <2>1. RollBack /\ checkpoint' = checkpoint
    BY <1>4 DEF Undoes
  <2> HIDE <1>4
  <2>2. /\ born \in Nat /\ born' = born + Len(Clones) /\ Len(Clones) \in Nat
        /\ DOMAIN Clones = 1..Len(Clones)
    BY <1>1, <2>1, RollBackEffect DEF RecoveryTypes
  <2>3. /\ DOMAIN module' = Remaining \union {born + k : k \in DOMAIN Clones}
        /\ \A i \in Remaining : i \in DOMAIN module /\ i \in 1..born /\ module'[i] = module[i]
        /\ \A k \in DOMAIN Clones :
             Clones[k] \in Name /\ module'[born + k] = Op(Clones[k], "prototype")
        /\ functions' \in [Name -> Nat] /\ born' \in Nat
    BY <1>1, <2>1, RollBackEffect
  <2>4. DOMAIN module' \subseteq 1..born'
    BY <2>2, <2>3
  <2>5. \A k \in DOMAIN Clones : IsOp(module'[born + k])
    BY <2>3, NewOps DEF Body
  <2>6. \A i \in DOMAIN module' : IsOp(module'[i])
    BY <1>1, <2>3, <2>5 DEF DataTypes
  <2> QED
    BY <1>1, <2>1, <2>3, <2>4, <2>6 DEF DataTypes
<1>5. CASE Writes
  BY <1>1, <1>5 DEF Writes, DataTypes
<1>6. CASE Defines
  <2>1. PICK c \in Class : module' = With(module, Op(c, "struct"))
    BY <1>6 DEF Defines
  <2>2. IsOp(Op(c, "struct"))
    BY NewOps
  <2>3. DOMAIN module' \subseteq 1..(born + 1) /\ \A i \in DOMAIN module' : IsOp(module'[i])
    BY <1>1, <2>1, <2>2, WithTypes
  <2> QED
    BY <1>1, <1>6, <2>3 DEF Defines, DataTypes
<1>7. CASE Erases
  <2>1. PICK X : Erase(Methods(Top.of), X)
    BY <1>7 DEF Erases
  <2>2. Methods(Top.of) \in SUBSET Name
    BY <1>7, MethodsAreNames DEF Erases
  <2>3. /\ DOMAIN module' \subseteq DOMAIN module /\ \A i \in DOMAIN module' : module'[i] = module[i]
        /\ functions' \in [Name -> Nat]
    BY <1>1, <2>1, <2>2, EraseEffect
  <2>4. checkpoint' = [checkpoint EXCEPT
          !.anchor = AnchorWithout(Registered(Methods(Top.of)) \union X)]
    BY <1>1, <2>1, <2>2, EraseEffect
  <2>5. AnchorWithout(Registered(Methods(Top.of)) \union X) \in Nat
    BY <1>1, <1>7, AnchorTypes DEF Erases
  <2> QED
    BY <1>1, <1>7, <2>3, <2>4, <2>5 DEF Erases, DataTypes
<1>8. CASE Register
  <2> DEFINE f == Top.of
             old == functions[f]
  <2>1. /\ frames # <<>> /\ f \in Name /\ old \in Nat /\ born' = born + 1
        /\ DOMAIN module' = (DOMAIN module \ {old}) \union {born + 1}
        /\ \A i \in DOMAIN module \ {old} : module'[i] = module[i] /\ i \in 1..born
        /\ \E b \in {"stub", "open", "prototype"} : module'[born + 1] = Op(f, b)
        /\ functions' = [functions EXCEPT ![f] = born + 1]
        /\ checkpoint' = [checkpoint EXCEPT
             !.clones = IF old # 0 /\ old <= checkpoint.anchor THEN Append(@, f) ELSE @,
             !.anchor = AnchorWithout({old} \ {0})]
    BY <1>1, <1>8, RegisterEffect
  <2>2. Active
    BY <1>1, <2>1, TopFits
  <2>3. IsOp(module'[born + 1])
    BY <2>1, NewOps DEF Body
  <2>4. DOMAIN module' \subseteq 1..(born + 1) /\ \A i \in DOMAIN module' : IsOp(module'[i])
    BY <1>1, <2>1, <2>3 DEF DataTypes
  <2>5. AnchorWithout({old} \ {0}) \in Nat
    BY <1>1, <2>2, AnchorTypes
  <2>6. Append(checkpoint.clones, f) \in Seq(Name)
    BY <1>1, <2>1 DEF DataTypes
  <2>7. checkpoint' \in [anchor : Nat, clones : Seq(Name), start : Nat,
                         before : [Name -> Body \union {"absent"}]]
    BY <1>1, <2>1, <2>5, <2>6 DEF DataTypes
  <2>8. functions' \in [Name -> Nat] /\ born' \in Nat
    BY <1>1, <2>1 DEF DataTypes
  <2> QED
    BY <2>1, <2>4, <2>7, <2>8 DEF DataTypes
<1>9. CASE Finalize
  <2>1. module' = Restrict(module, DOMAIN module \ Unused)
    BY <1>9 DEF Finalize
  <2>2. DOMAIN module' \subseteq DOMAIN module /\ \A i \in DOMAIN module' : module'[i] = module[i]
    BY <2>1, RestrictTypes
  <2> QED
    BY <1>1, <1>9, <2>2 DEF Finalize, DataTypes
<1> QED
  BY <1>1, <1>2, <1>3, <1>4, <1>5, <1>6, <1>7, <1>8, <1>9, Effects

LEMMA TypesStep ==
  ASSUME RecoveryInv, Next
  PROVE  RecoveryTypes'
<1>1. ControlTypes' /\ DataTypes'
  BY ControlStep, DataStep DEF RecoveryInv
<1> QED
  BY <1>1, TypesSplit DEF RecoveryTypes, ControlTypes, DataTypes

-----------------------------------------------------------------------------
(* The anchor.                                                             *)
LEMMA AnchorStep ==
  ASSUME RecoveryInv, Next
  PROVE  AnchorInv'
<1>1. RecoveryTypes /\ StackInv /\ TableInv /\ OpenInv /\ AnchorInv /\ born \in Nat
      /\ DOMAIN module \subseteq 1..born
  BY DEF RecoveryInv, RecoveryTypes
<1>2. CASE Quiet
  BY <1>1, <1>2 DEF Quiet, AnchorInv
<1>3. CASE Marks
  <2>1. checkpoint' = Mark /\ module' = module /\ born' = born
    BY <1>3 DEF Marks
  <2>2. /\ Mark.anchor \in DOMAIN module \union {0} /\ Mark.anchor <= born /\ Mark.start = born
        /\ \A i \in DOMAIN module : i <= Mark.anchor
    BY <1>1, <1>3, MarkTypes DEF Marks, Live
  <2> QED
    BY <1>1, <2>1, <2>2 DEF AnchorInv
<1>4. CASE Undoes \/ Finalize
  BY <1>4 DEF Undoes, Finalize, AnchorInv, Active
<1>5. CASE Writes
  <2>1. Active /\ DOMAIN module' = DOMAIN module /\ UNCHANGED <<born, checkpoint>>
    BY <1>5 DEF Writes
  <2> QED
    BY <1>1, <2>1 DEF AnchorInv
<1>6. CASE Defines
  <2>1. PICK c \in Class : module' = With(module, Op(c, "struct"))
    BY <1>6 DEF Defines
  <2>2. DOMAIN module' = DOMAIN module \union {born + 1}
    BY <1>1, <2>1, NewOps, WithTypes
  <2>3. Active /\ checkpoint' = checkpoint /\ born' = born + 1
    BY <1>6 DEF Defines
  <2>4. checkpoint.anchor \in Nat /\ checkpoint.start \in Nat
    BY <1>1 DEF RecoveryTypes
  <2> QED
    BY <1>1, <2>2, <2>3, <2>4 DEF AnchorInv
<1>7. ASSUME NEW S, Active, DOMAIN module' = DOMAIN module \ S
             \/ DOMAIN module' = (DOMAIN module \ S) \union {born + 1}, born' \in {born, born + 1},
             checkpoint'.anchor = AnchorWithout(S), checkpoint'.start = checkpoint.start
      PROVE  AnchorInv'
  <2>1. /\ AnchorWithout(S) \in Nat /\ AnchorWithout(S) <= checkpoint.anchor
        /\ AnchorWithout(S) \in (DOMAIN module \ S) \union {0}
        /\ \A i \in DOMAIN module \ S : i <= checkpoint.anchor => i <= AnchorWithout(S)
    BY <1>1, <1>7, AnchorTypes
  <2>2. /\ checkpoint.anchor \in Nat /\ checkpoint.start \in Nat
        /\ checkpoint.anchor <= checkpoint.start /\ checkpoint.start <= born
        /\ \A i \in DOMAIN module : i \in Nat /\ (i <= checkpoint.anchor <=> i <= checkpoint.start)
    BY <1>1, <1>7 DEF AnchorInv, RecoveryTypes
  <2>3. \A i \in DOMAIN module \ S : i <= AnchorWithout(S) <=> i <= checkpoint.start
    BY <2>1, <2>2
  <2>4. ~(born + 1 <= AnchorWithout(S)) /\ ~(born + 1 <= checkpoint.start)
    BY <1>1, <2>1, <2>2
  <2>5. \A i \in DOMAIN module' : i <= checkpoint'.anchor <=> i <= checkpoint'.start
    BY <1>7, <2>3, <2>4
  <2>6. checkpoint'.anchor \in DOMAIN module' \union {0}
    BY <1>7, <2>1
  <2>7. checkpoint'.anchor <= checkpoint'.start /\ checkpoint'.start <= born'
    BY <1>1, <1>7, <2>1, <2>2
  <2> QED
    BY <2>5, <2>6, <2>7 DEF AnchorInv
<1>8. CASE Erases
  <2>1. PICK X : Erase(Methods(Top.of), X)
    BY <1>8 DEF Erases
  <2>2. Methods(Top.of) \in SUBSET Name /\ Active /\ born' = born
    BY <1>8, MethodsAreNames DEF Erases
  <2>3. /\ DOMAIN module' = DOMAIN module \ (Registered(Methods(Top.of)) \union X)
        /\ checkpoint' = [checkpoint EXCEPT
             !.anchor = AnchorWithout(Registered(Methods(Top.of)) \union X)]
    BY <1>1, <2>1, <2>2, EraseEffect
  <2>4. /\ checkpoint'.anchor = AnchorWithout(Registered(Methods(Top.of)) \union X)
        /\ checkpoint'.start = checkpoint.start
    BY <1>1, <2>3 DEF RecoveryTypes
  <2> QED
    BY <1>7, <2>2, <2>3, <2>4
<1>9. CASE Register
  <2> DEFINE old == functions[Top.of]
  <2>1. /\ frames # <<>> /\ old \in Nat /\ born' = born + 1
        /\ DOMAIN module' = (DOMAIN module \ {old}) \union {born + 1}
        /\ checkpoint' = [checkpoint EXCEPT
             !.clones = IF old # 0 /\ old <= checkpoint.anchor THEN Append(@, Top.of) ELSE @,
             !.anchor = AnchorWithout({old} \ {0})]
    BY <1>1, <1>9, RegisterEffect
  <2>2. Active
    BY <1>1, <2>1, TopFits
  <2>3. checkpoint'.anchor = AnchorWithout({old} \ {0}) /\ checkpoint'.start = checkpoint.start
    BY <1>1, <2>1 DEF RecoveryTypes
  <2>4. DOMAIN module \ {old} = DOMAIN module \ ({old} \ {0})
    BY <1>1
  <2> QED
    BY <1>7, <2>1, <2>2, <2>3, <2>4
<1> QED
  BY <1>1, <1>2, <1>3, <1>4, <1>5, <1>6, <1>8, <1>9, Effects

-----------------------------------------------------------------------------
(* The table.                                                              *)
TableIs ==
  /\ \A f \in Name : functions[f] # 0 =>
       functions[f] \in FunctionOps /\ module[functions[f]].symbol = f
  /\ \A i \in FunctionOps : functions[module[i].symbol] = i

LEMMA TableStep ==
  ASSUME RecoveryInv, Next
  PROVE  TableInv'
<1>1. RecoveryTypes /\ StackInv /\ TableInv /\ OpenInv /\ AnchorInv /\ BeforeInv /\ born \in Nat
      /\ DOMAIN module \subseteq 1..born /\ functions \in [Name -> Nat]
      /\ \A i \in DOMAIN module : IsOp(module[i])
  BY DEF RecoveryInv, RecoveryTypes
<1>2. step \notin {"done", "error"} => TableIs
  BY <1>1 DEF TableInv, TableIs
<1>3. TableIs' => TableInv'
  BY DEF TableInv, TableIs
<1>4. \A i \in DOMAIN module : i \in FunctionOps <=> module[i].symbol \in Name
  BY <1>1, RecoveryAssumption DEF FunctionOps, IsOp
<1>5. CASE Quiet \/ Marks
  <2>1. Live /\ UNCHANGED <<module, functions>>
    BY <1>5 DEF Quiet, Marks
  <2>2. TableIs'
    BY <1>2, <2>1 DEF TableIs, FunctionOps, Live
  <2> QED
    BY <1>3, <2>2
<1>6. CASE Finalize
  BY <1>6 DEF Finalize, TableInv
<1>7. CASE Undoes
  <2>1. RollBack /\ Active /\ TableIs
    BY <1>2, <1>7 DEF Undoes, Active
  <2>2. /\ DOMAIN module' = Remaining \union {born + k : k \in DOMAIN Clones}
        /\ \A i \in Remaining : i \in DOMAIN module /\ i \in 1..born /\ module'[i] = module[i]
        /\ \A k \in DOMAIN Clones : Clones[k] \in Name /\ k \in 1..Len(Clones)
             /\ module'[born + k] = Op(Clones[k], "prototype")
    BY <1>1, <2>1, RollBackEffect
  <2>3. /\ \A f \in Range(Clones) : f \in Name /\ \E k \in DOMAIN Clones :
              Clones[k] = f /\ functions'[f] = born + k
        /\ \A f \in Name \ Range(Clones) :
              functions'[f] = IF functions[f] \in Remaining THEN functions[f] ELSE 0
    BY <1>1, <2>1, RollBackEffect
  <2>4. \A k \in DOMAIN Clones : born + k \in FunctionOps' /\ module'[born + k].symbol = Clones[k]
    <3> SUFFICES ASSUME NEW k \in DOMAIN Clones
                 PROVE  born + k \in FunctionOps' /\ module'[born + k].symbol = Clones[k]
      OBVIOUS
    <3>1. born + k \in DOMAIN module' /\ module'[born + k] = Op(Clones[k], "prototype")
      BY <2>2
    <3> QED
      BY <3>1 DEF FunctionOps, Op
  <2>5. \A i \in Remaining : i \in FunctionOps' <=> i \in FunctionOps
    BY <2>2 DEF FunctionOps
  <2>6. \A f \in Name : functions'[f] # 0 =>
          functions'[f] \in FunctionOps' /\ module'[functions'[f]].symbol = f
    <3> SUFFICES ASSUME NEW f \in Name, functions'[f] # 0
                 PROVE  functions'[f] \in FunctionOps' /\ module'[functions'[f]].symbol = f
      OBVIOUS
    <3>1. CASE f \in Range(Clones)
      BY <2>3, <2>4, <3>1
    <3>2. CASE f \notin Range(Clones)
      <4>1. functions'[f] = functions[f] /\ functions[f] \in Remaining
        BY <2>3, <3>2
      <4>2. functions[f] \in FunctionOps /\ module[functions[f]].symbol = f
        BY <2>1, <4>1 DEF TableIs
      <4> QED
        BY <2>2, <2>5, <4>1, <4>2
    <3> QED
      BY <3>1, <3>2
  <2>7. \A i \in FunctionOps' : functions'[module'[i].symbol] = i
    <3> SUFFICES ASSUME NEW i \in FunctionOps' PROVE functions'[module'[i].symbol] = i
      OBVIOUS
    <3>1. CASE i \in Remaining
      <4>1. i \in FunctionOps /\ module'[i] = module[i] /\ i \in DOMAIN module /\ i \in Nat
        BY <2>2, <2>5, <3>1
      <4>2. functions[module[i].symbol] = i /\ module[i].symbol \in Name
        BY <1>4, <2>1, <4>1 DEF TableIs
      <4>3. i <= checkpoint.start
        BY <1>1, <2>1, <3>1, <4>1 DEF Remaining, FunctionOps, AnchorInv
      <4>4. checkpoint.start \in Nat /\ i # 0
        BY <1>1, <4>1 DEF RecoveryTypes
      <4>5. module[i].symbol \notin Range(Clones)
        BY <1>1, <2>1, <4>1, <4>2, <4>3, <4>4 DEF BeforeInv, Clones
      <4> QED
        BY <2>3, <3>1, <4>1, <4>2, <4>5
    <3>2. CASE i \notin Remaining
      <4>1. PICK k \in DOMAIN Clones : i = born + k
        BY <2>2, <3>2 DEF FunctionOps
      <4>2. Clones[k] \in Range(Clones) /\ module'[i].symbol = Clones[k]
        BY <2>4, <4>1 DEF Range
      <4>3. PICK j \in DOMAIN Clones : Clones[j] = Clones[k] /\ functions'[Clones[k]] = born + j
        BY <2>3, <4>2
      <4>4. j = k
        BY <1>1, <2>1, <4>3 DEF BeforeInv, Clones
      <4> QED
        BY <4>1, <4>2, <4>3, <4>4
    <3> QED
      BY <3>1, <3>2
  <2> QED
    BY <1>3, <2>6, <2>7 DEF TableIs
<1>8. CASE Writes
  <2> DEFINE w == functions[Top.of]
  <2>1. TableIs /\ functions' = functions /\ w \in DOMAIN module /\ module[w].symbol = Top.of
        /\ module[w].body = "open"
    BY <1>2, <1>8 DEF Writes, Active
  <2>2. PICK op : op.symbol = Top.of /\ op.body \in {"open", "real"}
          /\ module' = [module EXCEPT ![w] = op]
    BY <1>8 DEF Writes
  <2>3. DOMAIN module' = DOMAIN module /\ \A i \in DOMAIN module :
          /\ module'[i].symbol = module[i].symbol
          /\ module'[i].body = "struct" <=> module[i].body = "struct"
    BY <2>1, <2>2
  <2>4. FunctionOps' = FunctionOps
    BY <2>3 DEF FunctionOps
  <2>5. TableIs'
    BY <2>1, <2>3, <2>4 DEF TableIs, FunctionOps
  <2> QED
    BY <1>3, <2>5
<1>9. CASE Defines
  <2>1. TableIs /\ functions' = functions
    BY <1>2, <1>9 DEF Defines, Active
  <2>2. PICK c \in Class : module' = With(module, Op(c, "struct"))
    BY <1>9 DEF Defines
  <2>3. /\ DOMAIN module' = DOMAIN module \union {born + 1}
        /\ module'[born + 1] = Op(c, "struct")
        /\ \A i \in DOMAIN module : module'[i] = module[i]
    BY <1>1, <2>2, NewOps, WithTypes
  <2>4. FunctionOps' = FunctionOps
    BY <2>3 DEF FunctionOps, Op
  <2>5. TableIs'
    BY <2>1, <2>3, <2>4 DEF TableIs, FunctionOps
  <2> QED
    BY <1>3, <2>5
<1>10. CASE Erases
  <2> DEFINE S == Methods(Top.of)
  <2>1. PICK X \in {{}, StructsOf(Top.of)} : Erase(S, X)
    BY <1>10 DEF Erases
  <2>2. TableIs /\ S \in SUBSET Name /\ Top.of \in Class
    BY <1>2, <1>10, MethodsAreNames DEF Erases, Active
  <2>3. /\ DOMAIN module' = DOMAIN module \ (Registered(S) \union X)
        /\ \A i \in DOMAIN module' : module'[i] = module[i]
        /\ \A f \in Name : functions'[f] = IF f \in S THEN 0 ELSE functions[f]
    BY <1>1, <2>1, <2>2, EraseEffect
  <2>4. \A i \in FunctionOps : i \notin X
    BY <1>4, <2>1, <2>2, RecoveryAssumption DEF StructsOf, FunctionOps
  <2>5. \A f \in Name \ S : functions[f] # 0 => functions[f] \notin Registered(S)
    BY <2>2 DEF TableIs, Registered
  <2>6. \A f \in Name : functions'[f] # 0 =>
          functions'[f] \in FunctionOps' /\ module'[functions'[f]].symbol = f
    BY <2>2, <2>3, <2>4, <2>5 DEF TableIs, FunctionOps
  <2>7. \A i \in FunctionOps' : functions'[module'[i].symbol] = i
    <3> SUFFICES ASSUME NEW i \in FunctionOps' PROVE functions'[module'[i].symbol] = i
      OBVIOUS
    <3>1. i \in FunctionOps /\ module'[i] = module[i] /\ i \notin Registered(S) /\ i \in DOMAIN module
      BY <2>3 DEF FunctionOps
    <3>2. functions[module[i].symbol] = i /\ module[i].symbol \in Name /\ i # 0
      BY <1>1, <1>4, <2>2, <3>1 DEF TableIs
    <3>3. module[i].symbol \notin S
      BY <3>1, <3>2 DEF Registered
    <3> QED
      BY <2>3, <3>1, <3>2, <3>3
  <2> QED
    BY <1>3, <2>6, <2>7 DEF TableIs
<1>11. CASE Register
  <2> DEFINE f == Top.of
             old == functions[f]
  <2>1. /\ frames # <<>> /\ f \in Name /\ old \in Nat
        /\ DOMAIN module' = (DOMAIN module \ {old}) \union {born + 1}
        /\ \A i \in DOMAIN module \ {old} : module'[i] = module[i] /\ i \in 1..born
        /\ \E b \in {"stub", "open", "prototype"} : module'[born + 1] = Op(f, b)
        /\ functions' = [functions EXCEPT ![f] = born + 1]
    BY <1>1, <1>11, RegisterEffect
  <2>2. TableIs
    BY <1>1, <1>2, <2>1, TopFits DEF Active
  <2>3. /\ born + 1 \in FunctionOps' /\ module'[born + 1].symbol = f
        /\ \A i \in DOMAIN module \ {old} : i \in FunctionOps' <=> i \in FunctionOps
    BY <2>1 DEF FunctionOps, Op
  <2>4. \A g \in Name : functions'[g] # 0 =>
          functions'[g] \in FunctionOps' /\ module'[functions'[g]].symbol = g
    <3> SUFFICES ASSUME NEW g \in Name, functions'[g] # 0, g # f
                 PROVE  functions'[g] \in FunctionOps' /\ module'[functions'[g]].symbol = g
      BY <1>1, <2>1, <2>3
    <3>1. functions'[g] = functions[g]
      BY <1>1, <2>1
    <3>2. functions[g] \in FunctionOps /\ module[functions[g]].symbol = g
      BY <2>2, <3>1 DEF TableIs
    <3>3. functions[g] # old
      BY <2>1, <2>2, <3>1, <3>2 DEF TableIs
    <3> QED
      BY <2>1, <2>3, <3>1, <3>2, <3>3 DEF FunctionOps
  <2>5. \A i \in FunctionOps' : functions'[module'[i].symbol] = i
    <3> SUFFICES ASSUME NEW i \in FunctionOps', i # born + 1
                 PROVE  functions'[module'[i].symbol] = i
      BY <1>1, <2>1, <2>3
    <3>1. i \in DOMAIN module \ {old} /\ i \in FunctionOps /\ module'[i] = module[i]
      BY <2>1, <2>3 DEF FunctionOps
    <3>2. functions[module[i].symbol] = i /\ module[i].symbol \in Name
      BY <1>4, <2>2, <3>1 DEF TableIs
    <3>3. module[i].symbol # f
      BY <3>1, <3>2
    <3> QED
      BY <1>1, <2>1, <3>1, <3>2, <3>3
  <2> QED
    BY <1>3, <2>4, <2>5 DEF TableIs
<1> QED
  BY <1>1, <1>5, <1>6, <1>7, <1>8, <1>9, <1>10, <1>11, Effects

-----------------------------------------------------------------------------
(* The class frames of a stack: only a demand adds one.                    *)
Comes(k) == \E j \in 1..Len(frames) :
  frames[j].unit = frames'[k].unit /\ frames[j].of = frames'[k].of

LEMMA PushKeeps ==
  ASSUME StackInv, NEW fr, Fits(fr), Push(fr)
  PROVE  \A k \in 1..Len(frames') : frames'[k] = fr \/ Comes(k)
<1>1. frames \in Seq(Frame) /\ fr \in Frame /\ frames' = <<fr>> \o frames
  BY DEF StackInv, Nested, Fits, Push
<1>2. /\ Len(frames') = Len(frames) + 1 /\ Len(frames) \in Nat /\ frames'[1] = fr
      /\ \A k \in 1..Len(frames') : k = 1 \/ frames'[k] = frames[k - 1]
  BY <1>1
<1>3. \A k \in 1..Len(frames') : k = 1 \/ k - 1 \in 1..Len(frames)
  BY <1>2
<1> QED
  BY <1>2, <1>3 DEF Comes

LEMMA BecomeKeeps ==
  ASSUME StackInv, frames # <<>>, NEW fr, Fits(fr), Become(fr),
         fr.unit = Top.unit, fr.of = Top.of
  PROVE  \A k \in 1..Len(frames') : Comes(k)
<1>1. /\ Len(frames') = Len(frames) /\ frames'[1] = fr
      /\ \A k \in 2..Len(frames) : frames'[k] = frames[k]
  BY BecomeNested DEF StackInv, Become, Top
<1>2. Top = frames[1] /\ Len(frames) \in Nat
  BY PopNested DEF StackInv, Top
<1>3. \A k \in 1..Len(frames) : k = 1 \/ k \in 2..Len(frames)
  BY <1>2
<1> QED
  BY <1>1, <1>2, <1>3 DEF Comes

LEMMA ReturnKeeps ==
  ASSUME StackInv, frames # <<>>, NEW r, Return(r)
  PROVE  /\ \A k \in 1..Len(frames') : Comes(k)
         /\ frames' # <<>> => Fits(Top') /\ Awaits(Top', Top) /\ Top'.phase # "body"
         /\ reply' = r
<1>1. frames' = Tail(frames) /\ reply' = r
  BY DEF Return
<1>2. /\ Len(frames') = Len(frames) - 1 /\ Len(frames) \in Nat \ {0}
      /\ \A k \in 1..Len(frames) - 1 : frames'[k] = frames[k + 1]
  BY <1>1, PopNested DEF StackInv
<1>3. frames' # <<>> => Fits(Top') /\ Awaits(Top', Top)
  BY <1>1, PopNested DEF StackInv, Top
<1>4. \A k \in 1..Len(frames') : k + 1 \in 1..Len(frames)
  BY <1>2
<1> QED
  BY <1>1, <1>2, <1>3, <1>4 DEF Comes, Awaits

LEMMA ClassFrames ==
  ASSUME RecoveryTypes, StackInv, Next
  PROVE  \A k \in 1..Len(frames') : frames'[k].unit = "class" =>
           \/ Comes(k)
           \/ Demand /\ frames'[k].of \in Class \ imported /\ frames'[k].of \in imported'
<1>1. frames # <<>> => Fits(Top)
  BY TopFits
<1>2. CASE UNCHANGED frames
  BY <1>2 DEF Comes
<1>3. ASSUME NEW fr, Fits(fr), Push(fr), fr.unit # "class" PROVE
        \A k \in 1..Len(frames') : frames'[k].unit = "class" => Comes(k)
  BY <1>3, PushKeeps
<1>4. ASSUME Begin \/ Retry, frames' # frames PROVE
        \A k \in 1..Len(frames') : frames'[k].unit = "class" => Comes(k)
  <2>1. Push(FrameOf(Declared)) /\ Declared \in Declaration
    BY <1>4, ProgramAssumption DEF Begin, Retry, RecoveryTypes, Declared
  <2>2. FrameOf(Declared).unit # "class"
    BY <2>1 DEF FrameOf, Function, Items, Declaration
  <2> QED
    BY <1>3, <2>1, <2>2, NewFramesFit
<1>5. CASE Demand
  <2>1. frames # <<>> /\ Top.left # <<>> /\ Demands(Top)
    BY <1>5 DEF Demand, At, Demands
  <2>2. Top.left \in Seq(Class)
    BY <1>1, <2>1 DEF Demands, Fits
  <2>3. Head(Top.left) \in Class
    BY <2>1, <2>2
  <2>4. CASE Head(Top.left) \notin imported
    <3>1. Push(Record(Head(Top.left))) /\ Head(Top.left) \in imported'
      BY <1>5, <2>4 DEF Demand
    <3>2. \A k \in 1..Len(frames') : frames'[k] = Record(Head(Top.left)) \/ Comes(k)
      BY <2>3, <3>1, NewFramesFit, PushKeeps
    <3> QED
      BY <1>5, <2>3, <2>4, <3>1, <3>2 DEF Record
  <2> QED
    BY <1>2, <1>5, <2>4 DEF Demand
<1>6. CASE \E r : frames # <<>> /\ Return(r)
  BY <1>6, ReturnKeeps
<1>7. CASE Advance \/ Call
  <2>1. /\ frames # <<>> /\ Top.left # <<>>
        /\ Become([Top EXCEPT !.left = Tail(Top.left)]) \/ Return("failed")
    BY <1>7 DEF Advance, Call, At, StackInv
  <2> QED
    BY <1>1, <1>6, <2>1, AdvanceFits, BecomeKeeps
<1>8. CASE Register
  <2>1. frames # <<>> /\ Top.unit = "function"
    BY <1>8 DEF Register, Signed, At
  <2> DEFINE fr == [Top EXCEPT !.phase = "body", !.left = CallsOf[Top.of]]
  <2>2. Become(fr) \/ Return("ok")
    BY <1>8 DEF Register
  <2>3. CallsOf[Top.of] \in Seq(Name) /\ CallsOf[Top.of] \in Seq(Name \union Class)
    BY <1>1, <2>1, RecoveryAssumption DEF Fits
  <2>4. Fits(fr) /\ fr.unit = Top.unit /\ fr.of = Top.of
    <3>1. fr \in Frame
      BY <1>1, <2>1, <2>3 DEF Fits, Frame
    <3> QED
      BY <1>1, <2>1, <2>3, <3>1 DEF Fits, Frame
  <2> QED
    BY <1>6, <2>1, <2>2, <2>4, BecomeKeeps
<1>9. CASE Define \/ EndPass \/ Omit
  <2>1. /\ frames # <<>> /\ Top.unit = "class"
        /\ \/ Become([Top EXCEPT !.phase = "signatures", !.left = MethodsOf[Top.of]])
           \/ Become([Top EXCEPT !.phase = "bodies", !.left = MethodsOf[Top.of]])
           \/ Return("ok")
    BY <1>9 DEF Define, EndPass, Omit, At
  <2> QED
    BY <1>1, <1>6, <2>1, ClassPassFits, BecomeKeeps
<1>10. CASE ImportMethod
  <2>1. frames # <<>> /\ Top.left # <<>> /\ Imports(Top)
    BY <1>10 DEF ImportMethod, At, Imports
  <2>2. Head(Top.left) \in Name
    BY <1>1, <2>1, MethodsAreNames DEF Fits, Imports
  <2>3. \/ Become([Top EXCEPT !.left = Tail(Top.left)])
        \/ \E d \in BOOLEAN : Push(Function(Head(Top.left), d))
    BY <1>10 DEF ImportMethod
  <2>4. \A d \in BOOLEAN : Fits(Function(Head(Top.left), d))
                           /\ Function(Head(Top.left), d).unit # "class"
    BY <2>2, NewFramesFit DEF Function
  <2> QED
    BY <1>1, <1>3, <2>1, <2>3, <2>4, AdvanceFits, BecomeKeeps
<1>11. CASE ImportSpecialization
  <2>1. /\ frames # <<>> /\ Top.left # <<>> /\ Top.unit = "functions"
        /\ Push(Function(Head(Top.left), TRUE))
    BY <1>11 DEF ImportSpecialization, At
  <2>2. Top.left \in Seq(Name)
    BY <1>1, <2>1 DEF Fits
  <2>3. Head(Top.left) \in Name
    BY <2>1, <2>2
  <2>4. Fits(Function(Head(Top.left), TRUE)) /\ Function(Head(Top.left), TRUE).unit # "class"
    BY <2>3, NewFramesFit DEF Function
  <2> QED
    BY <1>3, <2>1, <2>4
<1>12. CASE RejectSignature \/ Reconcile \/ EndBody \/ RejectClass \/ EndItems \/ RejectItems
  <2>1. frames # <<>> /\ \E r : Return(r)
    BY <1>12 DEF RejectSignature, Reconcile, EndBody, RejectClass, EndItems, RejectItems, At, Signed
  <2> QED
    BY <1>6, <2>1
<1>13. CASE Accept \/ Reject \/ FinishRetry \/ Finalize
  BY <1>2, <1>13 DEF Accept, Reject, FinishRetry, Finalize
<1> QED
  BY <1>2, <1>4, <1>5, <1>7, <1>8, <1>9, <1>10, <1>11, <1>12, <1>13 DEF Next

-----------------------------------------------------------------------------
(* The classes a function belongs to are imported before it is.            *)
Owned(f) == OwnersOf(f) \subseteq imported

LEMMA OwnersData ==
  ASSUME RecoveryInv, Next
  PROVE  /\ imported \subseteq imported'
         /\ \A f \in Name : functions'[f] # 0 => Owned(f)
         /\ Active' => \A f \in Range(checkpoint'.clones) : Owned(f)
<1>1. /\ RecoveryTypes /\ StackInv /\ TableInv /\ OpenInv /\ AnchorInv
      /\ functions \in [Name -> Nat] /\ Clones \in Seq(Name)
      /\ \A f \in Name : functions[f] # 0 => Owned(f)
      /\ Active => \A f \in Range(Clones) : Owned(f)
  BY DEF RecoveryInv, RecoveryTypes, OwnersInv, Owned, Clones
<1>2. imported \subseteq imported'
  BY DEF Next, Begin, Accept, Reject, Retry, FinishRetry, Finalize, Demand, Advance,
     RejectSignature, Reconcile, Register, Call, EndBody, Define, ImportMethod, EndPass, Omit,
     RejectClass, ImportSpecialization, EndItems, RejectItems, types
<1>3. CASE Quiet \/ Writes \/ Defines \/ Finalize
  <2>1. UNCHANGED <<functions, checkpoint>> /\ (Active' => Active)
    BY <1>3 DEF Quiet, Writes, Defines, Finalize, Active
  <2> QED
    BY <1>1, <1>2, <2>1 DEF Clones
<1>4. CASE Marks
  <2>1. functions' = functions /\ checkpoint' = Mark
    BY <1>4 DEF Marks
  <2>2. Range(checkpoint'.clones) = {}
    BY <2>1 DEF Mark, Range
  <2> QED
    BY <1>1, <1>2, <2>1, <2>2
<1>5. CASE Undoes
  <2>1. RollBack /\ Active /\ ~Active'
    BY <1>5 DEF Undoes
  <2>2. \A f \in Name : functions'[f] # 0 => f \in Range(Clones) \/ functions[f] # 0
    BY <1>1, <2>1, RollBackEffect
  <2> QED
    BY <1>1, <1>2, <2>1, <2>2
<1>6. CASE Erases
  <2>1. PICK X : Erase(Methods(Top.of), X)
    BY <1>6 DEF Erases
  <2>2. Methods(Top.of) \in SUBSET Name /\ Active
    BY <1>6, MethodsAreNames DEF Erases
  <2>3. \A f \in Name : functions'[f] # 0 => functions[f] # 0
    BY <1>1, <2>1, <2>2, EraseEffect
  <2>4. checkpoint' = [checkpoint EXCEPT
          !.anchor = AnchorWithout(Registered(Methods(Top.of)) \union X)]
    BY <1>1, <2>1, <2>2, EraseEffect
  <2>5. checkpoint'.clones = Clones
    BY <1>1, <2>4 DEF RecoveryTypes, Clones
  <2> QED
    BY <1>1, <1>2, <2>2, <2>3, <2>5
<1>7. CASE Register
  <2> DEFINE f == Top.of
             old == functions[f]
  <2>1. /\ frames # <<>> /\ f \in Name /\ ~Unowned(f)
        /\ functions' = [functions EXCEPT ![f] = born + 1]
        /\ checkpoint' = [checkpoint EXCEPT
             !.clones = IF old # 0 /\ old <= checkpoint.anchor THEN Append(@, f) ELSE @,
             !.anchor = AnchorWithout({old} \ {0})]
    BY <1>1, <1>7, RegisterEffect
  <2>2. Active
    BY <1>1, <2>1, TopFits
  <2>3. Owned(f)
    BY <2>1 DEF Unowned, Owned, OwnersOf
  <2>4. checkpoint'.clones \in {Clones, Append(Clones, f)}
    BY <1>1, <2>1 DEF RecoveryTypes, Clones
  <2>5. Range(Append(Clones, f)) = Range(Clones) \union {f}
    <3>1. /\ Len(Clones) \in Nat /\ DOMAIN Append(Clones, f) = 1..(Len(Clones) + 1)
          /\ DOMAIN Clones = 1..Len(Clones) /\ Append(Clones, f)[Len(Clones) + 1] = f
          /\ \A k \in 1..Len(Clones) : Append(Clones, f)[k] = Clones[k]
      BY <1>1
    <3>2. 1..(Len(Clones) + 1) = 1..Len(Clones) \union {Len(Clones) + 1}
      BY <3>1
    <3> QED
      BY <3>1, <3>2 DEF Range
  <2>6. \A g \in Name : functions'[g] # 0 => Owned(g)
    BY <1>1, <2>1, <2>3
  <2>7. \A g \in Range(checkpoint'.clones) : Owned(g)
    BY <1>1, <2>2, <2>3, <2>4, <2>5
  <2> QED
    BY <1>2, <2>6, <2>7
<1> QED
  BY <1>1, <1>3, <1>4, <1>5, <1>6, <1>7, Effects

LEMMA FreshStep ==
  ASSUME RecoveryInv, Next, frames # <<>>, NEW c \in Class, Fresh(c)
  PROVE  Fresh(c)'
<1>1. /\ RecoveryTypes /\ StackInv /\ TableInv /\ OpenInv /\ AnchorInv /\ Active
      /\ functions \in [Name -> Nat] /\ born \in Nat /\ checkpoint.start \in Nat
      /\ checkpoint.start <= born /\ Methods(c) \subseteq Name
  BY TopFits, MethodsAreNames DEF RecoveryInv, RecoveryTypes, AnchorInv
<1>2. ASSUME checkpoint'.start = checkpoint.start,
             \A f \in Name : functions'[f] \in {functions[f], 0, born + 1}
      PROVE  Fresh(c)'
  BY <1>1, <1>2 DEF Fresh
<1>3. CASE Quiet \/ Writes \/ Defines
  BY <1>2, <1>3 DEF Quiet, Writes, Defines
<1>4. CASE Marks \/ Undoes \/ Finalize
  BY <1>1, <1>4 DEF Marks, Undoes, Finalize, Active
<1>5. CASE Erases
  <2>1. PICK X : Erase(Methods(Top.of), X)
    BY <1>5 DEF Erases
  <2>2. Methods(Top.of) \in SUBSET Name
    BY <1>5, MethodsAreNames DEF Erases
  <2>3. \A f \in Name : functions'[f] \in {functions[f], 0}
    BY <1>1, <2>1, <2>2, EraseEffect
  <2>4. checkpoint' = [checkpoint EXCEPT
          !.anchor = AnchorWithout(Registered(Methods(Top.of)) \union X)]
    BY <1>1, <2>1, <2>2, EraseEffect
  <2> QED
    BY <1>1, <1>2, <2>3, <2>4 DEF RecoveryTypes
<1>6. CASE Register
  <2> DEFINE f == Top.of
             old == functions[f]
  <2>1. /\ f \in Name /\ functions' = [functions EXCEPT ![f] = born + 1]
        /\ checkpoint' = [checkpoint EXCEPT
             !.clones = IF old # 0 /\ old <= checkpoint.anchor THEN Append(@, f) ELSE @,
             !.anchor = AnchorWithout({old} \ {0})]
    BY <1>1, <1>6, RegisterEffect
  <2> QED
    BY <1>1, <1>2, <2>1 DEF RecoveryTypes
<1> QED
  BY <1>1, <1>3, <1>4, <1>5, <1>6, Effects

LEMMA OwnersStep ==
  ASSUME RecoveryInv, Next
  PROVE  OwnersInv'
<1>1. /\ RecoveryTypes /\ StackInv /\ OwnersInv
      /\ \A k \in 1..Len(frames) : frames[k].unit = "class" =>
           frames[k].of \in imported /\ Fresh(frames[k].of)
  BY DEF RecoveryInv, OwnersInv
<1>2. /\ imported \subseteq imported'
      /\ \A f \in Name : functions'[f] # 0 => Owned(f)
      /\ Active' => \A f \in Range(checkpoint'.clones) : Owned(f)
  BY OwnersData
<1>3. \A k \in 1..Len(frames') : frames'[k].unit = "class" =>
        /\ frames'[k].of \in imported'
        /\ \A m \in Methods(frames'[k].of) :
             functions'[m] = 0 \/ functions'[m] > checkpoint'.start
  <2> SUFFICES ASSUME NEW k \in 1..Len(frames'), frames'[k].unit = "class"
               PROVE  /\ frames'[k].of \in imported'
                      /\ \A m \in Methods(frames'[k].of) :
                           functions'[m] = 0 \/ functions'[m] > checkpoint'.start
    OBVIOUS
  <2>1. CASE Comes(k)
    <3>1. PICK j \in 1..Len(frames) : frames[j].unit = "class" /\ frames[j].of = frames'[k].of
      BY <2>1 DEF Comes
    <3>2. frames # <<>> /\ frames[j].of \in Class
      BY <1>1, <3>1 DEF StackInv, Nested, Fits
    <3>3. PICK c \in Class : c = frames'[k].of
      BY <3>1, <3>2
    <3>4. c \in imported /\ Fresh(c)
      BY <1>1, <3>1, <3>3
    <3>5. Fresh(c)'
      BY <3>2, <3>4, FreshStep
    <3> QED
      BY <1>2, <3>3, <3>4, <3>5 DEF Fresh
  <2>2. CASE Demand /\ frames'[k].of \in Class \ imported /\ frames'[k].of \in imported'
    <3>1. PICK c \in Class : c = frames'[k].of /\ c \notin imported
      BY <2>2
    <3>2. Methods(c) \subseteq Name /\ \A m \in Methods(c) : OwnersOf(m) = {c}
      BY MethodsAreNames
    <3>3. \A m \in Methods(c) : functions[m] = 0
      BY <1>1, <3>1, <3>2 DEF OwnersInv
    <3>4. functions' = functions
      BY <2>2 DEF Demand
    <3> QED
      BY <2>2, <3>1, <3>3, <3>4
  <2> QED
    BY <1>1, <2>1, <2>2, ClassFrames
<1> QED
  BY <1>2, <1>3 DEF OwnersInv, Owned, Fresh

-----------------------------------------------------------------------------
(* What the checkpoint found.                                              *)
Found(f) ==
  IF f \in Range(Clones) THEN "prototype"
  ELSE IF functions[f] # 0 /\ functions[f] <= checkpoint.start
       THEN module[functions[f]].body ELSE "absent"

LEMMA BeforeStep ==
  ASSUME RecoveryInv, Next
  PROVE  BeforeInv'
<1>1. /\ RecoveryTypes /\ StackInv /\ TableInv /\ OpenInv /\ AnchorInv /\ OwnersInv
      /\ functions \in [Name -> Nat] /\ born \in Nat /\ Clones \in Seq(Name)
      /\ checkpoint.start \in Nat
  BY DEF RecoveryInv, RecoveryTypes, Clones
<1>2. Active =>
        /\ \A f \in Name : checkpoint.before[f] = Found(f)
        /\ \A f \in Range(Clones) : functions[f] = 0 \/ functions[f] > checkpoint.start
        /\ \A j, k \in DOMAIN Clones : Clones[j] = Clones[k] => j = k
  BY DEF RecoveryInv, BeforeInv, Found, Clones
<1>3. Active => \A f \in Name : functions[f] # 0 =>
        functions[f] \in DOMAIN module /\ module[functions[f]].symbol = f
        /\ module[functions[f]].body # "struct"
  BY <1>1 DEF TableInv, Active, FunctionOps
(* The checkpoint but for its anchor, and what it covers, stay.            *)
<1>4. ASSUME Active, checkpoint'.start = checkpoint.start, checkpoint'.before = checkpoint.before,
             checkpoint'.clones = Clones,
             \A f \in Name : functions[f] # 0 /\ functions[f] <= checkpoint.start =>
               functions'[f] = functions[f] /\ module'[functions[f]].body = module[functions[f]].body,
             \A f \in Name : functions[f] = 0 \/ functions[f] > checkpoint.start =>
               functions'[f] = 0 \/ functions'[f] > checkpoint.start
      PROVE  BeforeInv'
  <2>1. \A f \in Name : (functions[f] # 0 /\ functions[f] <= checkpoint.start) <=>
                        (functions'[f] # 0 /\ functions'[f] <= checkpoint.start)
    <3>1. functions' \in [Name -> Nat]
      BY DataStep DEF DataTypes
    <3> SUFFICES ASSUME NEW f \in Name
                 PROVE  (functions[f] # 0 /\ functions[f] <= checkpoint.start) <=>
                        (functions'[f] # 0 /\ functions'[f] <= checkpoint.start)
      OBVIOUS
    <3>2. functions[f] \in Nat /\ functions'[f] \in Nat
      BY <1>1, <3>1
    <3>3. CASE functions[f] # 0 /\ functions[f] <= checkpoint.start
      BY <1>4, <3>3
    <3>4. CASE functions[f] = 0 \/ functions[f] > checkpoint.start
      <4>1. functions'[f] = 0 \/ functions'[f] > checkpoint.start
        BY <1>4, <3>4
      <4> QED
        BY <1>1, <3>2, <3>4, <4>1
    <3> QED
      BY <1>1, <3>2, <3>3, <3>4
  <2>2. \A f \in Name : checkpoint.before[f] =
          IF f \in Range(Clones) THEN "prototype"
          ELSE IF functions'[f] # 0 /\ functions'[f] <= checkpoint.start
               THEN module'[functions'[f]].body ELSE "absent"
    BY <1>2, <1>4, <2>1 DEF Found
  <2>3. \A f \in Range(Clones) : functions'[f] = 0 \/ functions'[f] > checkpoint.start
    <3>1. Range(Clones) \subseteq Name
      BY <1>1 DEF Range
    <3> QED
      BY <1>2, <1>4, <3>1
  <2> QED
    BY <1>2, <1>4, <2>2, <2>3 DEF BeforeInv
<1>5. CASE Quiet
  BY <1>1, <1>2, <1>5 DEF Quiet, BeforeInv, Found, Clones
<1>6. CASE Marks
  <2>1. Live /\ UNCHANGED <<module, functions>> /\ checkpoint' = Mark
    BY <1>6 DEF Marks
  <2>2. Mark.start = born /\ Mark.clones = <<>> /\ Mark.before = Table
    BY DEF Mark
  <2>3. \A f \in Name : functions[f] # 0 => functions[f] \in DOMAIN module
    BY <1>1, <2>1 DEF TableInv, FunctionOps, Live
  <2>4. \A f \in Name : functions[f] # 0 => functions[f] <= born
    BY <1>1, <2>3 DEF RecoveryTypes
  <2>5. Range(Mark.clones) = {} /\ DOMAIN Mark.clones = {}
    BY <2>2 DEF Range
  <2>6. \A f \in Name : Table[f] = IF functions[f] # 0 THEN module[functions[f]].body ELSE "absent"
    BY DEF Table
  <2> QED
    BY <2>1, <2>2, <2>4, <2>5, <2>6 DEF BeforeInv
<1>7. CASE Undoes \/ Finalize
  BY <1>7 DEF Undoes, Finalize, BeforeInv, Active
<1>8. CASE Writes
  <2>1. /\ Active /\ UNCHANGED <<functions, checkpoint>>
        /\ functions[Top.of] > checkpoint.start
        /\ \E op : module' = [module EXCEPT ![functions[Top.of]] = op]
    BY <1>8 DEF Writes
  <2>2. \A f \in Name : functions[f] # 0 /\ functions[f] <= checkpoint.start =>
          module'[functions[f]].body = module[functions[f]].body
    <3> SUFFICES ASSUME NEW f \in Name, functions[f] # 0, functions[f] <= checkpoint.start
                 PROVE  module'[functions[f]].body = module[functions[f]].body
      OBVIOUS
    <3>1. functions[f] # functions[Top.of]
      BY <1>1, <2>1
    <3>2. functions[f] \in DOMAIN module
      BY <1>3, <2>1
    <3> QED
      BY <2>1, <3>1, <3>2
  <2> QED
    BY <1>4, <2>1, <2>2 DEF Clones
<1>9. CASE Defines
  <2>1. PICK c \in Class : module' = With(module, Op(c, "struct"))
    BY <1>9 DEF Defines
  <2>2. \A i \in DOMAIN module : module'[i] = module[i]
    BY <1>1, <2>1, NewOps, WithTypes
  <2> QED
    BY <1>3, <1>4, <1>9, <2>2 DEF Defines, Clones
<1>10. CASE Erases
  <2> DEFINE S == Methods(Top.of)
  <2>1. PICK X \in {{}, StructsOf(Top.of)} : Erase(S, X)
    BY <1>10 DEF Erases
  <2>2. S \in SUBSET Name /\ Active /\ Top.of \in Class /\ Top = frames[1] /\ 1 \in 1..Len(frames)
    BY <1>1, <1>10, MethodsAreNames, PopNested DEF Erases, StackInv, Top
  <2>3. /\ DOMAIN module' = DOMAIN module \ (Registered(S) \union X)
        /\ \A i \in DOMAIN module' : module'[i] = module[i]
        /\ \A f \in Name : functions'[f] = IF f \in S THEN 0 ELSE functions[f]
    BY <1>1, <2>1, <2>2, EraseEffect
  <2>4. checkpoint' = [checkpoint EXCEPT !.anchor = AnchorWithout(Registered(S) \union X)]
    BY <1>1, <2>1, <2>2, EraseEffect
  <2>5. \A f \in S : functions[f] = 0 \/ functions[f] > checkpoint.start
    BY <1>1, <1>10, <2>2 DEF OwnersInv, Fresh, Erases
  <2>6. \A f \in Name : functions[f] # 0 /\ functions[f] <= checkpoint.start => f \notin S
    BY <1>1, <2>5
  <2>7. TableInv' /\ Live'
    BY <1>10, TableStep DEF Erases, Active, Live
  <2>8. \A f \in Name : functions[f] # 0 /\ functions[f] <= checkpoint.start =>
          functions'[f] = functions[f] /\ functions[f] \in DOMAIN module'
    BY <2>3, <2>6, <2>7 DEF TableInv, Live, FunctionOps
  <2>9. /\ checkpoint'.start = checkpoint.start /\ checkpoint'.before = checkpoint.before
        /\ checkpoint'.clones = Clones
    BY <1>1, <2>4 DEF RecoveryTypes, Clones
  <2> QED
    BY <1>4, <2>2, <2>3, <2>8, <2>9
<1>11. CASE Register
  <2> DEFINE f == Top.of
             old == functions[f]
  <2>1. /\ frames # <<>> /\ f \in Name /\ old \in Nat
        /\ old # 0 => module[old].body = "prototype"
        /\ DOMAIN module' = (DOMAIN module \ {old}) \union {born + 1}
        /\ \A i \in DOMAIN module \ {old} : module'[i] = module[i] /\ i \in 1..born
        /\ functions' = [functions EXCEPT ![f] = born + 1]
        /\ checkpoint' = [checkpoint EXCEPT
             !.clones = IF old # 0 /\ old <= checkpoint.anchor THEN Append(@, f) ELSE @,
             !.anchor = AnchorWithout({old} \ {0})]
    BY <1>1, <1>11, RegisterEffect
  <2>2. Active /\ checkpoint.start <= born
    BY <1>1, <2>1, TopFits DEF AnchorInv
  <2>3. checkpoint'.start = checkpoint.start /\ checkpoint'.before = checkpoint.before
        /\ checkpoint'.clones =
             IF old # 0 /\ old <= checkpoint.anchor THEN Append(Clones, f) ELSE Clones
    BY <1>1, <2>1 DEF RecoveryTypes, Clones
  <2>4. functions'[f] = born + 1 /\ born + 1 > checkpoint.start
    BY <1>1, <2>1, <2>2
  <2>5. \A g \in Name : g # f => functions'[g] = functions[g]
          /\ (functions[g] # 0 => module'[functions[g]] = module[functions[g]])
    BY <1>1, <1>3, <2>1, <2>2
  <2>6. old # 0 => (old <= checkpoint.anchor <=> old <= checkpoint.start)
    BY <1>1, <1>3, <2>1, <2>2 DEF AnchorInv
  <2>7. CASE ~(old # 0 /\ old <= checkpoint.anchor)
    <3>1. old = 0 \/ old > checkpoint.start
      BY <1>1, <2>1, <2>6, <2>7
    <3>2. \A g \in Name : functions[g] # 0 /\ functions[g] <= checkpoint.start => g # f
      BY <1>1, <3>1
    <3>3. \A g \in Name : functions[g] # 0 /\ functions[g] <= checkpoint.start =>
            functions'[g] = functions[g] /\ module'[functions[g]].body = module[functions[g]].body
      BY <2>5, <3>2
    <3>4. \A g \in Name : functions[g] = 0 \/ functions[g] > checkpoint.start =>
            functions'[g] = 0 \/ functions'[g] > checkpoint.start
      BY <2>4, <2>5
    <3> QED
      BY <1>4, <2>2, <2>3, <2>7, <3>3, <3>4
  <2>8. CASE old # 0 /\ old <= checkpoint.anchor
    <3>1. /\ Len(Clones) \in Nat /\ DOMAIN Append(Clones, f) = 1..(Len(Clones) + 1)
          /\ DOMAIN Clones = 1..Len(Clones) /\ Append(Clones, f)[Len(Clones) + 1] = f
          /\ \A k \in 1..Len(Clones) : Append(Clones, f)[k] = Clones[k]
      BY <1>1, <2>1
    <3>2. 1..(Len(Clones) + 1) = 1..Len(Clones) \union {Len(Clones) + 1}
      BY <3>1
    <3>3. Range(Append(Clones, f)) = Range(Clones) \union {f}
      BY <3>1, <3>2 DEF Range
    <3>4. f \notin Range(Clones) /\ Found(f) = "prototype" /\ Range(Clones) \subseteq Name
      BY <1>1, <1>2, <2>1, <2>2, <2>6, <2>8 DEF Found, Range
    <3>5. checkpoint'.clones = Append(Clones, f)
      BY <2>3, <2>8
    <3>6. \A g \in Name : checkpoint.before[g] =
            IF g \in Range(Clones) \union {f} THEN "prototype"
            ELSE IF functions'[g] # 0 /\ functions'[g] <= checkpoint.start
                 THEN module'[functions'[g]].body ELSE "absent"
      BY <1>2, <2>2, <2>5, <3>4 DEF Found
    <3>7. \A g \in Range(Clones) \union {f} :
            functions'[g] = 0 \/ functions'[g] > checkpoint.start
      BY <1>2, <2>2, <2>4, <2>5, <3>4
    <3>8. \A j, k \in DOMAIN Append(Clones, f) : Append(Clones, f)[j] = Append(Clones, f)[k] => j = k
      <4>1. \A k \in 1..Len(Clones) : Clones[k] # f
        BY <3>1, <3>4 DEF Range
      <4> QED
        BY <1>2, <2>2, <3>1, <3>2, <4>1
    <3> QED
      BY <2>3, <3>3, <3>5, <3>6, <3>7, <3>8 DEF BeforeInv
  <2> QED
    BY <2>7, <2>8
<1> QED
  BY <1>1, <1>5, <1>6, <1>7, <1>8, <1>9, <1>10, <1>11, Effects

-----------------------------------------------------------------------------
(* What is half imported.                                                  *)
NoneOpen == \A i \in DOMAIN module : module[i].body # "open"
BodyOnTop == frames # <<>> /\ Top.unit = "function" /\ Top.phase = "body"

LEMMA NewTop ==
  ASSUME StackInv, NEW fr, Fits(fr)
  PROVE  /\ Push(fr) => frames' # <<>> /\ Top' = fr /\ reply' = "none"
         /\ frames # <<>> /\ Become(fr) => frames' # <<>> /\ Top' = fr /\ reply' = "none"
<1>1. frames \in Seq(Frame) /\ fr \in Frame
  BY DEF StackInv, Nested, Fits
<1>2. <<fr>> \o frames # <<>> /\ Head(<<fr>> \o frames) = fr
  BY <1>1
<1>3. frames # <<>> => <<fr>> \o Tail(frames) # <<>> /\ Head(<<fr>> \o Tail(frames)) = fr
  BY <1>1
<1> QED
  BY <1>2, <1>3 DEF Push, Become, Top

(* A step that opens nothing leaves nothing open when nothing was.          *)
LEMMA StaysShut ==
  ASSUME NoneOpen, DOMAIN module' \subseteq DOMAIN module \union {born + 1},
         \A i \in DOMAIN module' : i \in DOMAIN module => module'[i] = module[i],
         born + 1 \in DOMAIN module' => module'[born + 1].body # "open",
         ~BodyOnTop'
  PROVE  OpenInv'
<1>1. \A i \in DOMAIN module' : module'[i].body # "open"
  BY DEF NoneOpen
<1>2. ~(frames' # <<>> /\ Top'.unit = "function" /\ Top'.phase = "body")
  BY DEF BodyOnTop
<1> QED
  BY <1>1, <1>2 DEF OpenInv

LEMMA NoneOpenWhen ==
  ASSUME OpenInv,
         \/ ~Active
         \/ reply = "ok"
         \/ reply = "none" /\ ~BodyOnTop
         \/ reply = "failed" /\ frames # <<>> /\ ~Imports(Top) /\ Top.unit # "functions"
  PROVE  NoneOpen
BY DEF OpenInv, NoneOpen, Unfinished, BodyOnTop

(* The module is as it was.                                                *)
LEMMA OpenSame ==
  ASSUME NoneOpen, module' = module, ~BodyOnTop'
  PROVE  OpenInv'
BY StaysShut DEF NoneOpen

LEMMA OpenCall ==
  ASSUME RecoveryInv, Call \/ EndBody
  PROVE  OpenInv'
<1>1. /\ RecoveryTypes /\ StackInv /\ TableInv /\ OpenInv
      /\ \A i \in DOMAIN module : module[i].body = "open" =>
           Active /\ i > checkpoint.start /\ Unfinished(i)
  BY DEF RecoveryInv, OpenInv
<1>2. /\ frames # <<>> /\ reply = "none" /\ Top.unit = "function" /\ Top.phase = "body"
      /\ At("function", "body") /\ UNCHANGED <<functions, checkpoint, step>>
  BY DEF Call, EndBody, At, walk
<1> PICK w : w = functions[Top.of]
  OBVIOUS
<1> PICK f : f = Top.of
  OBVIOUS
<1>3. /\ Active /\ Active' /\ w \in DOMAIN module /\ w > checkpoint.start /\ Fits(Top) /\ w # 0
      /\ module[w].symbol = f /\ module[w].body = "open" /\ f \in Name /\ IsOp(module[w])
  BY <1>1, <1>2, OpenIsNamed, TopFits DEF Active, RecoveryTypes
<1>4. \A i \in DOMAIN module : module[i].body = "open" => i = w
  <2> SUFFICES ASSUME NEW i \in DOMAIN module, module[i].body = "open" PROVE i = w
    OBVIOUS
  <2>1. module[i].symbol = Top.of
    BY <1>1, <1>2 DEF Unfinished
  <2>2. i \in FunctionOps
    BY DEF FunctionOps
  <2> QED
    BY <1>1, <1>3, <2>1, <2>2 DEF TableInv, Active
<1>5. CASE Return("failed") /\ module' = module
  <2>1. /\ frames' # <<>> => Fits(Top') /\ Awaits(Top', Top) /\ Top'.phase # "body"
        /\ reply' = "failed"
    BY <1>1, <1>2, <1>5, ReturnKeeps
  <2>2. ASSUME frames' # <<>>, Top'.unit # "functions"
        PROVE  Imports(Top)' /\ Head(Top.left)' = Top.of
    <3>1. ~Demands(Top)'
      BY <1>2, <2>1, <2>2 DEF Awaits, Demands
    <3>2. Imports(Top)'
      BY <2>1, <2>2, <3>1 DEF Fits, Frame, Demands, Imports
    <3> QED
      BY <2>1, <2>2, <3>2 DEF Awaits, Imports
  <2>3. Unfinished(w)'
    BY <1>3, <1>5, <2>1, <2>2 DEF Unfinished
  <2> QED
    BY <1>2, <1>3, <1>4, <1>5, <2>1, <2>3 DEF OpenInv
<1>6. CASE Call /\ functions[Head(Top.left)] # 0
  <2> DEFINE fr == [Top EXCEPT !.left = Tail(Top.left)]
  <2>1. Become(fr) /\ Top.left # <<>>
        /\ module' = [module EXCEPT ![w].calls = @ \union {Head(Top.left)}]
    BY <1>6 DEF Call
  <2>2. /\ DOMAIN module' = DOMAIN module
        /\ module'[w].body = "open" /\ module'[w].symbol = f
        /\ \A i \in DOMAIN module : i # w => module'[i] = module[i]
    BY <1>3, <2>1 DEF IsOp
  <2>3. Fits(fr) /\ fr.unit = "function" /\ fr.of = f /\ fr.phase = "body"
    BY <1>2, <1>3, <2>1, AdvanceFits
  <2>4. /\ frames' # <<>> /\ Top'.unit = "function" /\ Top'.of = f /\ Top'.phase = "body"
        /\ reply' = "none"
    BY <1>1, <1>2, <2>1, <2>3, NewTop
  <2>5. Unfinished(w)'
    BY <2>2, <2>4 DEF Unfinished
  <2>6. functions'[Top'.of] = w
    BY <1>2, <2>4
  <2> QED
    BY <1>2, <1>3, <1>4, <2>2, <2>4, <2>5, <2>6 DEF OpenInv
<1>7. CASE EndBody /\ <<Top.of, "body">> \notin faults
  <2>1. Return("ok") /\ module' = [module EXCEPT ![w].body = "real"]
    BY <1>7 DEF EndBody
  <2>2. \A i \in DOMAIN module' : module'[i].body # "open"
    BY <1>3, <1>4, <2>1 DEF IsOp
  <2>3. ~BodyOnTop'
    BY <1>1, <1>2, <2>1, ReturnKeeps DEF BodyOnTop
  <2> QED
    BY <2>2, <2>3 DEF OpenInv, BodyOnTop
<1> QED
  BY <1>5, <1>6, <1>7 DEF Call, EndBody

LEMMA OpenRegister ==
  ASSUME RecoveryInv, Register
  PROVE  OpenInv'
<1>1. /\ RecoveryTypes /\ StackInv /\ OpenInv /\ AnchorInv /\ born \in Nat
      /\ functions \in [Name -> Nat]
  BY DEF RecoveryInv, RecoveryTypes
<1> PICK f : f = Top.of
  OBVIOUS
<1> PICK old : old = functions[f]
  OBVIOUS
<1>2. /\ frames # <<>> /\ reply = "none" /\ Top.unit = "function" /\ f \in Name
      /\ DOMAIN module' = (DOMAIN module \ {old}) \union {born + 1} /\ born' = born + 1
      /\ \A i \in DOMAIN module \ {old} : module'[i] = module[i] /\ i \in 1..born
      /\ \E b \in {"stub", "open", "prototype"} : module'[born + 1] = Op(f, b)
      /\ module'[born + 1].body = "open" =>
           Become([Top EXCEPT !.phase = "body", !.left = CallsOf[f]])
      /\ module'[born + 1].body # "open" => Return("ok")
      /\ functions' = [functions EXCEPT ![f] = born + 1]
      /\ checkpoint' = [checkpoint EXCEPT
           !.clones = IF old # 0 /\ old <= checkpoint.anchor THEN Append(@, f) ELSE @,
           !.anchor = AnchorWithout({old} \ {0})]
  BY <1>1, RegisterEffect
<1>3. Top.phase = "signature" /\ step' = step
  BY DEF Register, Signed, At, walk
<1>4. Active /\ Active' /\ Fits(Top) /\ checkpoint.start <= born /\ checkpoint.start \in Nat
  BY <1>1, <1>2, <1>3, TopFits DEF Active, AnchorInv, RecoveryTypes
<1>5. checkpoint'.start = checkpoint.start
  BY <1>1, <1>2 DEF RecoveryTypes
<1>6. NoneOpen
  BY <1>1, <1>2, <1>3, NoneOpenWhen DEF BodyOnTop
<1>7. module'[born + 1].symbol = f
  BY <1>2 DEF Op
<1>8. CASE module'[born + 1].body = "open"
  <2> DEFINE fr == [Top EXCEPT !.phase = "body", !.left = CallsOf[f]]
  <2>1. Fits(fr) /\ fr.unit = "function" /\ fr.of = f /\ fr.phase = "body"
    <3>1. CallsOf[f] \in Seq(Name) /\ CallsOf[f] \in Seq(Name \union Class)
      BY <1>2, RecoveryAssumption
    <3>2. fr \in Frame
      BY <1>4, <3>1 DEF Fits, Frame
    <3> QED
      BY <1>2, <1>4, <3>1, <3>2 DEF Fits, Frame
  <2>2. /\ frames' # <<>> /\ Top'.unit = "function" /\ Top'.of = f /\ Top'.phase = "body"
        /\ reply' = "none"
    BY <1>1, <1>2, <1>8, <2>1, NewTop
  <2>3. \A i \in DOMAIN module' : module'[i].body = "open" => i = born + 1
    BY <1>2, <1>6 DEF NoneOpen
  <2>4. PICK n : n = born + 1
    OBVIOUS
  <2>5. Unfinished(n)'
    BY <1>7, <2>2, <2>4 DEF Unfinished
  <2>6. n > checkpoint'.start /\ n # 0
    BY <1>1, <1>4, <1>5, <2>4
  <2>7. functions'[Top'.of] = n
    BY <1>1, <1>2, <2>2, <2>4
  <2>8. (\A i \in DOMAIN module : module[i].body = "open" =>
           Active /\ i > checkpoint.start /\ Unfinished(i))'
    BY <1>4, <2>3, <2>4, <2>5, <2>6
  <2>9. frames' # <<>> /\ Top'.unit = "function" /\ Top'.phase = "body" =>
          /\ functions'[Top'.of] # 0 /\ functions'[Top'.of] > checkpoint'.start
          /\ module'[functions'[Top'.of]].body = "open"
    BY <1>8, <2>4, <2>6, <2>7
  <2> QED
    BY <2>8, <2>9 DEF OpenInv
<1>9. CASE module'[born + 1].body # "open"
  <2>1. ~BodyOnTop'
    BY <1>1, <1>2, <1>9, ReturnKeeps DEF BodyOnTop
  <2>2. \A i \in DOMAIN module' : i \in DOMAIN module => module'[i] = module[i]
    <3>1. born + 1 \notin DOMAIN module
      BY <1>1 DEF RecoveryTypes
    <3> QED
      BY <1>2, <3>1
  <2>3. DOMAIN module' \subseteq DOMAIN module \union {born + 1}
    BY <1>2
  <2> QED
    BY <1>6, <1>9, <2>1, <2>2, <2>3, StaysShut
<1> QED
  BY <1>8, <1>9

LEMMA OpenErase ==
  ASSUME RecoveryInv, Omit \/ RejectClass
  PROVE  OpenInv'
<1>1. /\ RecoveryTypes /\ StackInv /\ TableInv /\ OpenInv
      /\ frames # <<>> /\ Top.unit = "class"
  BY DEF RecoveryInv, Omit, RejectClass
<1>2. Fits(Top) /\ Active
  BY <1>1, TopFits
<1>3. ~BodyOnTop'
  <2>1. CASE Omit
    <3> DEFINE fr == [Top EXCEPT !.phase = "signatures", !.left = MethodsOf[Top.of]]
    <3>1. Become(fr)
      BY <2>1 DEF Omit
    <3>2. Fits(fr) /\ fr.unit = "class"
      BY <1>1, <1>2, ClassPassFits
    <3>3. Top' = fr
      BY <1>1, <3>1, <3>2, NewTop
    <3> QED
      BY <3>2, <3>3 DEF BodyOnTop
  <2>2. CASE RejectClass
    <3>1. Return("failed")
      BY <2>2 DEF RejectClass
    <3> QED
      BY <1>1, <3>1, ReturnKeeps DEF BodyOnTop
  <2> QED
    BY <2>1, <2>2
<1>4. CASE RejectClass /\ Top.phase = "fields"
  <2>1. reply \in {"none", "ok", "failed"} /\ module' = module
    BY <1>1, <1>4 DEF RejectClass, RecoveryTypes
  <2>2. NoneOpen
    BY <1>1, <1>4, <2>1, NoneOpenWhen DEF Imports, BodyOnTop
  <2> QED
    BY <1>3, <2>1, <2>2, OpenSame
<1> DEFINE Erasing == reply = "failed" /\ Imports(Top) /\ \E X : Erase(Methods(Top.of), X)
<1>5. CASE Erasing
  <2> DEFINE S == Methods(Top.of)
  <2>1. PICK X : Erase(S, X)
    BY <1>5
  <2>2. S \in SUBSET Name /\ Top.left # <<>> /\ Head(Top.left) \in S
    <3>1. Top.of \in Class /\ Top.left \in Seq(S) /\ Top.left # <<>>
      BY <1>1, <1>2, <1>5 DEF Fits, Imports, StackInv
    <3> QED
      BY <3>1, MethodsAreNames
  <2>3. /\ DOMAIN module' = DOMAIN module \ (Registered(S) \union X)
        /\ \A i \in DOMAIN module' : module'[i] = module[i]
    BY <1>1, <2>1, <2>2, EraseEffect
  <2>4. \A i \in DOMAIN module' : module'[i].body # "open"
    <3> SUFFICES ASSUME NEW i \in DOMAIN module', module'[i].body = "open" PROVE FALSE
      OBVIOUS
    <3>1. i \in DOMAIN module /\ module[i].body = "open" /\ i \notin Registered(S)
      BY <2>3
    <3>2. Unfinished(i)
      BY <1>1, <3>1 DEF OpenInv
    <3>3. module[i].symbol \in S
      BY <1>1, <1>5, <2>2, <3>2 DEF Unfinished
    <3>4. functions[module[i].symbol] = i /\ i # 0
      <4>1. i \in FunctionOps /\ step \notin {"done", "error"} /\ i # 0
        BY <1>1, <1>2, <3>1 DEF FunctionOps, Active, RecoveryTypes
      <4> QED
        BY <1>1, <4>1 DEF TableInv
    <3> QED
      BY <3>1, <3>3, <3>4 DEF Registered
  <2>5. ~(frames' # <<>> /\ Top'.unit = "function" /\ Top'.phase = "body")
    BY <1>3 DEF BodyOnTop
  <2> QED
    BY <2>4, <2>5 DEF OpenInv
<1> QED
  <2>1. Omit => Erasing
    BY DEF Omit, Imports
  <2>2. RejectClass /\ Top.phase # "fields" => Erasing
    BY <1>1 DEF RejectClass, Imports, At
  <2> QED
    BY <1>4, <1>5, <2>1, <2>2

LEMMA OpenUndo ==
  ASSUME RecoveryInv, Undoes, ~BodyOnTop'
  PROVE  OpenInv'
<1>1. /\ RecoveryTypes /\ AnchorInv /\ OpenInv /\ RollBack /\ Active /\ born \in Nat
      /\ checkpoint.start \in Nat
  BY DEF RecoveryInv, Undoes, RecoveryTypes
<1>2. /\ DOMAIN module' = Remaining \union {born + k : k \in DOMAIN Clones}
      /\ \A i \in Remaining : i \in DOMAIN module /\ i \in 1..born /\ module'[i] = module[i]
      /\ \A k \in DOMAIN Clones : module'[born + k] = Op(Clones[k], "prototype")
  BY <1>1, RollBackEffect
<1>3. \A i \in Remaining : module[i].body # "open"
  <2> SUFFICES ASSUME NEW i \in Remaining, module[i].body = "open" PROVE FALSE
    OBVIOUS
  <2>1. i \in DOMAIN module /\ i \in Nat /\ i > checkpoint.start
    BY <1>1, <1>2 DEF OpenInv
  <2>2. i <= checkpoint.start
    BY <1>1, <2>1 DEF Remaining, AnchorInv
  <2> QED
    BY <1>1, <2>1, <2>2
<1>4. \A i \in DOMAIN module' : module'[i].body # "open"
  <2>1. \A k \in DOMAIN Clones : module'[born + k].body = "prototype"
    <3> SUFFICES ASSUME NEW k \in DOMAIN Clones PROVE module'[born + k].body = "prototype"
      OBVIOUS
    <3>1. module'[born + k] = Op(Clones[k], "prototype")
      BY <1>2
    <3> QED
      BY <3>1 DEF Op
  <2> QED
    BY <1>2, <1>3, <2>1
<1>5. ~(frames' # <<>> /\ Top'.unit = "function" /\ Top'.phase = "body")
  BY DEF BodyOnTop
<1> QED
  BY <1>4, <1>5 DEF OpenInv

LEMMA OpenStep ==
  ASSUME RecoveryInv, Next
  PROVE  OpenInv'
<1>1. RecoveryTypes /\ StackInv /\ OpenInv /\ (frames # <<>> => Fits(Top) /\ Active)
  BY TopFits DEF RecoveryInv
<1>2. ASSUME frames # <<>>, NEW r, Return(r) PROVE ~BodyOnTop'
  BY <1>1, <1>2, ReturnKeeps DEF BodyOnTop
<1>3. ASSUME NEW fr, Fits(fr), fr.phase # "body", Push(fr) \/ (frames # <<>> /\ Become(fr))
      PROVE  ~BodyOnTop'
  BY <1>1, <1>3, NewTop DEF BodyOnTop
<1>4. CASE Begin \/ Retry
  <2>1. NoneOpen /\ module' = module /\ frames = <<>>
    BY <1>1, <1>4, NoneOpenWhen DEF Begin, Retry, Active
  <2>2. ~BodyOnTop'
    <3>1. CASE frames' = frames
      BY <2>1, <3>1 DEF BodyOnTop
    <3>2. CASE Push(FrameOf(Declared))
      <4>1. Declared \in Declaration
        BY <1>1, <1>4, ProgramAssumption DEF Begin, Retry, RecoveryTypes, Declared
      <4>2. FrameOf(Declared).phase # "body"
        BY DEF FrameOf, Function, Items
      <4> QED
        BY <1>3, <3>2, <4>1, <4>2, NewFramesFit
    <3> QED
      BY <1>4, <3>1, <3>2 DEF Begin, Retry
  <2> QED
    BY <2>1, <2>2, OpenSame
<1>5. CASE Accept
  <2>1. NoneOpen /\ module' = module /\ ~BodyOnTop'
    BY <1>1, <1>5, NoneOpenWhen DEF Accept, BodyOnTop
  <2> QED
    BY <2>1, OpenSame
<1>6. CASE Reject
  <2>1. Undoes /\ ~BodyOnTop'
    BY <1>6 DEF Reject, Undoes, Next1, Live, Active, BodyOnTop
  <2> QED
    BY <2>1, OpenUndo
<1>7. CASE FinishRetry
  <2>1. step = "retry" /\ step' = "walk" /\ frames = <<>> /\ UNCHANGED checkpoint /\ ~BodyOnTop'
    BY <1>7 DEF FinishRetry, Next1, BodyOnTop
  <2>2. CASE Stubbed
    <3>1. module' = module /\ NoneOpen
      BY <1>1, <1>7, <2>2, NoneOpenWhen DEF FinishRetry, Stubbed
    <3> QED
      BY <2>1, <3>1, OpenSame
  <2>3. CASE ~Stubbed
    <3>1. Undoes
      BY <1>7, <2>1, <2>3 DEF FinishRetry, Undoes, Live, Active
    <3> QED
      BY <2>1, <3>1, OpenUndo
  <2> QED
    BY <2>2, <2>3
<1>8. CASE Finalize
  <2>1. NoneOpen /\ ~BodyOnTop'
    BY <1>1, <1>8, NoneOpenWhen DEF Finalize, Active, BodyOnTop
  <2>2. module' = Restrict(module, DOMAIN module \ Unused)
    BY <1>8 DEF Finalize
  <2>3. /\ DOMAIN module' = DOMAIN module \ Unused
        /\ \A i \in DOMAIN module' : module'[i] = module[i]
    BY <2>2, RestrictTypes
  <2>4. \A i \in DOMAIN module' : module'[i].body # "open"
    BY <2>1, <2>3 DEF NoneOpen
  <2> QED
    BY <2>1, <2>4 DEF OpenInv, BodyOnTop
<1>9. CASE Demand
  <2>1. /\ frames # <<>> /\ Top.left # <<>> /\ Demands(Top) /\ reply = "none"
        /\ ~BodyOnTop /\ module' = module
    BY <1>9 DEF Demand, At, Demands, BodyOnTop
  <2>2. NoneOpen
    BY <1>1, <2>1, NoneOpenWhen
  <2>3. ~BodyOnTop'
    <3>1. CASE frames' = frames
      BY <2>1, <3>1 DEF BodyOnTop, Top
    <3>2. CASE Push(Record(Head(Top.left)))
      <4>1. Top.left \in Seq(Class)
        BY <1>1, <2>1 DEF Demands, Fits
      <4>2. Head(Top.left) \in Class
        BY <2>1, <4>1
      <4>3. Record(Head(Top.left)).phase # "body"
        BY DEF Record
      <4> QED
        BY <1>3, <3>2, <4>2, <4>3, NewFramesFit
    <3> QED
      BY <1>9, <3>1, <3>2 DEF Demand
  <2> QED
    BY <2>1, <2>2, <2>3, OpenSame
<1>10. CASE Advance
  <2>1. /\ frames # <<>> /\ reply = "ok" /\ module' = module /\ Top.left # <<>>
        /\ Top.phase # "body" /\ Become([Top EXCEPT !.left = Tail(Top.left)])
    BY <1>1, <1>10 DEF Advance, StackInv
  <2>2. NoneOpen
    BY <1>1, <2>1, NoneOpenWhen
  <2>3. ~BodyOnTop'
    BY <1>1, <1>3, <2>1, AdvanceFits
  <2> QED
    BY <2>1, <2>2, <2>3, OpenSame
<1>11. CASE RejectSignature \/ Reconcile \/ EndItems
  <2>1. /\ frames # <<>> /\ ~BodyOnTop /\ module' = module /\ \E r : Return(r)
        /\ reply = "none" \/ (reply = "failed" /\ ~Imports(Top) /\ Top.unit # "functions")
    BY <1>11 DEF RejectSignature, Reconcile, EndItems, Signed, At, Imports, BodyOnTop
  <2>2. NoneOpen
    BY <1>1, <2>1, NoneOpenWhen
  <2> QED
    BY <1>2, <2>1, <2>2, OpenSame
<1>12. CASE Register
  BY <1>12, OpenRegister
<1>13. CASE Call \/ EndBody
  BY <1>13, OpenCall
<1>14. CASE Define
  <2> DEFINE fr == [Top EXCEPT !.phase = "signatures", !.left = MethodsOf[Top.of]]
  <2>1. /\ frames # <<>> /\ ~BodyOnTop /\ Top.unit = "class" /\ reply = "none" /\ Become(fr)
        /\ module' = With(module, Op(Top.of, "struct"))
    BY <1>14 DEF Define, At, BodyOnTop
  <2>2. NoneOpen
    BY <1>1, <2>1, NoneOpenWhen
  <2>3. Fits(fr) /\ fr.phase = "signatures" /\ Top.of \in Class
    <3>1. Top \in Frame /\ Fits(Top) /\ Top.of \in Class
      BY <1>1, <2>1 DEF Fits
    <3> QED
      BY <2>1, <3>1, ClassPassFits DEF Frame
  <2>4. ~BodyOnTop'
    BY <1>3, <2>1, <2>3
  <2>5. /\ DOMAIN module' = DOMAIN module \union {born + 1}
        /\ module'[born + 1] = Op(Top.of, "struct")
        /\ \A i \in DOMAIN module : module'[i] = module[i]
    BY <1>1, <2>1, <2>3, NewOps, WithTypes
  <2>6. Op(Top.of, "struct").body # "open"
    BY DEF Op
  <2> QED
    BY <2>2, <2>4, <2>5, <2>6, StaysShut
<1>15. CASE ImportMethod \/ EndPass
  <2>1. /\ frames # <<>> /\ ~BodyOnTop /\ Imports(Top) /\ reply = "none" /\ module' = module
        /\ Top.unit = "class" /\ Fits(Top) /\ Top \in Frame /\ Top.phase # "body"
    BY <1>1, <1>15 DEF ImportMethod, EndPass, At, Imports, BodyOnTop, Fits
  <2>2. NoneOpen
    BY <1>1, <2>1, NoneOpenWhen
  <2>3. CASE EndPass
    <3> DEFINE fr == [Top EXCEPT !.phase = "bodies", !.left = MethodsOf[Top.of]]
    <3>1. Become(fr) \/ Return("ok")
      BY <2>3 DEF EndPass
    <3>2. Fits(fr) /\ fr.phase = "bodies"
      BY <2>1, ClassPassFits DEF Frame
    <3> QED
      BY <1>2, <1>3, <2>1, <2>2, <3>1, <3>2, OpenSame
  <2>4. CASE ImportMethod
    <3>1. /\ Top.left # <<>>
          /\ \/ Become([Top EXCEPT !.left = Tail(Top.left)])
             \/ \E d \in BOOLEAN : Push(Function(Head(Top.left), d))
      BY <2>4 DEF ImportMethod
    <3>2. Head(Top.left) \in Name
      BY <2>1, <3>1, MethodsAreNames DEF Fits, Imports
    <3>3. \A d \in BOOLEAN : Fits(Function(Head(Top.left), d))
                             /\ Function(Head(Top.left), d).phase # "body"
      BY <3>2, NewFramesFit DEF Function
    <3>4. ~BodyOnTop'
      BY <1>3, <2>1, <3>1, <3>3, AdvanceFits
    <3> QED
      BY <2>1, <2>2, <3>4, OpenSame
  <2> QED
    BY <1>15, <2>3, <2>4
<1>16. CASE Omit \/ RejectClass
  BY <1>16, OpenErase
<1>17. CASE ImportSpecialization
  <2>1. /\ frames # <<>> /\ ~BodyOnTop /\ reply = "none" /\ module' = module
        /\ Top.left # <<>> /\ Top.unit = "functions" /\ Push(Function(Head(Top.left), TRUE))
    BY <1>17 DEF ImportSpecialization, At, BodyOnTop
  <2>2. NoneOpen
    BY <1>1, <2>1, NoneOpenWhen
  <2>3. Top.left \in Seq(Name)
    BY <1>1, <2>1 DEF Fits
  <2>4. Head(Top.left) \in Name
    BY <2>1, <2>3
  <2>5. Fits(Function(Head(Top.left), TRUE)) /\ Function(Head(Top.left), TRUE).phase # "body"
    BY <2>4, NewFramesFit DEF Function
  <2> QED
    BY <1>3, <2>1, <2>2, <2>5, OpenSame
<1>18. CASE RejectItems
  <2>1. /\ frames # <<>> /\ Top.unit \in {"functions", "classes"} /\ Return("failed")
        /\ UNCHANGED <<module, functions, checkpoint, step>>
    BY <1>18 DEF RejectItems, walk
  <2>2. frames' = <<>> /\ reply' = "failed"
    <3>1. ASSUME frames' # <<>> PROVE FALSE
      <4>1. Fits(Top') /\ Awaits(Top', Top)
        BY <1>1, <2>1, <3>1, ReturnKeeps
      <4> QED
        BY <2>1, <4>1 DEF Fits, Frame, Awaits, Demands, Imports
    <3> QED
      BY <2>1, <3>1 DEF Return
  <2>3. \A i \in DOMAIN module' : module'[i].body = "open" =>
          Active' /\ i > checkpoint'.start
    BY <1>1, <2>1 DEF OpenInv, Active
  <2>4. \A i \in DOMAIN module' : Unfinished(i)'
    BY <2>2 DEF Unfinished
  <2> QED
    BY <2>2, <2>3, <2>4 DEF OpenInv
<1> QED
  BY <1>4, <1>5, <1>6, <1>7, <1>8, <1>9, <1>10, <1>11, <1>12, <1>13, <1>14, <1>15, <1>16,
     <1>17, <1>18 DEF Next

-----------------------------------------------------------------------------
(* The invariant.                                                          *)
LEMMA InitRecovery == Init => RecoveryInv
<1> SUFFICES ASSUME Init PROVE RecoveryInv
  OBVIOUS
<1>1. /\ module = <<>> /\ DOMAIN module = {} /\ born = 0 /\ functions = [f \in Name |-> 0]
      /\ imported = {} /\ checkpoint = Mark /\ frames = <<>> /\ Len(frames) = 0
      /\ reply = "none" /\ stub = NoStub /\ step = "walk" /\ item = 1 /\ program \in Programs
      /\ ~Active
  BY DEF Init, Active
<1>2. RecoveryTypes
  <2>1. Last(DOMAIN module) \in Nat
    BY <1>1, LastIsLast
  <2>2. Table \in [Name -> Body \union {"absent"}]
    BY <1>1 DEF Table
  <2>3. checkpoint \in [anchor : Nat, clones : Seq(Name), start : Nat,
                        before : [Name -> Body \union {"absent"}]]
    BY <1>1, <2>1, <2>2 DEF Mark
  <2>4. stub \in [only : BOOLEAN, symbol : SUBSET Name]
    BY <1>1 DEF NoStub
  <2> QED
    BY <1>1, <2>3, <2>4 DEF RecoveryTypes
<1>3. StackInv
  BY <1>2, StackInit
<1>4. TableInv /\ OwnersInv
  BY <1>1 DEF TableInv, FunctionOps, OwnersInv
<1>5. AnchorInv /\ OpenInv /\ BeforeInv
  BY <1>1 DEF AnchorInv, OpenInv, BeforeInv
<1> QED
  BY <1>2, <1>3, <1>4, <1>5 DEF RecoveryInv

LEMMA RecoveryStep == RecoveryInv /\ [Next]_vars => RecoveryInv'
<1> SUFFICES ASSUME RecoveryInv, [Next]_vars PROVE RecoveryInv'
  OBVIOUS
<1>1. CASE UNCHANGED vars
  <2>1. /\ UNCHANGED <<program, module, born, functions, imported, checkpoint, frames, reply>>
        /\ UNCHANGED <<stub, step, item>>
    BY <1>1 DEF vars, input, types, walk
  <2>2. Active' = Active /\ Top' = Top /\ FunctionOps' = FunctionOps
    BY <2>1 DEF Active, Top, FunctionOps
  <2>3. RecoveryTypes' /\ StackInv' /\ TableInv' /\ AnchorInv' /\ BeforeInv'
    BY <2>1, <2>2 DEF RecoveryInv, RecoveryTypes, StackInv, TableInv, AnchorInv, BeforeInv
  <2>4. OwnersInv'
    BY <2>1, <2>2 DEF RecoveryInv, OwnersInv, Fresh
  <2>5. OpenInv'
    BY <2>1, <2>2 DEF RecoveryInv, OpenInv, Unfinished
  <2> QED
    BY <2>3, <2>4, <2>5 DEF RecoveryInv
<1>2. CASE Next
  <2>1. StackInv'
    BY <1>2, StackStep DEF RecoveryInv
  <2> QED
    BY <1>2, <2>1, TypesStep, TableStep, OwnersStep, AnchorStep, OpenStep, BeforeStep
    DEF RecoveryInv
<1> QED
  BY <1>1, <1>2

(* The strengthening: the table, the stack of imports under way, the anchor *)
(* and what the checkpoint found stay consistent with each other.           *)
THEOREM RecoveryInvariant == Spec => []RecoveryInv
<1> QED
  BY InitRecovery, RecoveryStep, PTL DEF Spec

(* At every step of the walk the function table of the importer and the     *)
(* operations in the module name each other, and between two declarations   *)
(* no function is left without the end of its body.                        *)
THEOREM ModuleStaysWhole == Spec => []ModuleIsWhole
<1>1. RecoveryInv => ModuleIsWhole
  <2> SUFFICES ASSUME RecoveryInv, step \notin {"done", "error"}
               PROVE  /\ \A f \in Name : functions[f] # 0 =>
                           functions[f] \in FunctionOps /\ module[functions[f]].symbol = f
                      /\ \A i \in FunctionOps :
                           /\ functions[module[i].symbol] = i
                           /\ step = "walk" => module[i].body # "open"
    BY DEF ModuleIsWhole
  <2>1. \A i \in FunctionOps : step = "walk" => module[i].body # "open"
    BY DEF RecoveryInv, OpenInv, FunctionOps, Active
  <2> QED
    BY <2>1 DEF RecoveryInv, TableInv
<1> QED
  BY <1>1, RecoveryInvariant, PTL

(* eraseTopLevelOp and rollbackTo: whatever an import erases, the anchor of *)
(* its checkpoint stays live and still splits the module.                   *)
THEOREM AnchorStaysLive == Spec => []AnchorSplitsTheModule
<1>1. RecoveryInv => AnchorSplitsTheModule
  BY DEF RecoveryInv, AnchorInv, AnchorSplitsTheModule, Active
<1> QED
  BY <1>1, RecoveryInvariant, PTL

LEMMA UndoRestores ==
  ASSUME RecoveryInv, Undoes
  PROVE  Table' = checkpoint.before
<1>1. /\ RecoveryTypes /\ RollBack /\ Active /\ AnchorInv /\ TableInv /\ BeforeInv
      /\ born \in Nat /\ functions \in [Name -> Nat] /\ checkpoint.start \in Nat
  BY DEF RecoveryInv, Undoes, RecoveryTypes
<1>2. /\ \A i \in Remaining : i \in DOMAIN module /\ i \in 1..born /\ module'[i] = module[i]
      /\ \A k \in DOMAIN Clones :
           k \in 1..Len(Clones) /\ module'[born + k] = Op(Clones[k], "prototype")
      /\ \A f \in Range(Clones) : f \in Name /\ \E k \in DOMAIN Clones :
           Clones[k] = f /\ functions'[f] = born + k
      /\ \A f \in Name \ Range(Clones) :
           functions'[f] = IF functions[f] \in Remaining THEN functions[f] ELSE 0
  BY <1>1, RollBackEffect
<1>3. \A f \in Name : Table'[f] = checkpoint.before[f]
  <2> SUFFICES ASSUME NEW f \in Name PROVE Table'[f] = checkpoint.before[f]
    OBVIOUS
  <2>1. Table'[f] = IF functions'[f] = 0 THEN "absent" ELSE module'[functions'[f]].body
    BY DEF Table
  <2>2. CASE f \in Range(Clones)
    <3>1. PICK k \in DOMAIN Clones : Clones[k] = f /\ functions'[f] = born + k
      BY <1>2, <2>2
    <3>2. k \in 1..Len(Clones) /\ module'[born + k] = Op(Clones[k], "prototype")
      BY <1>2
    <3>3. born + k # 0
      BY <1>1, <3>2
    <3>4. Table'[f] = "prototype"
      BY <2>1, <3>1, <3>2, <3>3 DEF Op
    <3> QED
      BY <1>1, <2>2, <3>4 DEF BeforeInv, Clones
  <2>3. CASE f \notin Range(Clones)
    <3>1. checkpoint.before[f] = IF functions[f] # 0 /\ functions[f] <= checkpoint.start
                                 THEN module[functions[f]].body ELSE "absent"
      BY <1>1, <2>3 DEF BeforeInv, Clones
    <3>2. functions[f] # 0 => functions[f] \in DOMAIN module /\ module[functions[f]].body # "struct"
      BY <1>1 DEF TableInv, FunctionOps, Active
    <3>3. functions[f] # 0 => (functions[f] \in Remaining <=> functions[f] <= checkpoint.start)
      BY <1>1, <3>2 DEF Remaining, AnchorInv
    <3>4. functions'[f] = IF functions[f] \in Remaining THEN functions[f] ELSE 0
      BY <1>2, <2>3
    <3>5. CASE functions[f] # 0 /\ functions[f] <= checkpoint.start
      BY <1>2, <2>1, <3>1, <3>3, <3>4, <3>5
    <3>6. CASE ~(functions[f] # 0 /\ functions[f] <= checkpoint.start)
      BY <2>1, <3>1, <3>3, <3>4, <3>6
    <3> QED
      BY <3>5, <3>6
  <2> QED
    BY <2>2, <2>3
<1>4. Table' = [f \in Name |-> Table'[f]]
  BY DEF Table
<1>5. checkpoint.before \in [Name -> Body \union {"absent"}]
  BY <1>1 DEF RecoveryTypes
<1> QED
  BY <1>3, <1>4, <1>5

(* rollbackTo: a declaration or a retry that fails leaves every function    *)
(* what it was, whatever it created, replaced or erased on the way.         *)
THEOREM RollbackIsExact == Spec => RollbackRestores
<1> DEFINE Fails == \/ step = "import" /\ step' = "undone"
                    \/ step = "import" /\ step' = "walk" /\ reply = "failed"
                    \/ step = "retry" /\ step' = "walk" /\ ~Stubbed
<1>1. RecoveryInv /\ [Next]_vars => [Fails => Table' = checkpoint.before]_vars
  <2> SUFFICES ASSUME RecoveryInv, Next, Fails PROVE Table' = checkpoint.before
    OBVIOUS
  <2>1. step' # step /\ step \in {"import", "retry"}
    OBVIOUS
  <2>2. Accept \/ Reject \/ FinishRetry
    BY <2>1 DEF Next, Begin, Retry, Finalize, Demand, Advance, RejectSignature, Reconcile,
       Register, Call, EndBody, Define, ImportMethod, EndPass, Omit, RejectClass,
       ImportSpecialization, EndItems, RejectItems, walk
  <2>3. Undoes
    <3>1. ~Accept
      BY DEF Accept, Next1
    <3>2. CASE Reject
      BY <3>2 DEF Reject, Undoes, Next1, Live, Active
    <3>3. CASE FinishRetry
      BY <3>3 DEF FinishRetry, Undoes, Next1, Live, Active
    <3> QED
      BY <2>2, <3>1, <3>2, <3>3
  <2> QED
    BY <2>3, UndoRestores
<1>2. RollbackRestores <=> [][Fails => Table' = checkpoint.before]_vars
  BY DEF RollbackRestores
<1> QED
  BY <1>1, <1>2, RecoveryInvariant, PTL DEF Spec
-----------------------------------------------------------------------------
(* What the declarations define, and where it is.                          *)
UnderImport(f) ==
  \E k \in 1..Len(frames) : frames[k].unit = "class" /\ frames[k].of \in OwnersOf(f)

Settled(f) == InModule(f) /\ ~UnderImport(f)

Bottom == frames[Len(frames)]
Above == frames[Len(frames) - 1]

(* The declaration under way is the last frame, and a template has in the   *)
(* module the specializations it is past.                                  *)
ItemInv ==
  /\ step \in {"undone", "retry"} => Declared.kind = "function"
  /\ Active =>
     /\ frames = <<>> /\ reply = "ok" => \A f \in DefinedBy(Declared) : InModule(f)
     /\ frames # <<>> /\ Declared.kind = "function" =>
          /\ Bottom.unit = "function" /\ Bottom.of = Declared.symbol
          /\ Bottom.defines = Declared.defines
     /\ frames # <<>> /\ Declared.kind = "functions" =>
          /\ Bottom.unit = "functions"
          /\ Len(frames) > 1 => Above.of = Head(Bottom.left) /\ Above.defines
          /\ \A f \in Range(Declared.names) : f \in Range(Bottom.left) \/ Settled(f)
          /\ Len(frames) = 1 /\ reply = "ok" => Settled(Head(Bottom.left))

(* Whether a function has a body that no rollback takes away.               *)
Safe(f) == IF Active THEN checkpoint.before[f] \in {"real", "stub"} ELSE InModule(f)

LossInv ==
  /\ step \in {"done", "error"} => item > Len(program)
  /\ \A j \in DOMAIN program : j < item =>
       \A f \in DefinedBy(program[j]) :
         Safe(f) \/ Row(f) \in ledger \/ Row(program[j].symbol) \in ledger

-----------------------------------------------------------------------------
(* A body stays where it is while other declarations are imported.          *)
LEMMA InModuleIsNamed ==
  ASSUME RecoveryInv, Live, NEW f \in Name, InModule(f)
  PROVE  /\ functions[f] # 0 /\ functions[f] \in DOMAIN module /\ functions[f] \in 1..born
         /\ module[functions[f]].body \in {"real", "stub"}
         /\ module[functions[f]].symbol = f
BY DEF RecoveryInv, RecoveryTypes, TableInv, InModule, Live

LEMMA BodyKept ==
  ASSUME RecoveryInv, Next, frames # <<>>, NEW f \in Name, Settled(f)
  PROVE  InModule(f)'
<1> DEFINE i == functions[f]
<1>1. /\ RecoveryTypes /\ StackInv /\ TableInv /\ OpenInv /\ Active /\ Live
      /\ Fits(Top) /\ born \in Nat /\ functions \in [Name -> Nat]
  BY TopFits DEF RecoveryInv, Live, Active, RecoveryTypes
<1>2. /\ i # 0 /\ i \in DOMAIN module /\ i \in 1..born
      /\ module[i].body \in {"real", "stub"} /\ module[i].symbol = f
  BY <1>1, InModuleIsNamed DEF Settled
<1>3. SUFFICES functions'[f] = i /\ i \in DOMAIN module' /\ module'[i].body = module[i].body
  BY <1>2 DEF InModule
<1>4. CASE Quiet
  BY <1>2, <1>4 DEF Quiet
<1>5. CASE Writes
  <2>1. /\ functions' = functions /\ module[functions[Top.of]].body = "open"
        /\ \E op : module' = [module EXCEPT ![functions[Top.of]] = op]
    BY <1>5 DEF Writes
  <2>2. functions[Top.of] # i
    BY <1>2, <2>1
  <2> QED
    BY <1>2, <2>1, <2>2
<1>6. CASE Defines
  <2>1. PICK c \in Class : module' = With(module, Op(c, "struct"))
    BY <1>6 DEF Defines
  <2>2. IsOp(Op(c, "struct"))
    BY NewOps
  <2>3. i \in DOMAIN module' /\ module'[i] = module[i]
    BY <1>1, <1>2, <2>1, <2>2, WithTypes
  <2> QED
    BY <1>6, <2>3 DEF Defines
<1>7. CASE Erases
  <2>1. PICK X \in {{}, StructsOf(Top.of)} : Erase(Methods(Top.of), X)
    BY <1>7 DEF Erases
  <2>2. Top.of \in Class /\ Methods(Top.of) \in SUBSET Name /\ Top.unit = "class"
    BY <1>7, MethodsAreNames DEF Erases
  <2>3. f \notin Methods(Top.of)
    <3>1. Top = frames[1] /\ 1 \in 1..Len(frames)
      BY <1>1, PopNested DEF StackInv, Top
    <3>2. Top.of \notin OwnersOf(f)
      BY <2>2, <3>1 DEF Settled, UnderImport
    <3> QED
      BY <2>2, <3>2 DEF OwnersOf, Methods
  <2>4. i \notin Registered(Methods(Top.of))
    <3>1. ASSUME NEW g \in Methods(Top.of), functions[g] = i PROVE FALSE
      <4>1. module[functions[g]].symbol = g
        BY <1>1, <1>2, <2>2, <3>1 DEF TableInv, Live
      <4> QED
        BY <1>2, <2>3, <3>1, <4>1
    <3> QED
      BY <1>2, <3>1 DEF Registered
  <2>5. i \notin X
    <3>1. f \notin Class
      BY RecoveryAssumption
    <3> QED
      BY <1>2, <2>1, <2>2, <3>1 DEF StructsOf
  <2>6. /\ DOMAIN module' = DOMAIN module \ (Registered(Methods(Top.of)) \union X)
        /\ \A j \in DOMAIN module' : module'[j] = module[j]
        /\ functions'[f] = functions[f]
    BY <1>1, <2>1, <2>2, <2>3, EraseEffect
  <2> QED
    BY <1>2, <2>4, <2>5, <2>6
<1>8. CASE Register
  <2> DEFINE g == Top.of
             old == functions[g]
  <2>1. /\ g \in Name /\ old \in Nat /\ (old # 0 => module[old].body = "prototype")
        /\ DOMAIN module' = (DOMAIN module \ {old}) \union {born + 1}
        /\ \A j \in DOMAIN module \ {old} : module'[j] = module[j]
        /\ functions' = [functions EXCEPT ![g] = born + 1]
    BY <1>1, <1>8, RegisterEffect
  <2>2. old # i
    BY <1>2, <2>1
  <2>3. g # f
    BY <2>2
  <2> QED
    BY <1>1, <1>2, <2>1, <2>2, <2>3
<1>9. ~Marks /\ ~Undoes /\ ~Finalize
  BY <1>1 DEF Marks, Undoes, Finalize, Active
<1> QED
  BY <1>1, <1>4, <1>5, <1>6, <1>7, <1>8, <1>9, Effects

(* A class whose methods are in the module is not imported again.           *)
LEMMA UnderImportKept ==
  ASSUME RecoveryInv, Next, NEW f \in Name, OwnersOf(f) \subseteq imported, ~UnderImport(f)
  PROVE  ~UnderImport(f)'
<1>1. SUFFICES ASSUME NEW k \in 1..Len(frames'), frames'[k].unit = "class",
                      frames'[k].of \in OwnersOf(f)
               PROVE  FALSE
  BY DEF UnderImport
<1>2. CASE Comes(k)
  BY <1>1, <1>2 DEF Comes, UnderImport
<1>3. CASE frames'[k].of \in Class \ imported
  BY <1>1, <1>3
<1> QED
  BY <1>1, <1>2, <1>3, ClassFrames DEF RecoveryInv

LEMMA SettledKept ==
  ASSUME RecoveryInv, Next, frames # <<>>, NEW f \in Name, Settled(f)
  PROVE  Settled(f)'
<1>1. InModule(f)'
  BY BodyKept
<1>2. Live
  BY TopFits DEF RecoveryInv, Live, Active
<1>3. functions[f] # 0
  BY <1>2, InModuleIsNamed DEF Settled
<1>4. OwnersOf(f) \subseteq imported
  BY <1>3 DEF RecoveryInv, OwnersInv
<1> QED
  BY <1>1, <1>4, UnderImportKept DEF Settled

-----------------------------------------------------------------------------
(* A function whose definition is imported is in the module with a body.    *)
LEMMA DefinitionEnds ==
  ASSUME RecoveryInv, Next, frames # <<>>, Top.unit = "function", Top.defines,
         Return("ok"), NEW f \in Name, f = Top.of
  PROVE  InModule(f)'
<1>1. /\ RecoveryTypes /\ StackInv /\ TableInv /\ OpenInv /\ Active
      /\ born \in Nat /\ functions \in [Name -> Nat]
  BY TopFits DEF RecoveryInv, RecoveryTypes
<1>2. frames' = Tail(frames) /\ reply' = "ok" /\ Len(frames') = Len(frames) - 1 /\ Len(frames) \in Nat
  BY <1>1, PopNested DEF Return, StackInv
<1>3. ASSUME NEW fr, Become(fr) PROVE FALSE
  BY <1>2, <1>3 DEF Become
<1>4. ASSUME NEW fr, Push(fr) PROVE FALSE
  BY <1>2, <1>4 DEF Push
<1>5. CASE Register
  <2>1. /\ DOMAIN module' = (DOMAIN module \ {functions[f]}) \union {born + 1}
        /\ functions' = [functions EXCEPT ![f] = born + 1]
    BY <1>1, <1>5, RegisterEffect
  <2>2. module'[born + 1].body = (IF stub.only THEN "stub" ELSE "open")
    <3> DEFINE op == Op(f, IF stub.only THEN "stub" ELSE "open")
    <3>1. module' = Restrict(With(module, op), (DOMAIN module \ {functions[f]}) \union {born + 1})
      BY <1>5 DEF Register
    <3>2. IsOp(op)
      BY <1>1, NewOps DEF Body
    <3>3. (DOMAIN module \ {functions[f]}) \union {born + 1} \in SUBSET DOMAIN With(module, op)
      BY <1>1, <3>2, WithTypes
    <3>4. module'[born + 1] = op
      BY <1>1, <3>1, <3>2, <3>3, RestrictTypes, WithTypes
    <3> QED
      BY <3>4 DEF Op
  <2>3. module'[born + 1].body # "open"
    BY <1>1, <1>3, <1>5, RegisterEffect
  <2> QED
    BY <1>1, <2>1, <2>2, <2>3 DEF InModule
<1>6. CASE EndBody
  <2>1. /\ functions[f] \in DOMAIN module /\ functions' = functions
        /\ module' = [module EXCEPT ![functions[f]].body = "real"]
        /\ IsOp(module[functions[f]])
    BY <1>1, <1>2, <1>6, OpenIsNamed DEF EndBody, Return
  <2> QED
    BY <2>1 DEF InModule, IsOp
<1>7. /\ ~Begin /\ ~Accept /\ ~Reject /\ ~Retry /\ ~FinishRetry /\ ~Finalize
  BY <1>1 DEF Begin, Accept, Reject, Retry, FinishRetry, Finalize, Active
<1>8. ~Demand
  <2>1. \A n \in Nat : n - 1 # n
    OBVIOUS
  <2>2. frames' # frames
    <3>1. ASSUME frames' = frames PROVE FALSE
      BY <1>2, <2>1, <3>1
    <3> QED
      BY <3>1
  <2> QED
    BY <1>4, <2>2 DEF Demand
<1>9. /\ ~Advance /\ ~ImportMethod /\ ~ImportSpecialization /\ ~Define /\ ~Omit
  BY <1>3, <1>4 DEF Advance, ImportMethod, ImportSpecialization, Define, Omit
<1>10. ~Call /\ ~RejectSignature /\ ~RejectClass /\ ~RejectItems
  <2>1. reply' # "failed"
    BY <1>2
  <2> QED
    BY <1>3, <2>1 DEF Call, RejectSignature, RejectClass, RejectItems, Return
<1>11. ~Reconcile /\ ~EndPass /\ ~EndItems
  <2>1. reply' # "failed" /\ ~(Top.unit = "class") /\ Top.unit \notin {"functions", "classes"}
    BY <1>2
  <2> QED
    BY <2>1 DEF Reconcile, EndPass, EndItems, At, Return
<1> QED
  BY <1>5, <1>6, <1>7, <1>8, <1>9, <1>10, <1>11 DEF Next

(* What a step does to the stack while a declaration is imported.           *)
Waits == frames' = frames /\ functions' = functions /\ Demands(Top) /\ Top.unit # "functions"

Pushes == \E fr \in Frame :
  /\ Fits(fr) /\ Awaits(Top, fr) /\ Push(fr) /\ functions' = functions
  /\ Top.unit = "functions" => fr.of = Head(Top.left) /\ fr.defines
  /\ fr.unit = "class" => fr.phase = "fields" /\ fr.of \notin imported

Proceeds == \E fr \in Frame :
  /\ Fits(fr) /\ Become(fr)
  /\ fr.unit = Top.unit /\ fr.of = Top.of /\ fr.defines = Top.defines
  /\ Top.unit = "functions" => reply = "ok" /\ Top.left # <<>> /\ fr.left = Tail(Top.left)

Ends == \E r \in {"ok", "failed"} :
  /\ Return(r)
  /\ r = "ok" /\ Top.unit = "functions" => Top.left = <<>>

LEMMA StackMoves ==
  ASSUME RecoveryInv, Next, frames # <<>>
  PROVE  /\ UNCHANGED <<program, step, item>> /\ ledger \subseteq ledger'
         /\ checkpoint'.before = checkpoint.before /\ checkpoint'.start = checkpoint.start
         /\ Waits \/ Pushes \/ Proceeds \/ Ends
<1>1. /\ RecoveryTypes /\ StackInv /\ TableInv /\ OpenInv /\ Active /\ Fits(Top) /\ Top \in Frame
  BY TopFits DEF RecoveryInv, Fits
<1>2. /\ ~Begin /\ ~Accept /\ ~Reject /\ ~Retry /\ ~FinishRetry /\ ~Finalize
  BY <1>1 DEF Begin, Accept, Reject, Retry, FinishRetry, Finalize, Active
<1>3. UNCHANGED <<program, step, item>> /\ ledger \subseteq ledger'
  BY <1>2 DEF Next, Demand, Advance, RejectSignature, Reconcile, Register, Call, EndBody, Define,
     ImportMethod, EndPass, Omit, RejectClass, ImportSpecialization, EndItems, RejectItems, walk,
     input
<1>4. checkpoint'.before = checkpoint.before /\ checkpoint'.start = checkpoint.start
  <2>1. checkpoint \in [anchor : Nat, clones : Seq(Name), start : Nat,
                        before : [Name -> Body \union {"absent"}]]
    BY <1>1 DEF RecoveryTypes
  <2>2. checkpoint' = checkpoint \/ Register \/ Omit \/ RejectClass
    BY <1>2 DEF Next, Demand, Advance, RejectSignature, Reconcile, Call, EndBody, Define,
       ImportMethod, EndPass, ImportSpecialization, EndItems, RejectItems
  <2>3. \A a, b : /\ [checkpoint EXCEPT !.clones = b, !.anchor = a].before = checkpoint.before
                 /\ [checkpoint EXCEPT !.clones = b, !.anchor = a].start = checkpoint.start
    BY <2>1
  <2>4. CASE Register
    BY <2>3, <2>4 DEF Register
  <2>5. CASE Omit \/ RejectClass
    BY <2>1, <2>5 DEF Omit, RejectClass, Erase
  <2> QED
    BY <2>2, <2>4, <2>5
<1> SUFFICES Waits \/ Pushes \/ Proceeds \/ Ends
  BY <1>3, <1>4
<1>5. ASSUME NEW fr, Fits(fr), Become(fr), Top.unit # "functions",
             fr.unit = Top.unit, fr.of = Top.of, fr.defines = Top.defines
      PROVE  Proceeds
  BY <1>5 DEF Proceeds, Fits
<1>6. ASSUME NEW fr, Fits(fr), Push(fr), Awaits(Top, fr), Top.unit # "functions",
             functions' = functions,
             fr.unit = "class" => fr.phase = "fields" /\ fr.of \notin imported
      PROVE  Pushes
  BY <1>6 DEF Pushes, Fits
<1>7. CASE Demand
  <2>1. Top.left # <<>> /\ Demands(Top) /\ Top.unit # "functions" /\ Top.phase # "body"
    BY <1>1, <1>7 DEF Demand, At, Demands
  <2>2. Top.left \in Seq(Class)
    BY <1>1, <2>1 DEF Demands, Fits
  <2>3. Head(Top.left) \in Class
    BY <2>1, <2>2
  <2>4. Fits(Record(Head(Top.left))) /\ Awaits(Top, Record(Head(Top.left)))
    BY <2>1, <2>3, NewFramesFit DEF Awaits, Record, Demands, Imports
  <2>5. functions' = functions
    BY <1>7 DEF Demand
  <2>6. CASE Head(Top.left) \in imported
    BY <1>7, <2>1, <2>5, <2>6 DEF Demand, Waits
  <2>7. CASE Head(Top.left) \notin imported
    <3>1. Push(Record(Head(Top.left)))
      BY <1>7, <2>7 DEF Demand
    <3>2. Record(Head(Top.left)).phase = "fields" /\ Record(Head(Top.left)).of = Head(Top.left)
      BY DEF Record
    <3> QED
      BY <1>6, <2>1, <2>4, <2>5, <2>7, <3>1, <3>2
  <2> QED
    BY <2>6, <2>7
<1>8. CASE Advance
  <2> DEFINE fr == [Top EXCEPT !.left = Tail(Top.left)]
  <2>1. Top.left # <<>> /\ reply = "ok" /\ Become(fr)
    BY <1>1, <1>8 DEF Advance, StackInv
  <2>2. Fits(fr) /\ fr.unit = Top.unit /\ fr.of = Top.of
    BY <1>1, <2>1, AdvanceFits
  <2>3. fr.defines = Top.defines /\ fr.left = Tail(Top.left) /\ fr \in Frame
    BY <1>1, <2>2 DEF Frame, Fits
  <2> QED
    BY <2>1, <2>2, <2>3 DEF Proceeds
<1>9. CASE RejectSignature \/ RejectClass \/ RejectItems
  BY <1>9 DEF RejectSignature, RejectClass, RejectItems, Ends
<1>10. CASE Reconcile \/ EndBody \/ EndItems
  BY <1>10 DEF Reconcile, Signed, EndBody, EndItems, At, Ends
<1>11. CASE Register
  <2>1. Top.unit = "function" /\ Top.of \in Name
    BY <1>1, <1>11, RegisterEffect
  <2> DEFINE fr == [Top EXCEPT !.phase = "body", !.left = CallsOf[Top.of]]
  <2>2. Become(fr) \/ Return("ok")
    BY <1>11 DEF Register
  <2>3. Fits(fr) /\ fr.unit = Top.unit /\ fr.of = Top.of /\ fr.defines = Top.defines
    <3>1. CallsOf[Top.of] \in Seq(Name) /\ CallsOf[Top.of] \in Seq(Name \union Class)
      BY <2>1, RecoveryAssumption
    <3> QED
      BY <1>1, <2>1, <3>1 DEF Fits, Frame
  <2> QED
    BY <1>5, <2>1, <2>2, <2>3 DEF Ends
<1>12. CASE Call
  <2> DEFINE fr == [Top EXCEPT !.left = Tail(Top.left)]
  <2>1. Top.left # <<>> /\ Top.unit = "function" /\ (Become(fr) \/ Return("failed"))
    BY <1>12 DEF Call, At
  <2>2. Fits(fr) /\ fr.unit = Top.unit /\ fr.of = Top.of
    BY <1>1, <2>1, AdvanceFits
  <2>3. fr.defines = Top.defines
    BY <1>1 DEF Frame
  <2> QED
    BY <1>5, <2>1, <2>2, <2>3 DEF Ends
<1>13. CASE Define \/ EndPass \/ Omit
  <2>1. Top.unit = "class"
    BY <1>13 DEF Define, EndPass, Omit, At
  <2>2. \/ \E p \in {"signatures", "bodies"} :
             Become([Top EXCEPT !.phase = p, !.left = MethodsOf[Top.of]])
        \/ Return("ok")
    BY <1>13 DEF Define, EndPass, Omit
  <2>3. CASE Return("ok")
    BY <2>1, <2>3 DEF Ends
  <2>4. ASSUME NEW p \in {"signatures", "bodies"},
               Become([Top EXCEPT !.phase = p, !.left = MethodsOf[Top.of]])
        PROVE  Proceeds
    <3> DEFINE fr == [Top EXCEPT !.phase = p, !.left = MethodsOf[Top.of]]
    <3>1. Fits(fr) /\ fr.unit = Top.unit /\ fr.of = Top.of
      BY <1>1, <2>1, ClassPassFits
    <3>2. fr.defines = Top.defines
      BY <1>1 DEF Frame
    <3> QED
      BY <1>5, <2>1, <2>4, <3>1, <3>2
  <2> QED
    BY <2>2, <2>3, <2>4
<1>14. CASE ImportMethod
  <2>1. /\ Top.unit = "class" /\ Top.phase \in {"signatures", "bodies"} /\ Top.left # <<>>
        /\ \/ Become([Top EXCEPT !.left = Tail(Top.left)])
           \/ \E d \in BOOLEAN : Push(Function(Head(Top.left), d))
    BY <1>14 DEF ImportMethod, At
  <2>2. CASE Become([Top EXCEPT !.left = Tail(Top.left)])
    <3> DEFINE fr == [Top EXCEPT !.left = Tail(Top.left)]
    <3>1. Fits(fr) /\ fr.unit = Top.unit /\ fr.of = Top.of
      BY <1>1, <2>1, AdvanceFits
    <3>2. fr.defines = Top.defines
      BY <1>1 DEF Frame
    <3> QED
      BY <1>5, <2>1, <2>2, <3>1, <3>2
  <2>3. ASSUME NEW d \in BOOLEAN, Push(Function(Head(Top.left), d)) PROVE Pushes
    <3>1. Top.left \in Seq(Methods(Top.of)) /\ Top.of \in Class
      BY <1>1, <2>1 DEF Fits
    <3>2. Head(Top.left) \in Name
      BY <2>1, <3>1, MethodsAreNames
    <3>3. Fits(Function(Head(Top.left), d)) /\ Awaits(Top, Function(Head(Top.left), d))
      BY <2>1, <3>2, NewFramesFit DEF Awaits, Function, Demands, Imports
    <3>4. Function(Head(Top.left), d).unit = "function" /\ functions' = functions
      BY <1>14 DEF Function, ImportMethod
    <3> QED
      BY <1>6, <2>1, <2>3, <3>3, <3>4
  <2> QED
    BY <2>1, <2>2, <2>3
<1>15. CASE ImportSpecialization
  <2> DEFINE fr == Function(Head(Top.left), TRUE)
  <2>1. Top.unit = "functions" /\ Top.left # <<>> /\ Push(fr)
    BY <1>15 DEF ImportSpecialization, At
  <2>2. Top.left \in Seq(Name) /\ Top.phase = "items"
    BY <1>1, <2>1 DEF Fits
  <2>3. Head(Top.left) \in Name
    BY <2>1, <2>2
  <2>4. Fits(fr) /\ Awaits(Top, fr) /\ fr.of = Head(Top.left) /\ fr.defines
    BY <2>1, <2>2, <2>3, NewFramesFit DEF Awaits, Function, Demands, Imports
  <2>5. fr \in Frame /\ fr.unit = "function" /\ functions' = functions
    BY <1>15, <2>4 DEF Fits, Function, ImportSpecialization
  <2> QED
    BY <2>1, <2>4, <2>5 DEF Pushes
<1> QED
  BY <1>2, <1>7, <1>8, <1>9, <1>10, <1>11, <1>12, <1>13, <1>14, <1>15 DEF Next

-----------------------------------------------------------------------------
LEMMA RangeSplits ==
  ASSUME NEW S, NEW s \in Seq(S), s # <<>>
  PROVE  \A x \in Range(s) : x = Head(s) \/ x \in Range(Tail(s))
<1>1. /\ Head(s) = s[1] /\ DOMAIN Tail(s) = 1..Len(s) - 1 /\ DOMAIN s = 1..Len(s)
      /\ Len(s) \in Nat /\ \A k \in 1..Len(s) - 1 : Tail(s)[k] = s[k + 1]
  OBVIOUS
<1>2. \A k \in DOMAIN s : k = 1 \/ (k - 1 \in DOMAIN Tail(s) /\ Tail(s)[k - 1] = s[k])
  <2> SUFFICES ASSUME NEW k \in DOMAIN s, k # 1
               PROVE  k - 1 \in DOMAIN Tail(s) /\ Tail(s)[k - 1] = s[k]
    OBVIOUS
  <2>1. k - 1 \in 1..Len(s) - 1 /\ (k - 1) + 1 = k
    BY <1>1
  <2> QED
    BY <1>1, <2>1
<1> SUFFICES ASSUME NEW x \in Range(s) PROVE x = Head(s) \/ x \in Range(Tail(s))
  OBVIOUS
<1>3. PICK k \in DOMAIN s : x = s[k]
  BY DEF Range
<1>4. CASE k = 1
  BY <1>1, <1>3, <1>4
<1>5. CASE k # 1
  BY <1>2, <1>3, <1>5 DEF Range
<1> QED
  BY <1>4, <1>5

(* The last two frames.                                                    *)
LEMMA TopIsFirst ==
  ASSUME StackInv, frames # <<>>
  PROVE  /\ Len(frames) \in Nat \ {0} /\ Top = frames[1] /\ frames \in Seq(Frame)
         /\ Len(frames) = 1 \/ Len(frames) > 1
         /\ Len(frames) = 1 => Top = Bottom
         /\ Len(frames) = 2 => Top = Above /\ Awaits(Bottom, Top)
<1>1. Len(frames) \in Nat \ {0} /\ Top = frames[1]
  BY PopNested DEF StackInv, Top
<1>2. /\ frames \in Seq(Frame)
      /\ \A k \in 1..Len(frames) : k > 1 => Awaits(frames[k], frames[k - 1])
  BY DEF StackInv, Nested
<1>3. Len(frames) = 2 => 2 \in 1..Len(frames) /\ 2 > 1 /\ 2 - 1 = 1
  OBVIOUS
<1>4. Len(frames) = 1 \/ Len(frames) > 1
  <2>1. \A n \in Nat \ {0} : n = 1 \/ n > 1
    OBVIOUS
  <2> QED
    BY <1>1, <2>1
<1> QED
  BY <1>1, <1>2, <1>3, <1>4 DEF Bottom, Above

LEMMA BottomPush ==
  ASSUME StackInv, frames # <<>>, NEW fr, Fits(fr), Push(fr), Awaits(Top, fr)
  PROVE  /\ Len(frames') = Len(frames) + 1 /\ frames' # <<>> /\ reply' = "none"
         /\ Bottom' = Bottom /\ Above' = (IF Len(frames) = 1 THEN fr ELSE Above)
<1>1. /\ Len(frames') = Len(frames) + 1 /\ frames'[1] = fr /\ frames' # <<>>
      /\ \A k \in 1..Len(frames) : frames'[k + 1] = frames[k]
  BY PushNested DEF StackInv, Push, Top
<1>2. PICK n \in Nat \ {0} : n = Len(frames)
  BY TopIsFirst
<1>3. Len(frames') = n + 1 /\ Bottom' = frames'[n + 1] /\ Above' = frames'[(n + 1) - 1]
  BY <1>1, <1>2 DEF Bottom, Above
<1>4. Bottom' = Bottom
  BY <1>1, <1>2, <1>3 DEF Bottom
<1>5. (n + 1) - 1 = n /\ (n # 1 => n - 1 \in 1..n /\ (n - 1) + 1 = n)
  BY <1>2
<1>6. Above' = (IF n = 1 THEN fr ELSE frames[n - 1])
  BY <1>1, <1>2, <1>3, <1>5
<1> QED
  BY <1>1, <1>2, <1>4, <1>6 DEF Push, Above

LEMMA BottomBecome ==
  ASSUME StackInv, frames # <<>>, NEW fr, Fits(fr), Become(fr),
         fr.unit = Top.unit, fr.of = Top.of
  PROVE  /\ Len(frames') = Len(frames) /\ frames' # <<>> /\ reply' = "none"
         /\ Bottom' = (IF Len(frames) = 1 THEN fr ELSE Bottom)
         /\ Len(frames) > 1 => Above' = (IF Len(frames) = 2 THEN fr ELSE Above)
<1>1. /\ Len(frames') = Len(frames) /\ frames'[1] = fr /\ frames' # <<>>
      /\ \A k \in 2..Len(frames) : frames'[k] = frames[k]
  BY BecomeNested DEF StackInv, Become, Top
<1>2. PICK n \in Nat \ {0} : n = Len(frames)
  BY TopIsFirst
<1>3. Len(frames') = n /\ Bottom' = frames'[n] /\ Above' = frames'[n - 1]
  BY <1>1, <1>2 DEF Bottom, Above
<1>4. /\ n # 1 => n \in 2..n
      /\ n > 1 /\ n # 2 => n - 1 \in 2..n
      /\ n = 2 => n - 1 = 1
  BY <1>2
<1> QED
  BY <1>1, <1>2, <1>3, <1>4 DEF Become, Bottom, Above

LEMMA BottomReturn ==
  ASSUME StackInv, frames # <<>>, NEW r, Return(r)
  PROVE  /\ Len(frames') = Len(frames) - 1 /\ reply' = r
         /\ frames' = <<>> <=> Len(frames) = 1
         /\ Len(frames) > 1 => Bottom' = Bottom
         /\ Len(frames) > 2 => Above' = Above
<1>1. /\ frames' = Tail(frames) /\ reply' = r /\ Nested(frames')
      /\ Len(frames') = Len(frames) - 1
      /\ \A k \in 1..Len(frames) - 1 : frames'[k] = frames[k + 1]
  BY PopNested DEF StackInv, Return
<1>2. PICK n \in Nat \ {0} : n = Len(frames)
  BY TopIsFirst
<1>3. Len(frames') = n - 1 /\ Bottom' = frames'[n - 1] /\ Above' = frames'[(n - 1) - 1]
  BY <1>1, <1>2 DEF Bottom, Above
<1>4. /\ n > 1 => n - 1 \in 1..n - 1 /\ (n - 1) + 1 = n
      /\ n > 2 => (n - 1) - 1 \in 1..n - 1 /\ ((n - 1) - 1) + 1 = n - 1
      /\ n - 1 = 0 <=> n = 1
  BY <1>2
<1>5. frames' = <<>> <=> Len(frames') = 0
  <2>1. frames' \in Seq(Frame)
    BY <1>1 DEF Nested
  <2>2. \A s \in Seq(Frame) : s = <<>> <=> Len(s) = 0
    OBVIOUS
  <2> QED
    BY <2>1, <2>2
<1> QED
  BY <1>1, <1>2, <1>3, <1>4, <1>5 DEF Bottom, Above

-----------------------------------------------------------------------------
(* The declaration under way, step by step.                                *)
LEMMA DeclaredIs ==
  ASSUME RecoveryInv, Active \/ step = "undone"
  PROVE  /\ Declared \in Declaration /\ item \in DOMAIN program /\ program \in Seq(Declaration)
         /\ Declared = program[item]
BY ProgramAssumption DEF RecoveryInv, RecoveryTypes, Declared

LEMMA DefinedByNames ==
  ASSUME NEW d \in Declaration
  PROVE  /\ DefinedBy(d) \subseteq Name
         /\ d.kind = "function" => DefinedBy(d) = (IF d.defines THEN {d.symbol} ELSE {})
         /\ d.kind = "functions" =>
              DefinedBy(d) = Range(d.names) /\ d.names \in Seq(Name) /\ Range(d.names) \subseteq Name
         /\ d.kind = "classes" => DefinedBy(d) = {}
<1>1. d.kind = "functions" => d.names \in Seq(Name)
  BY DEF Declaration
<1>2. d.kind = "functions" => Range(d.names) \subseteq Name
  BY <1>1 DEF Range
<1>3. d.kind = "function" => d.symbol \in Name /\ d.defines \in BOOLEAN
  BY DEF Declaration
<1>4. d.kind \in {"function", "functions", "classes"}
  BY DEF Declaration
<1> QED
  BY <1>1, <1>2, <1>3, <1>4 DEF DefinedBy

(* The frames of a stack that is not empty.                                *)
LEMMA ItemStackStep ==
  ASSUME RecoveryInv, ItemInv, Next, frames # <<>>
  PROVE  ItemInv'
<1>1. /\ RecoveryTypes /\ StackInv /\ Active /\ Fits(Top)
      /\ UNCHANGED <<program, step, item>> /\ (Waits \/ Pushes \/ Proceeds \/ Ends)
  BY TopFits, StackMoves DEF RecoveryInv
<1>2. /\ Active' /\ Declared' = Declared /\ Declared \in Declaration
      /\ Declared.kind \in {"function", "functions", "classes"}
  BY <1>1, DeclaredIs DEF Active, Declared, Declaration
<1>3. /\ Len(frames) \in Nat \ {0} /\ frames \in Seq(Frame)
      /\ Len(frames) = 1 \/ Len(frames) > 1
      /\ Len(frames) = 1 => Top = Bottom
      /\ Len(frames) = 2 => Top = Above /\ Awaits(Bottom, Top)
  BY <1>1, TopIsFirst
<1>4. CASE Declared.kind = "function"
  <2>0. /\ Bottom.unit = "function" /\ Bottom.of = Declared.symbol
        /\ Bottom.defines = Declared.defines
    BY <1>1, <1>4 DEF ItemInv
  <2>1. SUFFICES
          /\ frames' = <<>> /\ reply' = "ok" => \A f \in DefinedBy(Declared) : InModule(f)'
          /\ frames' # <<>> => Bottom'.unit = Bottom.unit /\ Bottom'.of = Bottom.of
                               /\ Bottom'.defines = Bottom.defines
    BY <1>1, <1>2, <1>4, <2>0 DEF ItemInv
  <2>2. CASE Waits
    BY <2>2 DEF Waits, Bottom
  <2>3. CASE Pushes
    BY <1>1, <2>3, BottomPush DEF Pushes
  <2>4. CASE Proceeds
    BY <1>1, <1>3, <2>4, BottomBecome DEF Proceeds
  <2>5. CASE Ends
    <3>1. PICK r \in {"ok", "failed"} : Return(r)
      BY <2>5 DEF Ends
    <3>2. /\ reply' = r /\ (frames' = <<>> <=> Len(frames) = 1)
          /\ Len(frames) > 1 => Bottom' = Bottom
      BY <1>1, <3>1, BottomReturn
    <3>3. ASSUME frames' = <<>>, r = "ok", NEW f \in DefinedBy(Declared) PROVE InModule(f)'
      <4>1. Declared.defines /\ f = Declared.symbol /\ f \in Name
        BY <1>2, <1>4, <3>3, DefinedByNames
      <4>2. Top.unit = "function" /\ Top.of = f /\ Top.defines
        BY <1>3, <2>0, <3>2, <3>3, <4>1
      <4> QED
        BY <3>1, <3>3, <4>1, <4>2, DefinitionEnds
    <3>4. frames' # <<>> => Len(frames) > 1
      BY <1>3, <3>2
    <3>5. frames' # <<>> => Bottom' = Bottom
      BY <3>2, <3>4
    <3> QED
      BY <3>2, <3>3, <3>5
  <2> QED
    BY <1>1, <2>2, <2>3, <2>4, <2>5
<1>5. CASE Declared.kind = "functions"
  <2> DEFINE Past(f) == f \in Range(Bottom.left) \/ Settled(f)
  <2>1. /\ Bottom.unit = "functions"
        /\ Len(frames) > 1 => Above.of = Head(Bottom.left) /\ Above.defines
        /\ \A f \in Range(Declared.names) : f \in Range(Bottom.left) \/ Settled(f)
        /\ Len(frames) = 1 /\ reply = "ok" => Settled(Head(Bottom.left))
        /\ DefinedBy(Declared) = Range(Declared.names) /\ Range(Declared.names) \subseteq Name
    BY <1>1, <1>2, <1>5, DefinedByNames DEF ItemInv
  <2>2. Bottom \in Frame /\ Fits(Bottom) /\ Bottom.left \in Seq(Name)
    <3>1. Len(frames) \in 1..Len(frames)
      BY <1>3
    <3>2. Fits(Bottom)
      BY <1>1, <3>1 DEF StackInv, Nested, Bottom
    <3> QED
      BY <2>1, <3>2 DEF Fits
  <2>3. \A f \in Name : Settled(f) => Settled(f)'
    BY SettledKept
  <2>4. SUFFICES
          /\ frames' = <<>> /\ reply' = "ok" => \A f \in Range(Declared.names) : InModule(f)'
          /\ frames' # <<>> =>
               /\ Bottom'.unit = "functions"
               /\ Len(frames') > 1 => Above'.of = Head(Bottom'.left) /\ Above'.defines
               /\ \A f \in Range(Declared.names) : f \in Range(Bottom'.left) \/ Settled(f)'
               /\ Len(frames') = 1 /\ reply' = "ok" =>
                    \A f : f = Head(Bottom'.left) => Settled(f)'
    <3>1. \A f : f = Head(Bottom'.left) => (Settled(f)' <=> Settled(Head(Bottom.left))')
      BY DEF Settled, InModule, UnderImport
    <3>2. Head(Bottom'.left) = Head(Bottom'.left)
      OBVIOUS
    <3> QED
      BY <1>1, <1>2, <1>5, <2>1, <2>4, <3>1, <3>2 DEF ItemInv
  <2>5. CASE Waits
    <3>1. Len(frames) # 1
      BY <1>3, <2>1, <2>5 DEF Waits
    <3>2. Bottom' = Bottom /\ Above' = Above /\ Len(frames') = Len(frames) /\ frames' # <<>>
      BY <2>5 DEF Waits, Bottom, Above
    <3> QED
      BY <2>1, <2>3, <3>1, <3>2
  <2>6. CASE Pushes
    <3>1. PICK fr \in Frame : Fits(fr) /\ Awaits(Top, fr) /\ Push(fr)
                            /\ (Top.unit = "functions" => fr.of = Head(Top.left) /\ fr.defines)
      BY <2>6 DEF Pushes
    <3>2. /\ Len(frames') = Len(frames) + 1 /\ frames' # <<>> /\ reply' = "none"
          /\ Bottom' = Bottom /\ Above' = (IF Len(frames) = 1 THEN fr ELSE Above)
      BY <1>1, <3>1, BottomPush
    <3>3. Above'.of = Head(Bottom.left) /\ Above'.defines
      <4>1. CASE Len(frames) = 1
        BY <1>3, <2>1, <3>1, <3>2, <4>1
      <4>2. CASE Len(frames) # 1
        <5>1. Len(frames) > 1
          BY <1>3, <4>2
        <5> QED
          BY <2>1, <3>2, <4>2, <5>1
      <4> QED
        BY <4>1, <4>2
    <3>4. Len(frames') # 1
      BY <1>3, <3>2
    <3> QED
      BY <2>1, <2>3, <3>2, <3>3, <3>4
  <2>7. CASE Proceeds
    <3>1. PICK fr \in Frame :
            /\ Fits(fr) /\ Become(fr)
            /\ fr.unit = Top.unit /\ fr.of = Top.of /\ fr.defines = Top.defines
            /\ Top.unit = "functions" =>
                 reply = "ok" /\ Top.left # <<>> /\ fr.left = Tail(Top.left)
      BY <2>7 DEF Proceeds
    <3>2. /\ Len(frames') = Len(frames) /\ frames' # <<>> /\ reply' = "none"
          /\ Bottom' = (IF Len(frames) = 1 THEN fr ELSE Bottom)
          /\ Len(frames) > 1 => Above' = (IF Len(frames) = 2 THEN fr ELSE Above)
      BY <1>1, <3>1, BottomBecome
    <3>3. CASE Len(frames) = 1
      <4>1. /\ Bottom' = fr /\ fr.unit = "functions" /\ fr.left = Tail(Bottom.left)
            /\ Bottom.left # <<>> /\ Settled(Head(Bottom.left))
        BY <1>3, <2>1, <3>1, <3>2, <3>3
      <4>2. \A f \in Range(Bottom.left) : f = Head(Bottom.left) \/ f \in Range(Tail(Bottom.left))
        BY <2>2, <4>1, RangeSplits
      <4>3. \A f \in Range(Declared.names) : f \in Range(Tail(Bottom.left)) \/ Settled(f)'
        BY <2>1, <2>3, <4>1, <4>2
      <4> QED
        BY <3>2, <3>3, <4>1, <4>3
    <3>4. CASE Len(frames) # 1
      <4>1. Len(frames) > 1 /\ Bottom' = Bottom
        BY <1>3, <3>2, <3>4
      <4>2. Above'.of = Above.of /\ Above'.defines = Above.defines
        BY <1>3, <3>1, <3>2, <4>1
      <4> QED
        BY <2>1, <2>3, <3>2, <4>1, <4>2
    <3> QED
      BY <3>3, <3>4
  <2>8. CASE Ends
    <3>1. PICK r \in {"ok", "failed"} :
            Return(r) /\ (r = "ok" /\ Top.unit = "functions" => Top.left = <<>>)
      BY <2>8 DEF Ends
    <3>2. /\ Len(frames') = Len(frames) - 1 /\ reply' = r
          /\ (frames' = <<>> <=> Len(frames) = 1)
          /\ Len(frames) > 1 => Bottom' = Bottom
          /\ Len(frames) > 2 => Above' = Above
      BY <1>1, <3>1, BottomReturn
    <3>3. CASE Len(frames) = 1
      <4>1. ASSUME r = "ok" PROVE \A f \in Range(Declared.names) : InModule(f)'
        <5>1. Bottom.left = <<>> /\ Range(Bottom.left) = {}
          BY <1>3, <2>1, <3>1, <3>3, <4>1 DEF Range
        <5>2. \A f \in Range(Declared.names) : Settled(f)'
          BY <2>1, <2>3, <5>1
        <5> QED
          BY <5>2 DEF Settled
      <4> QED
        BY <3>2, <3>3, <4>1
    <3>4. CASE Len(frames) # 1
      <4>1. Len(frames) > 1 /\ Bottom' = Bottom /\ frames' # <<>>
        BY <1>3, <3>2, <3>4
      <4>2. Len(frames') > 1 => Above' = Above
        BY <1>3, <3>2, <4>1
      <4>3. ASSUME Len(frames') = 1, r = "ok", NEW f, f = Head(Bottom.left) PROVE Settled(f)'
        <5>1. Len(frames) = 2 /\ Top = Above /\ Awaits(Bottom, Top)
          <6>1. \A n \in Nat : n - 1 = 1 => n = 2
            OBVIOUS
          <6>2. Len(frames) = 2
            BY <1>3, <3>2, <4>3, <6>1
          <6> QED
            BY <1>3, <6>2
        <5>2. Top.of = f /\ Top.defines /\ Top.unit = "function" /\ Bottom.left # <<>>
          BY <2>1, <4>1, <4>3, <5>1 DEF Awaits
        <5>3. f \in Name
          BY <2>2, <4>3, <5>2
        <5>4. InModule(f)'
          BY <3>1, <4>3, <5>2, <5>3, DefinitionEnds
        <5>5. ~UnderImport(f)'
          <6>1. Bottom' = frames'[1]
            BY <4>3 DEF Bottom
          <6>2. ASSUME NEW k \in 1..Len(frames') PROVE k = 1
            BY <4>3
          <6> QED
            BY <2>1, <4>1, <6>1, <6>2 DEF UnderImport
        <5> QED
          BY <5>4, <5>5 DEF Settled
      <4> QED
        BY <2>1, <2>3, <3>2, <4>1, <4>2, <4>3
    <3> QED
      BY <3>3, <3>4
  <2> QED
    BY <1>1, <2>5, <2>6, <2>7, <2>8
<1>6. CASE Declared.kind = "classes"
  <2>1. DefinedBy(Declared) = {}
    BY <1>2, <1>6, DefinedByNames
  <2>2. step # "retry" /\ step # "undone"
    BY <1>6 DEF ItemInv
  <2> QED
    BY <1>1, <1>2, <1>6, <2>1, <2>2 DEF ItemInv
<1> QED
  BY <1>2, <1>4, <1>5, <1>6

(* The steps between two imports.                                          *)
LEMMA ItemWalkStep ==
  ASSUME RecoveryInv, ItemInv, Next, frames = <<>>
  PROVE  ItemInv'
<1>1. RecoveryTypes /\ StackInv
  BY DEF RecoveryInv
<1>2. Begin \/ Accept \/ Reject \/ Retry \/ FinishRetry \/ Finalize
  BY DEF Next, Demand, Advance, RejectSignature, Reconcile, Signed, Register, Call, EndBody,
     Define, ImportMethod, EndPass, Omit, RejectClass, ImportSpecialization, EndItems,
     RejectItems, At
<1>3. CASE Begin \/ Retry
  <2>1. UNCHANGED <<program, item>> /\ step' \in {"import", "retry"} /\ Active'
        /\ item \in DOMAIN program /\ program \in Seq(Declaration)
    <3>1. program \in Seq(Declaration) /\ item \in Nat \ {0}
      BY <1>1, ProgramAssumption DEF RecoveryTypes
    <3>2. Begin => item <= Len(program)
      BY DEF Begin
    <3>3. Retry => item \in DOMAIN program
      BY <1>1 DEF Retry, RecoveryTypes
    <3>4. item \in DOMAIN program
      BY <1>3, <3>1, <3>2, <3>3
    <3> QED
      BY <1>3, <3>1, <3>4 DEF Begin, Retry, Active, input
  <2>2. Declared' = Declared /\ Declared \in Declaration
    BY <2>1 DEF Declared
  <2>3. step' = "retry" => Declared.kind = "function"
    BY <1>3 DEF ItemInv, Begin, Retry
  <2>4. CASE frames' = frames
    <3>1. reply' = "failed"
      <4>1. ~Push(FrameOf(Declared))
        <5>1. ASSUME Push(FrameOf(Declared)) PROVE FALSE
          BY <2>4, <5>1 DEF Push
        <5> QED
          BY <5>1
      <4> QED
        BY <1>3, <4>1 DEF Begin, Retry
    <3> QED
      BY <2>1, <2>2, <2>3, <2>4, <3>1 DEF ItemInv
  <2>5. CASE Push(FrameOf(Declared))
    <3> DEFINE fr == FrameOf(Declared)
    <3>1. Fits(fr) /\ fr \in Frame
      BY <2>2, NewFramesFit DEF Fits
    <3>2. frames' = <<fr>> /\ reply' = "none"
      BY <2>5, <3>1 DEF Push
    <3>3. frames' # <<>> /\ Len(frames') = 1 /\ Bottom' = fr
      <4> HIDE DEF fr
      <4> QED
        BY <3>1, <3>2 DEF Bottom
    <3>4. Declared.kind = "function" =>
            fr.unit = "function" /\ fr.of = Declared.symbol /\ fr.defines = Declared.defines
      BY DEF FrameOf, Function
    <3>5. Declared.kind = "functions" => fr.unit = "functions" /\ fr.left = Declared.names
      BY DEF FrameOf, Items
    <3> QED
      BY <2>1, <2>2, <2>3, <3>2, <3>3, <3>4, <3>5 DEF ItemInv
  <2> QED
    BY <1>3, <2>4, <2>5 DEF Begin, Retry
<1>4. CASE Reject
  <2>1. ~Active' /\ (step' = "undone" => Declared.kind = "function" /\ Declared' = Declared)
        /\ step' # "retry"
    BY <1>4 DEF Reject, Next1, Active, Declared, input
  <2> QED
    BY <2>1 DEF ItemInv
<1>5. CASE Accept \/ FinishRetry \/ Finalize
  <2>1. ~Active' /\ step' \notin {"undone", "retry"}
    BY <1>5 DEF Accept, FinishRetry, Finalize, Next1, Active
  <2> QED
    BY <2>1 DEF ItemInv
<1> QED
  BY <1>2, <1>3, <1>4, <1>5

-----------------------------------------------------------------------------
(* What is lost, step by step.                                             *)
LEMMA BeforeMeans ==
  ASSUME RecoveryInv, Active, NEW f \in Name, checkpoint.before[f] \in {"real", "stub"}
  PROVE  InModule(f)
<1>1. functions[f] # 0 /\ checkpoint.before[f] = module[functions[f]].body
  BY DEF RecoveryInv, BeforeInv
<1>2. functions[f] \in DOMAIN module
  BY <1>1 DEF RecoveryInv, TableInv, FunctionOps, Active
<1> QED
  BY <1>1, <1>2 DEF InModule

LEMMA TableMeans ==
  ASSUME RecoveryInv, Live, NEW f \in Name
  PROVE  InModule(f) <=> Table[f] \in {"real", "stub"}
<1>1. Table[f] = IF functions[f] = 0 THEN "absent" ELSE module[functions[f]].body
  BY DEF Table
<1>2. functions[f] # 0 => functions[f] \in DOMAIN module
  BY DEF RecoveryInv, TableInv, FunctionOps, Live
<1>3. DOMAIN module \subseteq 1..born /\ born \in Nat
  BY DEF RecoveryInv, RecoveryTypes
<1> QED
  BY <1>1, <1>2, <1>3 DEF InModule

LEMMA LossStep ==
  ASSUME RecoveryInv, RecoveryInv', ItemInv, LossInv, Next
  PROVE  LossInv'
<1>1. /\ RecoveryTypes /\ StackInv /\ program \in Seq(Declaration) /\ item \in Nat \ {0}
      /\ \A j \in DOMAIN program : DefinedBy(program[j]) \subseteq Name
      /\ DOMAIN program = 1..Len(program) /\ Len(program) \in Nat
  <2>1. RecoveryTypes /\ StackInv /\ program \in Seq(Declaration) /\ item \in Nat \ {0}
    BY ProgramAssumption DEF RecoveryInv, RecoveryTypes
  <2>2. \A j \in DOMAIN program : program[j] \in Declaration
    BY <2>1
  <2> QED
    BY <2>1, <2>2, DefinedByNames
<1>2. program' = program /\ ledger \subseteq ledger'
  BY DEF Next, Begin, Accept, Reject, Retry, FinishRetry, Finalize, Demand, Advance,
     RejectSignature, Reconcile, Register, Call, EndBody, Define, ImportMethod, EndPass, Omit,
     RejectClass, ImportSpecialization, EndItems, RejectItems, input
<1>3. ASSUME step' \notin {"done", "error"}, item' = item,
             \A f \in Name : Safe(f) => Safe(f)'
      PROVE  LossInv'
  BY <1>1, <1>2, <1>3 DEF LossInv, DefinedBy, Row
<1>4. ASSUME step' \notin {"done", "error"}, item' = item + 1, item \in DOMAIN program,
             \A f \in Name : Safe(f) => Safe(f)',
             \/ \A f \in DefinedBy(Declared) : Safe(f)'
             \/ Row(Declared.symbol) \in ledger'
      PROVE  LossInv'
  <2> SUFFICES ASSUME NEW j \in DOMAIN program, j < item + 1, NEW f \in DefinedBy(program[j])
               PROVE  Safe(f)' \/ Row(f) \in ledger' \/ Row(program[j].symbol) \in ledger'
    BY <1>2, <1>4 DEF LossInv, DefinedBy, Row
  <2>1. CASE j < item
    BY <1>1, <1>2, <1>4, <2>1 DEF LossInv
  <2>2. CASE j = item
    BY <1>4, <2>2 DEF Declared
  <2> QED
    BY <1>1, <2>1, <2>2
<1>5. CASE frames # <<>>
  <2>1. UNCHANGED <<program, step, item>> /\ checkpoint'.before = checkpoint.before /\ Active
    BY <1>1, <1>5, StackMoves, TopFits
  <2>2. \A f \in Name : Safe(f) => Safe(f)'
    BY <2>1 DEF Safe, Active
  <2> QED
    BY <1>3, <2>1, <2>2 DEF Active
<1>6. CASE Begin \/ Retry
  <2>1. /\ step \in {"walk", "undone"} /\ step' \in {"import", "retry"} /\ item' = item
        /\ checkpoint'.before = Table
    BY <1>6 DEF Begin, Retry, Mark
  <2>2. ASSUME NEW f \in Name, Safe(f) PROVE Safe(f)'
    <3>1. InModule(f) /\ Live
      BY <2>1, <2>2 DEF Safe, Active, Live
    <3>2. Table[f] \in {"real", "stub"}
      BY <3>1, TableMeans
    <3> QED
      BY <2>1, <3>2 DEF Safe, Active
  <2> QED
    BY <1>3, <2>1, <2>2
<1>7. ASSUME Accept \/ (FinishRetry /\ Stubbed) PROVE LossInv'
  <2>1. /\ Active /\ frames = <<>> /\ reply = "ok" /\ step' = "walk" /\ item' = item + 1
        /\ UNCHANGED <<module, functions>>
    BY <1>7 DEF Accept, FinishRetry, Next1, Stubbed, Active
  <2>2. ASSUME NEW f \in Name, Safe(f) PROVE Safe(f)'
    <3>1. InModule(f)
      BY <2>1, <2>2, BeforeMeans DEF Safe
    <3> QED
      BY <2>1, <3>1 DEF Safe, Active, InModule
  <2>3. \A f \in DefinedBy(Declared) : Safe(f)'
    <3>1. \A f \in DefinedBy(Declared) : InModule(f)
      BY <2>1 DEF ItemInv
    <3> QED
      BY <2>1, <3>1 DEF Safe, Active, InModule
  <2>4. item \in DOMAIN program
    BY <1>1, <2>1 DEF RecoveryTypes
  <2> QED
    BY <1>4, <2>1, <2>2, <2>3, <2>4
<1>8. ASSUME Reject \/ (FinishRetry /\ ~Stubbed) PROVE LossInv'
  <2>1. Active /\ Undoes /\ ~Active' /\ Live' /\ step' \in {"undone", "walk"}
    BY <1>8 DEF Reject, FinishRetry, Undoes, Next1, Live, Active
  <2>2. ASSUME NEW f \in Name, Safe(f) PROVE Safe(f)'
    <3>1. checkpoint.before[f] \in {"real", "stub"}
      BY <2>1, <2>2 DEF Safe
    <3>2. (IF functions'[f] = 0 THEN "absent" ELSE module'[functions'[f]].body) \in {"real", "stub"}
      BY <2>1, <3>1, UndoRestores DEF Table
    <3>3. functions'[f] # 0 => functions'[f] \in DOMAIN module'
      BY <2>1 DEF RecoveryInv, TableInv, FunctionOps, Live
    <3> QED
      BY <2>1, <3>2, <3>3 DEF Safe, InModule
  <2>3. \/ item' = item
        \/ item' = item + 1 /\ Row(Declared.symbol) \in ledger'
    BY <1>8 DEF Reject, FinishRetry, Next1
  <2>4. item \in DOMAIN program
    BY <1>1, <2>1 DEF RecoveryTypes
  <2> QED
    BY <1>3, <1>4, <2>1, <2>2, <2>3, <2>4
<1>9. CASE Finalize
  <2>1. /\ step = "walk" /\ item' = item /\ item > Len(program) /\ functions' = functions
        /\ ~Active' /\ Live /\ ~Active /\ module' = Restrict(module, DOMAIN module \ Unused)
    BY <1>9 DEF Finalize, Active, Live
  <2>2. ASSUME NEW f \in Name, Safe(f) PROVE Safe(f)'
    <3>1. InModule(f) /\ functions[f] \in DOMAIN module \ Unused
      BY <2>1, <2>2 DEF Safe, InModule, Unused
    <3>2. DOMAIN module' = DOMAIN module \ Unused /\ \A i \in DOMAIN module' : module'[i] = module[i]
      BY <2>1, RestrictTypes
    <3> QED
      BY <2>1, <3>1, <3>2 DEF Safe, InModule
  <2> QED
    BY <1>1, <1>2, <2>1, <2>2 DEF LossInv, DefinedBy, Row
<1>10. frames = <<>> => Begin \/ Accept \/ Reject \/ Retry \/ FinishRetry \/ Finalize
  BY DEF Next, Demand, Advance, RejectSignature, Reconcile, Signed, Register, Call, EndBody,
     Define, ImportMethod, EndPass, Omit, RejectClass, ImportSpecialization, EndItems,
     RejectItems, At
<1> QED
  BY <1>5, <1>6, <1>7, <1>8, <1>9, <1>10

(* Losses are explained as the walk goes.                                  *)
THEOREM LossInvariant == Spec => [](ItemInv /\ LossInv)
<1>1. Init => ItemInv /\ LossInv
  <2> SUFFICES ASSUME Init PROVE ItemInv /\ LossInv
    OBVIOUS
  <2>1. step = "walk" /\ item = 1 /\ ~Active /\ program \in Seq(Declaration)
    BY ProgramAssumption DEF Init, Active
  <2>2. \A j \in DOMAIN program : ~(j < item)
    BY <2>1
  <2> QED
    BY <2>1, <2>2 DEF ItemInv, LossInv
<1>2. RecoveryInv /\ RecoveryInv' /\ ItemInv /\ LossInv /\ [Next]_vars => (ItemInv /\ LossInv)'
  <2> SUFFICES ASSUME RecoveryInv, RecoveryInv', ItemInv, LossInv, [Next]_vars
               PROVE  ItemInv' /\ LossInv'
    OBVIOUS
  <2>1. CASE Next
    BY <2>1, ItemStackStep, ItemWalkStep, LossStep
  <2>2. CASE UNCHANGED vars
    <3>1. UNCHANGED <<program, module, functions, checkpoint, frames, reply, ledger, step, item>>
      BY <2>2 DEF vars, input, walk
    <3>2. /\ Active' = Active /\ Declared' = Declared /\ Bottom' = Bottom /\ Above' = Above
          /\ \A f : (InModule(f)' <=> InModule(f)) /\ (Settled(f)' <=> Settled(f))
      BY <3>1 DEF Active, Declared, Bottom, Above, InModule, Settled, UnderImport
    <3>3. ItemInv'
      <4>1. Settled(Head(Bottom.left))' <=> Settled(Head(Bottom.left))
        BY <3>1 DEF Settled, InModule, UnderImport, Bottom
      <4> QED
        BY <3>1, <3>2, <4>1 DEF ItemInv, DefinedBy
    <3>4. \A f : Safe(f)' <=> Safe(f)
      BY <3>1, <3>2 DEF Safe
    <3>5. LossInv'
      BY <3>1, <3>4 DEF LossInv, DefinedBy, Row
    <3> QED
      BY <3>3, <3>5
  <2> QED
    BY <2>1, <2>2
<1> QED
  BY <1>1, <1>2, RecoveryInvariant, PTL DEF Spec

(* When the import ends every function a declaration defines is in the      *)
(* module with a body, or the ledger names it or its template: no rollback, *)
(* no omission and no specialization left undone loses one in silence.      *)
THEOREM LossStaysExplained == Spec => []LossIsExplained
<1>1. RecoveryInv /\ LossInv => LossIsExplained
  <2> SUFFICES ASSUME RecoveryInv, LossInv, step = "done", NEW d \in Range(program),
                      NEW f \in Name, f \in DefinedBy(d)
               PROVE  InModule(f) \/ Row(f) \in ledger \/ Row(d.symbol) \in ledger
    BY DEF LossIsExplained
  <2>1. program \in Seq(Declaration) /\ item > Len(program) /\ item \in Nat
    BY ProgramAssumption DEF RecoveryInv, RecoveryTypes, LossInv
  <2>2. PICK j \in DOMAIN program : d = program[j]
    BY DEF Range
  <2>3. j < item
    BY <2>1
  <2> QED
    BY <2>2, <2>3 DEF LossInv, Safe, Active
<1> QED
  BY <1>1, RecoveryInvariant, LossInvariant, PTL

(* An import that fails has not erased a prototype that is called, and the  *)
(* table still names it.                                                   *)
LeftInv ==
  step = "error" => \A i \in DOMAIN module :
    module[i].body = "prototype" => functions[module[i].symbol] = i

LEMMA LeftStep ==
  ASSUME RecoveryInv, LeftInv, [Next]_vars
  PROVE  LeftInv'
<1> SUFFICES ASSUME step' = "error", NEW i \in DOMAIN module', module'[i].body = "prototype"
             PROVE  functions'[module'[i].symbol] = i
  BY DEF LeftInv
<1>1. CASE UNCHANGED vars
  BY <1>1 DEF vars, walk, LeftInv
<1>2. CASE Next
  <2>1. frames # <<>> => step' = step /\ Active
    BY <1>2, StackMoves, TopFits DEF RecoveryInv
  <2>2. frames = <<>>
    BY <2>1 DEF Active
  <2>3. Begin \/ Accept \/ Reject \/ Retry \/ FinishRetry \/ Finalize
    BY <1>2, <2>2 DEF Next, Demand, Advance, RejectSignature, Reconcile, Signed, Register, Call,
       EndBody, Define, ImportMethod, EndPass, Omit, RejectClass, ImportSpecialization,
       EndItems, RejectItems, At
  <2>4. Finalize
    BY <2>3 DEF Begin, Accept, Reject, Retry, FinishRetry, Next1
  <2>5. /\ module' = Restrict(module, DOMAIN module \ Unused) /\ functions' = functions
        /\ step \notin {"done", "error"}
    BY <2>4 DEF Finalize
  <2>6. i \in DOMAIN module /\ module'[i] = module[i]
    BY <2>5, RestrictTypes
  <2>7. i \in FunctionOps
    BY <2>6 DEF FunctionOps
  <2> QED
    BY <2>5, <2>6, <2>7 DEF RecoveryInv, TableInv
<1> QED
  BY <1>1, <1>2

(* When the whole import fails for a function that is called and has no     *)
(* body, and a declaration of the project defines it, the ledger names the  *)
(* function or its template: the failure can be traced to a rejection.      *)
THEOREM FailureIsExplained ==
  Spec => [](step = "error" => \A d \in Range(program) : \A f \in DefinedBy(d) \intersect Bodiless :
               Row(f) \in ledger \/ Row(d.symbol) \in ledger)
<1>1. Init => LeftInv
  BY DEF Init, LeftInv
<1>2. RecoveryInv /\ LossInv /\ LeftInv
      => (step = "error" => \A d \in Range(program) : \A f \in DefinedBy(d) \intersect Bodiless :
            Row(f) \in ledger \/ Row(d.symbol) \in ledger)
  <2> SUFFICES ASSUME RecoveryInv, LossInv, LeftInv, step = "error", NEW d \in Range(program),
                      NEW f \in DefinedBy(d), f \in Bodiless
               PROVE  Row(f) \in ledger \/ Row(d.symbol) \in ledger
    OBVIOUS
  <2>1. program \in Seq(Declaration) /\ item > Len(program) /\ item \in Nat
    BY ProgramAssumption DEF RecoveryInv, RecoveryTypes, LossInv
  <2>2. PICK j \in DOMAIN program : d = program[j]
    BY DEF Range
  <2>3. j < item
    BY <2>1
  <2>4. InModule(f) \/ Row(f) \in ledger \/ Row(d.symbol) \in ledger
    BY <2>2, <2>3 DEF LossInv, Safe, Active
  <2>5. PICK i \in DOMAIN module : module[i].body = "prototype" /\ f = module[i].symbol
    BY DEF Bodiless
  <2>6. ~InModule(f)
    BY <2>5 DEF InModule, LeftInv
  <2> QED
    BY <2>4, <2>6
<1>3. RecoveryInv /\ LeftInv /\ [Next]_vars => LeftInv'
  BY LeftStep
<1> QED
  BY <1>1, <1>2, <1>3, RecoveryInvariant, LossInvariant, PTL DEF Spec

-----------------------------------------------------------------------------
(* Calls across classes.                                                   *)
Foreign(i, g) ==
  OwnersOf(g) # OwnersOf(module[i].symbol) /\ OwnersOf(module[i].symbol) # {}

(* A function that is called and not in the module is lost to its caller,   *)
(* or its class is still being imported and will bring it back.             *)
CallsInv ==
  Live =>
    \A i \in DOMAIN module :
      /\ module[i].body = "struct" => module[i].calls = {}
      /\ \A g \in module[i].calls :
           /\ OwnersOf(g) \subseteq imported
           /\ OwnersOf(module[i].symbol) = {} => ~UnderImport(g)
           /\ functions[g] = 0 => Foreign(i, g) /\ (g \in Lost \/ UnderImport(g))

(* What a rollback would leave without a callee is lost already.            *)
KeptInv ==
  Active =>
    \A i \in DOMAIN module : i <= checkpoint.start =>
      \A g \in module[i].calls :
        checkpoint.before[g] = "absent" => Foreign(i, g) /\ g \in Lost

(* How far the passes over the methods of a class have come.               *)
PassOK(fr) ==
  fr.unit = "class" =>
    /\ fr.phase = "signatures" => \A m \in Methods(fr.of) :
         m \in Range(fr.left) \/ m \in omitted \/ functions[m] # 0
    /\ fr.phase = "bodies" => \A m \in Methods(fr.of) : m \in omitted \/ functions[m] # 0

PassInv ==
  /\ \A k \in 1..Len(frames) : PassOK(frames[k])
  /\ \A j, k \in 1..Len(frames) :
       frames[j].unit = "class" /\ frames[k].unit = "class" /\ frames[j].of = frames[k].of => j = k
  /\ frames # <<>> /\ reply = "ok" /\ Imports(Top) => functions[Head(Top.left)] # 0

DoneInv ==
  step = "done" => \A i \in DOMAIN module, g \in Name :
    Dangles(i, g) => g \in Lost /\ Foreign(i, g)

-----------------------------------------------------------------------------
(* A function of no class is never imported inside one.                     *)
LEMMA FreeFunctionOnTop ==
  ASSUME StackInv, frames # <<>>, Top.unit = "function", OwnersOf(Top.of) = {}
  PROVE  \A k \in 1..Len(frames) : frames[k].unit # "class"
<1>1. /\ Top = frames[1] /\ Len(frames) \in Nat \ {0} /\ \A k \in 1..Len(frames) : Fits(frames[k])
      /\ \A k \in 1..Len(frames) : k > 1 => Awaits(frames[k], frames[k - 1])
  BY TopIsFirst DEF StackInv, Nested
<1>2. Len(frames) > 1 => frames[2].unit = "functions"
  <2> SUFFICES ASSUME Len(frames) > 1 PROVE frames[2].unit = "functions"
    OBVIOUS
  <2>1. 2 \in 1..Len(frames) /\ 2 > 1 /\ 2 - 1 = 1
    BY <1>1
  <2>2. Fits(frames[2]) /\ Awaits(frames[2], Top)
    BY <1>1, <2>1
  <2>3. ~Imports(frames[2])
    <3>1. ASSUME Imports(frames[2]) PROVE FALSE
      <4>1. /\ frames[2].left \in Seq(Methods(frames[2].of)) /\ frames[2].of \in Class
            /\ frames[2].left # <<>> /\ Top.of = Head(frames[2].left)
        BY <2>2, <3>1 DEF Imports, Fits, Awaits
      <4>2. Top.of \in Methods(frames[2].of)
        BY <4>1
      <4> QED
        BY <4>1, <4>2 DEF OwnersOf, Methods
    <3> QED
      BY <3>1
  <2>4. frames[2].unit \in {"function", "class", "functions", "classes"}
    BY <2>2 DEF Fits, Frame
  <2> QED
    BY <2>2, <2>3, <2>4 DEF Fits, Awaits, Demands, Imports
<1>3. ~(Len(frames) > 2)
  <2> SUFFICES ASSUME Len(frames) > 2 PROVE FALSE
    OBVIOUS
  <2>1. 3 \in 1..Len(frames) /\ 3 > 1 /\ 3 - 1 = 2 /\ Len(frames) > 1
    BY <1>1
  <2>2. Fits(frames[3]) /\ Awaits(frames[3], frames[2]) /\ frames[2].unit = "functions"
    BY <1>1, <1>2, <2>1
  <2>3. frames[3].unit \in {"function", "class", "functions", "classes"}
    BY <2>2 DEF Fits, Frame
  <2> QED
    BY <2>2, <2>3 DEF Fits, Awaits, Demands, Imports
<1>4. \A k \in 1..Len(frames) : k = 1 \/ (k = 2 /\ Len(frames) > 1)
  <2>1. \A n \in Nat : ~(n > 2) => \A k \in 1..n : k = 1 \/ (k = 2 /\ n > 1)
    OBVIOUS
  <2> QED
    BY <1>1, <1>3, <2>1
<1> QED
  BY <1>1, <1>2, <1>4

(* Only an erasure takes a function out of the table during an import.      *)
LEMMA FunctionsKept ==
  ASSUME RecoveryInv, Next, frames # <<>>, NEW m \in Name, functions[m] # 0
  PROVE  functions'[m] # 0 \/ (Erases /\ m \in Methods(Top.of))
<1>1. /\ RecoveryTypes /\ StackInv /\ TableInv /\ OpenInv /\ Active /\ born \in Nat
      /\ functions \in [Name -> Nat]
  BY TopFits DEF RecoveryInv, RecoveryTypes
<1>2. CASE Quiet \/ Writes \/ Defines
  BY <1>2 DEF Quiet, Writes, Defines
<1>3. CASE Erases
  <2>1. PICK X : Erase(Methods(Top.of), X)
    BY <1>3 DEF Erases
  <2>2. Methods(Top.of) \in SUBSET Name
    BY <1>3, MethodsAreNames DEF Erases
  <2> QED
    BY <1>1, <1>3, <2>1, <2>2, EraseEffect
<1>4. CASE Register
  <2>1. functions' = [functions EXCEPT ![Top.of] = born + 1] /\ born + 1 # 0
    BY <1>1, <1>4, RegisterEffect
  <2> QED
    BY <1>1, <2>1
<1>5. ~Marks /\ ~Undoes /\ ~Finalize
  BY <1>1 DEF Marks, Undoes, Finalize, Active
<1> QED
  BY <1>1, <1>2, <1>3, <1>4, <1>5, Effects

LEMMA LostGrows ==
  ASSUME Next
  PROVE  omitted \subseteq omitted' /\ rejected \subseteq rejected' /\ Lost \subseteq Lost'
<1>1. omitted \subseteq omitted' /\ rejected \subseteq rejected'
  BY DEF Next, Begin, Accept, Reject, Retry, FinishRetry, Finalize, Demand, Advance,
     RejectSignature, Reconcile, Register, Call, EndBody, Define, ImportMethod, EndPass, Omit,
     RejectClass, ImportSpecialization, EndItems, RejectItems, types
<1> QED
  BY <1>1 DEF Lost

(* What ends an import, by the frame on top.                               *)
LEMMA EndingActions ==
  ASSUME RecoveryInv, Next, frames # <<>>, NEW r \in {"ok", "failed"}, Return(r)
  PROVE  /\ Top.unit = "class" => RejectClass \/ (EndPass /\ Top.phase = "bodies" /\ Top.left = <<>>)
         /\ Top.unit = "function" /\ r = "ok" => Register \/ EndBody \/ (Reconcile /\ functions[Top.of] # 0)
<1>1. /\ StackInv /\ Active
  BY TopFits DEF RecoveryInv
<1>2. /\ frames' = Tail(frames) /\ reply' = r /\ Len(frames') = Len(frames) - 1
      /\ Len(frames) \in Nat
  BY <1>1, PopNested DEF Return, StackInv
<1>3. frames' # frames
  <2>1. \A n \in Nat : n - 1 # n
    OBVIOUS
  <2>2. ASSUME frames' = frames PROVE FALSE
    BY <1>2, <2>1, <2>2
  <2> QED
    BY <2>2
<1>4. \A fr : ~Become(fr) /\ ~Push(fr)
  BY <1>2 DEF Become, Push
<1>5. /\ ~Begin /\ ~Accept /\ ~Reject /\ ~Retry /\ ~FinishRetry /\ ~Finalize
  BY <1>1 DEF Begin, Accept, Reject, Retry, FinishRetry, Finalize, Active
<1>6. ~Demand
  BY <1>3, <1>4 DEF Demand
<1>7. ~Advance /\ ~Define /\ ~ImportMethod /\ ~Omit /\ ~ImportSpecialization
  BY <1>4 DEF Advance, Define, ImportMethod, Omit, ImportSpecialization
<1>8. CASE RejectSignature \/ Call
  BY <1>2, <1>4, <1>8 DEF RejectSignature, Call, At, Return
<1>9. CASE Reconcile
  BY <1>2, <1>9 DEF Reconcile, Signed, At, Return
<1>10. CASE EndPass
  BY <1>4, <1>10 DEF EndPass, At
<1>11. CASE EndItems \/ RejectItems
  BY <1>11 DEF EndItems, RejectItems, At
<1>12. CASE Register \/ EndBody \/ RejectClass
  BY <1>12 DEF Register, Signed, EndBody, RejectClass, At
<1> QED
  BY <1>5, <1>6, <1>7, <1>8, <1>9, <1>10, <1>11, <1>12 DEF Next

(* A class stays under import until its own import ends.                   *)
LEMMA UnderImportEnds ==
  ASSUME RecoveryInv, Next, frames # <<>>, NEW f \in Name, UnderImport(f)
  PROVE  \/ UnderImport(f)'
         \/ Ends /\ Top.unit = "class" /\ Top.of \in OwnersOf(f)
<1>1. StackInv /\ (Waits \/ Pushes \/ Proceeds \/ Ends) /\ Top = frames[1]
      /\ Len(frames) \in Nat \ {0} /\ Nested(frames)
  BY StackMoves, TopIsFirst DEF RecoveryInv, StackInv
<1>2. PICK k \in 1..Len(frames) : frames[k].unit = "class" /\ frames[k].of \in OwnersOf(f)
  BY DEF UnderImport
<1>3. ASSUME NEW j \in 1..Len(frames'), frames'[j].unit = frames[k].unit, frames'[j].of = frames[k].of
      PROVE  UnderImport(f)'
  BY <1>2, <1>3 DEF UnderImport
<1>4. CASE Waits
  BY <1>2, <1>4 DEF Waits, UnderImport
<1>5. CASE Pushes
  <2>1. PICK fr \in Frame : Fits(fr) /\ Awaits(Top, fr) /\ Push(fr)
    BY <1>5 DEF Pushes
  <2>2. /\ Len(frames') = Len(frames) + 1
        /\ \A j \in 1..Len(frames) : frames'[j + 1] = frames[j]
    BY <1>1, <2>1, PushNested DEF Push, Top
  <2>3. k + 1 \in 1..Len(frames') /\ frames'[k + 1] = frames[k]
    BY <1>1, <2>2
  <2> QED
    BY <1>3, <2>3
<1>6. CASE Proceeds
  <2>1. PICK fr \in Frame : Fits(fr) /\ Become(fr) /\ fr.unit = Top.unit /\ fr.of = Top.of
    BY <1>6 DEF Proceeds
  <2>2. /\ Len(frames') = Len(frames) /\ frames'[1] = fr
        /\ \A j \in 2..Len(frames) : frames'[j] = frames[j]
    BY <1>1, <2>1, BecomeNested DEF Become, Top
  <2>3. k = 1 \/ k \in 2..Len(frames)
    BY <1>1
  <2>4. frames'[k].unit = frames[k].unit /\ frames'[k].of = frames[k].of /\ k \in 1..Len(frames')
    BY <1>1, <2>1, <2>2, <2>3
  <2> QED
    BY <1>3, <2>4
<1>7. CASE Ends
  <2>1. CASE k = 1
    BY <1>1, <1>2, <1>7, <2>1
  <2>2. CASE k # 1
    <3>1. PICK r : Return(r)
      BY <1>7 DEF Ends
    <3>2. /\ Len(frames') = Len(frames) - 1
          /\ \A j \in 1..Len(frames) - 1 : frames'[j] = frames[j + 1]
      BY <1>1, <3>1, PopNested DEF Return
    <3>3. k - 1 \in 1..Len(frames) - 1 /\ (k - 1) + 1 = k
      BY <1>1, <2>2
    <3>4. k - 1 \in 1..Len(frames') /\ frames'[k - 1] = frames[k]
      BY <3>2, <3>3
    <3> QED
      BY <1>3, <3>4
  <2> QED
    BY <2>1, <2>2
<1> QED
  BY <1>1, <1>4, <1>5, <1>6, <1>7

(* A callee that is not in the module stays lost, or under import.          *)
LEMMA LostOrUnder ==
  ASSUME RecoveryInv, PassInv, Next, frames # <<>>, NEW g \in Name,
         g \in Lost \/ UnderImport(g), functions'[g] = 0
  PROVE  (g \in Lost)' \/ UnderImport(g)'
<1>1. CASE g \in Lost
  BY <1>1, LostGrows
<1>2. CASE Ends /\ Top.unit = "class" /\ Top.of \in OwnersOf(g)
  <2>1. Top.of \in Class /\ g \in Methods(Top.of)
    BY <1>2 DEF OwnersOf, Methods
  <2>2. PICK r \in {"ok", "failed"} : Return(r)
    BY <1>2 DEF Ends
  <2>3. CASE RejectClass
    <3>1. Top.of \in rejected'
      BY <2>3 DEF RejectClass
    <3> QED
      BY <2>1, <3>1 DEF Lost
  <2>4. CASE EndPass /\ Top.phase = "bodies" /\ Top.left = <<>>
    <3>1. functions' = functions /\ omitted' = omitted
      BY <2>4 DEF EndPass, types
    <3>2. PassOK(Top)
      <4>1. Top = frames[1] /\ 1 \in 1..Len(frames)
        BY TopIsFirst DEF RecoveryInv
      <4> QED
        BY <4>1 DEF PassInv
    <3>3. g \in omitted
      BY <1>2, <2>1, <2>4, <3>1, <3>2 DEF PassOK
    <3> QED
      BY <3>1, <3>3 DEF Lost
  <2> QED
    BY <1>2, <2>2, <2>3, <2>4, EndingActions
<1> QED
  BY <1>1, <1>2, UnderImportEnds

-----------------------------------------------------------------------------
(* The passes.                                                             *)
LEMMA PassKept ==
  ASSUME RecoveryInv, PassInv, Next, frames # <<>>, NEW j \in 1..Len(frames),
         j # 1 \/ functions' = functions, NEW fr, fr = frames[j]
  PROVE  PassOK(fr)'
<1>1. StackInv /\ Fits(fr) /\ Top = frames[1] /\ 1 \in 1..Len(frames) /\ omitted \subseteq omitted'
  BY TopIsFirst, LostGrows DEF RecoveryInv, StackInv, Nested
<1>2. ASSUME fr.unit = "class", NEW m \in Methods(fr.of), functions[m] # 0 PROVE functions'[m] # 0
  <2>1. fr.of \in Class /\ m \in Name
    BY <1>1, <1>2, MethodsAreNames DEF Fits
  <2>2. CASE functions' = functions
    BY <1>2, <2>2
  <2>3. CASE j # 1
    <3>1. ~(Erases /\ m \in Methods(Top.of))
      <4>1. ASSUME Erases, m \in Methods(Top.of) PROVE FALSE
        <5>1. Top.unit = "class" /\ Top.of \in Class
          BY <4>1 DEF Erases
        <5>2. Top.of = fr.of
          BY <1>2, <2>1, <4>1, <5>1, RecoveryAssumption
        <5> QED
          BY <1>1, <1>2, <2>3, <5>1, <5>2 DEF PassInv
      <4> QED
        BY <4>1
    <3> QED
      BY <1>2, <2>1, <3>1, FunctionsKept
  <2> QED
    BY <2>2, <2>3
<1>3. PassOK(fr)
  BY DEF PassInv
<1> QED
  BY <1>1, <1>2, <1>3 DEF PassOK

LEMMA HeadIs ==
  ASSUME NEW S, NEW s \in Seq(S), NEW x, NEW y, <<x>> \o s = <<y>> \o s
  PROVE  x = y
<1>1. (<<x>> \o s)[1] = x /\ (<<y>> \o s)[1] = y
  OBVIOUS
<1> QED
  BY <1>1

LEMMA BecomeIs ==
  ASSUME StackInv, frames # <<>>, NEW x, Become(x), NEW y, Become(y)
  PROVE  x = y
<1>1. Tail(frames) \in Seq(Frame)
  BY DEF StackInv, Nested
<1>2. <<x>> \o Tail(frames) = <<y>> \o Tail(frames)
  BY DEF Become
<1> QED
  BY <1>1, <1>2, HeadIs

(* The frame of a class that goes on.                                      *)
LEMMA PassGoesOn ==
  ASSUME RecoveryInv, PassInv, Next, frames # <<>>, Top.unit = "class",
         NEW fr, Become(fr)
  PROVE  PassOK(fr)'
<1>1. /\ StackInv /\ Active /\ Fits(Top) /\ Top \in Frame /\ Top = frames[1] /\ 1 \in 1..Len(frames)
      /\ omitted \subseteq omitted' /\ PassOK(Top) /\ reply' = "none" /\ frames' = <<fr>> \o Tail(frames)
  BY TopFits, TopIsFirst, LostGrows DEF RecoveryInv, PassInv, Become, Fits
<1>2. Top.of \in Class /\ MethodsOf[Top.of] \in Seq(Methods(Top.of))
      /\ Range(MethodsOf[Top.of]) = Methods(Top.of)
  BY <1>1, MethodsAreNames DEF Fits, Methods
<1>3. /\ ~Begin /\ ~Accept /\ ~Reject /\ ~Retry /\ ~FinishRetry /\ ~Finalize
  BY <1>1 DEF Begin, Accept, Reject, Retry, FinishRetry, Finalize, Active
<1>4. /\ ~RejectSignature /\ ~Reconcile /\ ~Register /\ ~Call /\ ~EndBody
      /\ ~ImportSpecialization /\ ~EndItems /\ ~RejectItems /\ ~RejectClass
  BY <1>1 DEF RejectSignature, Reconcile, Signed, Register, Call, EndBody, ImportSpecialization,
     EndItems, RejectItems, RejectClass, At, Return
<1>5. CASE Define \/ Omit
  <2>1. Become([Top EXCEPT !.phase = "signatures", !.left = MethodsOf[Top.of]])
    BY <1>5 DEF Define, Omit
  <2>2. fr = [Top EXCEPT !.phase = "signatures", !.left = MethodsOf[Top.of]]
    BY <1>1, <2>1, BecomeIs
  <2>3. fr.phase = "signatures" /\ fr.left = MethodsOf[Top.of] /\ fr.of = Top.of
    BY <1>1, <2>2 DEF Frame
  <2> QED
    BY <1>2, <2>3 DEF PassOK
<1>6. CASE EndPass
  <2>1. Become([Top EXCEPT !.phase = "bodies", !.left = MethodsOf[Top.of]])
        /\ Top.phase = "signatures" /\ Top.left = <<>> /\ functions' = functions
    BY <1>1, <1>6 DEF EndPass, Return, At
  <2>2. fr = [Top EXCEPT !.phase = "bodies", !.left = MethodsOf[Top.of]]
    BY <1>1, <2>1, BecomeIs
  <2>3. fr.phase = "bodies" /\ fr.of = Top.of
    BY <1>1, <2>2 DEF Frame
  <2>4. Range(Top.left) = {}
    BY <2>1 DEF Range
  <2>5. \A m \in Methods(Top.of) : m \in omitted \/ functions[m] # 0
    BY <1>1, <2>1, <2>4 DEF PassOK
  <2> QED
    BY <1>1, <2>1, <2>3, <2>5 DEF PassOK
<1>7. ASSUME NEW x, Fits(x), Awaits(Top, x) PROVE ~Push(x)
  <2>1. ASSUME Push(x) PROVE FALSE
    <3>1. Len(frames') = Len(frames) + 1
      BY <1>1, <1>7, <2>1, BottomPush
    <3>2. frames \in Seq(Frame) /\ Len(frames) \in Nat /\ Len(frames) # 0
      BY <1>1, TopIsFirst
    <3>3. Len(<<fr>> \o Tail(frames)) = Len(frames)
      BY <3>2
    <3>4. \A n \in Nat : n + 1 # n
      OBVIOUS
    <3> QED
      BY <1>1, <3>1, <3>2, <3>3, <3>4
  <2> QED
    BY <2>1
<1>8. ~Demand
  <2>1. ASSUME Demand PROVE FALSE
    <3>1. Demands(Top) /\ Top.left # <<>> /\ Top.left \in Seq(Class) /\ Top.phase # "body"
      BY <1>1, <2>1 DEF Demand, At, Demands, Fits
    <3>2. Head(Top.left) \in Class
      BY <3>1
    <3>3. Fits(Record(Head(Top.left))) /\ Awaits(Top, Record(Head(Top.left)))
      BY <3>1, <3>2, NewFramesFit DEF Awaits, Record, Demands, Imports
    <3>4. reply' \in {"ok", "failed"}
      BY <1>7, <2>1, <3>3 DEF Demand
    <3> QED
      BY <1>1, <3>4
  <2> QED
    BY <2>1
<1>9. CASE Advance \/ ImportMethod
  <2>1. /\ Top.left # <<>> /\ Become([Top EXCEPT !.left = Tail(Top.left)]) /\ functions' = functions
        /\ omitted' = omitted
        /\ Imports(Top) => Head(Top.left) \in omitted \/ functions[Head(Top.left)] # 0
    <3>1. CASE Advance
      BY <1>1, <3>1 DEF Advance, StackInv, types, PassInv
    <3>2. CASE ImportMethod
      <4>1. Imports(Top) /\ Top.left # <<>> /\ Top.left \in Seq(Methods(Top.of)) /\ Top.phase # "body"
        BY <1>1, <3>2 DEF ImportMethod, At, Fits, Imports
      <4>2. Head(Top.left) \in Name
        BY <1>2, <4>1, MethodsAreNames
      <4>3. \A d \in BOOLEAN : ~Push(Function(Head(Top.left), d))
        BY <1>7, <4>1, <4>2, NewFramesFit DEF Awaits, Imports, Demands, Function
      <4> QED
        BY <3>2, <4>1, <4>3 DEF ImportMethod, types
    <3> QED
      BY <1>9, <3>1, <3>2
  <2>2. fr = [Top EXCEPT !.left = Tail(Top.left)]
    BY <1>1, <2>1, BecomeIs
  <2>3. fr.phase = Top.phase /\ fr.left = Tail(Top.left) /\ fr.of = Top.of /\ fr.unit = "class"
    BY <1>1, <2>2 DEF Frame
  <2>4. CASE Top.phase = "signatures"
    <3>1. Head(Top.left) \in omitted \/ functions[Head(Top.left)] # 0
      BY <1>1, <2>1, <2>4 DEF Imports
    <3>2. Top.left \in Seq(Methods(Top.of))
      BY <1>1, <2>4 DEF Fits
    <3>3. \A m \in Range(Top.left) : m = Head(Top.left) \/ m \in Range(Tail(Top.left))
      BY <2>1, <3>2, RangeSplits
    <3> QED
      BY <1>1, <2>1, <2>3, <2>4, <3>1, <3>3 DEF PassOK
  <2>5. CASE Top.phase # "signatures"
    BY <1>1, <2>1, <2>3, <2>5 DEF PassOK
  <2> QED
    BY <2>4, <2>5
<1> QED
  BY <1>3, <1>4, <1>5, <1>6, <1>8, <1>9 DEF Next

LEMMA PassStackStep ==
  ASSUME RecoveryInv, PassInv, Next, frames # <<>>
  PROVE  PassInv'
<1>1. /\ RecoveryTypes /\ StackInv /\ Nested(frames) /\ TableInv /\ OpenInv /\ OwnersInv
      /\ Top = frames[1] /\ Len(frames) \in Nat \ {0} /\ 1 \in 1..Len(frames)
      /\ functions \in [Name -> Nat] /\ born \in Nat /\ Fits(Top)
  BY TopIsFirst, TopFits DEF RecoveryInv, StackInv, RecoveryTypes
<1>2. ASSUME NEW k \in 1..Len(frames'), NEW j \in 1..Len(frames), frames'[k] = frames[j],
             j # 1 \/ functions' = functions
      PROVE  \A fr : fr = frames'[k] => PassOK(fr)'
  BY <1>2, PassKept
<1>3. ASSUME \A k \in 1..Len(frames') : \A fr : fr = frames'[k] => PassOK(fr)',
             \A j, k \in 1..Len(frames') :
                frames'[j].unit = "class" /\ frames'[k].unit = "class"
                /\ frames'[j].of = frames'[k].of => j = k,
             reply' = "ok" /\ frames' # <<>> /\ Imports(Top)' => functions'[Head(Top'.left)] # 0
      PROVE  PassInv'
  <2>1. \A k : \A fr : fr = frames'[k] => (PassOK(fr)' <=> PassOK(frames[k])')
    BY DEF PassOK
  <2>2. \A k \in 1..Len(frames') : PassOK(frames[k])'
    BY <1>3, <2>1
  <2> QED
    BY <1>3, <2>2 DEF PassInv
<1>4. \A j, k \in 1..Len(frames) :
        frames[j].unit = "class" /\ frames[k].unit = "class" /\ frames[j].of = frames[k].of => j = k
  BY DEF PassInv
<1>5. CASE Waits
  <2>1. frames' = frames /\ functions' = functions /\ ~Imports(Top)' /\ Len(frames') = Len(frames)
    BY <1>5 DEF Waits, Demands, Imports, Top
  <2> QED
    BY <1>2, <1>3, <1>4, <2>1
<1>6. CASE Pushes
  <2>1. PICK fr \in Frame : /\ Fits(fr) /\ Awaits(Top, fr) /\ Push(fr) /\ functions' = functions
                            /\ fr.unit = "class" => fr.phase = "fields" /\ fr.of \notin imported
    BY <1>6 DEF Pushes
  <2>2. /\ Len(frames') = Len(frames) + 1 /\ frames'[1] = fr /\ reply' = "none"
        /\ \A j \in 1..Len(frames) : frames'[j + 1] = frames[j]
    BY <1>1, <2>1, PushNested DEF Push, Top
  <2>3. \A k \in 1..Len(frames') : k = 1 \/ (k - 1 \in 1..Len(frames) /\ frames'[k] = frames[k - 1])
    <3> SUFFICES ASSUME NEW k \in 1..Len(frames'), k # 1
                 PROVE  k - 1 \in 1..Len(frames) /\ frames'[k] = frames[k - 1]
      OBVIOUS
    <3>1. k - 1 \in 1..Len(frames) /\ (k - 1) + 1 = k
      BY <1>1, <2>2
    <3> QED
      BY <2>2, <3>1
  <2>4. PassOK(fr)'
    BY <2>1 DEF PassOK
  <2>5. ASSUME NEW k \in 1..Len(frames') PROVE \A x : x = frames'[k] => PassOK(x)'
    <3>1. CASE k = 1
      BY <2>2, <2>4, <3>1
    <3>2. CASE k # 1
      BY <1>2, <2>1, <2>3, <3>2
    <3> QED
      BY <3>1, <3>2
  <2>6. \A k \in 1..Len(frames') : k # 1 /\ frames'[k].unit = "class" => frames'[k].of \in imported
    BY <1>1, <2>3 DEF OwnersInv
  <2>7. ASSUME NEW j \in 1..Len(frames'), NEW k \in 1..Len(frames'),
               frames'[j].unit = "class", frames'[k].unit = "class", frames'[j].of = frames'[k].of
        PROVE  j = k
    <3>1. CASE j = 1 \/ k = 1
      BY <2>1, <2>2, <2>6, <2>7, <3>1
    <3>2. CASE j # 1 /\ k # 1
      <4>1. j - 1 \in 1..Len(frames) /\ k - 1 \in 1..Len(frames) /\ frames'[j] = frames[j - 1]
            /\ frames'[k] = frames[k - 1]
        BY <2>3, <3>2
      <4>2. j - 1 = k - 1
        BY <1>4, <2>7, <4>1
      <4> QED
        BY <4>2
    <3> QED
      BY <3>1, <3>2
  <2> QED
    BY <1>3, <2>2, <2>5, <2>7
<1>7. CASE Proceeds
  <2>1. PICK fr \in Frame : Fits(fr) /\ Become(fr) /\ fr.unit = Top.unit /\ fr.of = Top.of
    BY <1>7 DEF Proceeds
  <2>2. /\ Len(frames') = Len(frames) /\ frames'[1] = fr /\ reply' = "none"
        /\ \A j \in 2..Len(frames) : frames'[j] = frames[j]
    BY <1>1, <2>1, BecomeNested DEF Become, Top
  <2>3. \A k \in 1..Len(frames') : k = 1 \/ (k \in 1..Len(frames) /\ frames'[k] = frames[k])
    <3>1. \A k \in 1..Len(frames) : k = 1 \/ k \in 2..Len(frames)
      BY <1>1
    <3> QED
      BY <2>2, <3>1
  <2>4. PassOK(fr)'
    <3>1. CASE Top.unit = "class"
      BY <2>1, <3>1, PassGoesOn
    <3>2. CASE Top.unit # "class"
      BY <2>1, <3>2 DEF PassOK
    <3> QED
      BY <3>1, <3>2
  <2>5. ASSUME NEW k \in 1..Len(frames') PROVE \A x : x = frames'[k] => PassOK(x)'
    <3>1. CASE k = 1
      BY <2>2, <2>4, <3>1
    <3>2. CASE k # 1
      BY <1>2, <2>3, <3>2
    <3> QED
      BY <3>1, <3>2
  <2>6. \A k \in 1..Len(frames') : frames'[k].unit = frames[k].unit /\ frames'[k].of = frames[k].of
    BY <1>1, <2>1, <2>2, <2>3
  <2> QED
    BY <1>3, <1>4, <2>2, <2>5, <2>6
<1>8. CASE Ends
  <2>1. PICK r \in {"ok", "failed"} : Return(r)
    BY <1>8 DEF Ends
  <2>2. /\ Len(frames') = Len(frames) - 1 /\ reply' = r
        /\ \A j \in 1..Len(frames) - 1 : frames'[j] = frames[j + 1]
    BY <1>1, <2>1, PopNested DEF Return
  <2>3. \A k \in 1..Len(frames') :
          k + 1 \in 1..Len(frames) /\ k + 1 # 1 /\ frames'[k] = frames[k + 1]
    BY <1>1, <2>2
  <2>4. \A k \in 1..Len(frames') : \A x : x = frames'[k] => PassOK(x)'
    BY <1>2, <2>3
  <2>5. ASSUME NEW j \in 1..Len(frames'), NEW k \in 1..Len(frames'),
               frames'[j].unit = "class", frames'[k].unit = "class", frames'[j].of = frames'[k].of
        PROVE  j = k
    <3>1. j + 1 = k + 1
      BY <1>4, <2>3, <2>5
    <3> QED
      BY <3>1
  <2>6. ASSUME r = "ok", frames' # <<>>, Imports(Top)' PROVE functions'[Head(Top'.left)] # 0
    <3>1. Awaits(Top', Top)
      BY <1>1, <2>1, <2>6, ReturnKeeps
    <3>2. Top.unit = "function" /\ Top.of = Head(Top'.left)
      BY <2>6, <3>1 DEF Awaits, Imports
    <3>3. Top.of \in Name
      BY <1>1, <3>2 DEF Fits
    <3>4. CASE Register
      BY <1>1, <3>2, <3>3, <3>4, RegisterEffect
    <3>5. CASE EndBody
      <4>1. functions[Top.of] \in DOMAIN module /\ functions' = functions
        BY <1>1, <3>5, OpenIsNamed DEF EndBody
      <4>2. 0 \notin DOMAIN module
        BY <1>1 DEF RecoveryTypes
      <4> QED
        BY <3>2, <4>1, <4>2
    <3>6. CASE Reconcile /\ functions[Top.of] # 0
      BY <3>2, <3>6 DEF Reconcile
    <3> QED
      BY <2>1, <2>6, <3>2, <3>4, <3>5, <3>6, EndingActions
  <2> QED
    BY <1>3, <2>2, <2>4, <2>5, <2>6
<1> QED
  BY <1>5, <1>6, <1>7, <1>8, StackMoves

LEMMA PassWalkStep ==
  ASSUME RecoveryInv, PassInv, Next, frames = <<>>
  PROVE  PassInv' /\ \A f : ~UnderImport(f)'
<1>1. RecoveryTypes /\ StackInv /\ Len(frames) = 0
  BY DEF RecoveryInv
<1>2. ~Demand
  BY DEF Demand, At
<1>3. \A k \in 1..Len(frames') : frames'[k].unit # "class"
  <2>1. \A k : ~Comes(k)
    BY <1>1 DEF Comes
  <2> QED
    BY <1>1, <1>2, <2>1, ClassFrames
<1>4. StackInv'
  BY RecoveryStep DEF RecoveryInv
<1>5. frames' # <<>> => ~Imports(Top)'
  <2>1. frames' # <<>> => 1 \in 1..Len(frames') /\ Top' = frames'[1]
    BY <1>4, PopNested DEF StackInv, Top
  <2> QED
    BY <1>3, <2>1 DEF Imports
<1> QED
  BY <1>3, <1>5 DEF PassInv, PassOK, UnderImport

-----------------------------------------------------------------------------
(* Where the calls of an operation come from.                              *)
Older(i, j) ==
  /\ j \in DOMAIN module /\ module'[i].symbol = module[j].symbol
  /\ module'[i].calls = module[j].calls
  /\ module'[i].body = "struct" <=> module[j].body = "struct"

Resolves(i) ==
  /\ OwnersOf(Top.of) = {} => \A f \in Name : ~UnderImport(f)
  /\ i \in DOMAIN module /\ module'[i].symbol = Top.of /\ module[i].symbol = Top.of
  /\ module'[i].body = "open" /\ functions' = functions
  /\ \E g \in Name : functions[g] # 0 /\ module'[i].calls = module[i].calls \union {g}

LEMMA CallsComeFrom ==
  ASSUME RecoveryInv, Next, NEW i \in DOMAIN module'
  PROVE  \/ Older(i, i)
         \/ frames # <<>> /\ i > checkpoint.start /\ Resolves(i)
         \/ module'[i].calls = {} /\ (Active /\ Active' => i > checkpoint.start)
<1>1. /\ RecoveryTypes /\ StackInv /\ TableInv /\ OpenInv /\ AnchorInv /\ born \in Nat
      /\ \A j \in DOMAIN module : IsOp(module[j]) /\ j \in 1..born
      /\ Active => checkpoint.start <= born /\ checkpoint.start \in Nat
  BY DEF RecoveryInv, RecoveryTypes, AnchorInv
<1>2. CASE Quiet \/ Marks
  BY <1>2 DEF Quiet, Marks, Older
<1>3. CASE Undoes
  <2>1. /\ DOMAIN module' = Remaining \union {born + k : k \in DOMAIN Clones}
        /\ \A j \in Remaining : j \in DOMAIN module /\ module'[j] = module[j]
        /\ \A k \in DOMAIN Clones : module'[born + k] = Op(Clones[k], "prototype")
    BY <1>1, <1>3, RollBackEffect DEF Undoes
  <2>2. CASE i \in Remaining
    BY <2>1, <2>2 DEF Older
  <2>3. CASE i \notin Remaining
    <3>1. PICK k \in DOMAIN Clones : i = born + k
      BY <2>1, <2>3
    <3>2. module'[i] = Op(Clones[k], "prototype")
      BY <2>1, <3>1
    <3>3. module'[i].calls = {}
      BY <3>2 DEF Op
    <3>4. ~Active'
      BY <1>3 DEF Undoes
    <3> QED
      BY <3>3, <3>4
  <2> QED
    BY <2>2, <2>3
<1>4. CASE Defines
  <2>1. PICK c \in Class : module' = With(module, Op(c, "struct"))
    BY <1>4 DEF Defines
  <2>2. IsOp(Op(c, "struct")) /\ Op(c, "struct").calls = {} /\ Active
    BY <1>4, NewOps DEF Op, Defines
  <2>3. /\ DOMAIN module' = DOMAIN module \union {born + 1} /\ module'[born + 1] = Op(c, "struct")
        /\ \A j \in DOMAIN module : module'[j] = module[j]
    BY <1>1, <2>1, <2>2, WithTypes
  <2>4. CASE i \in DOMAIN module
    BY <2>3, <2>4 DEF Older
  <2>5. CASE i = born + 1
    BY <1>1, <2>2, <2>3, <2>5
  <2> QED
    BY <2>3, <2>4, <2>5
<1>5. CASE Erases
  <2>1. PICK X : Erase(Methods(Top.of), X)
    BY <1>5 DEF Erases
  <2>2. Methods(Top.of) \in SUBSET Name
    BY <1>5, MethodsAreNames DEF Erases
  <2>3. i \in DOMAIN module /\ module'[i] = module[i]
    BY <1>1, <2>1, <2>2, EraseEffect
  <2> QED
    BY <2>3 DEF Older
<1>6. CASE Register
  <2>1. /\ DOMAIN module' = (DOMAIN module \ {functions[Top.of]}) \union {born + 1}
        /\ \A j \in DOMAIN module \ {functions[Top.of]} : module'[j] = module[j]
        /\ \E b \in {"stub", "open", "prototype"} : module'[born + 1] = Op(Top.of, b)
        /\ frames # <<>>
    BY <1>1, <1>6, RegisterEffect
  <2>2. CASE i = born + 1
    <3>1. module'[i].calls = {} /\ Active
      BY <1>1, <2>1, <2>2, TopFits DEF Op
    <3> QED
      BY <1>1, <2>2, <3>1
  <2>3. CASE i # born + 1
    BY <2>1, <2>3 DEF Older
  <2> QED
    BY <2>2, <2>3
<1>7. CASE Finalize
  <2>1. module' = Restrict(module, DOMAIN module \ Unused)
    BY <1>7 DEF Finalize
  <2>2. i \in DOMAIN module /\ module'[i] = module[i]
    BY <2>1, RestrictTypes
  <2> QED
    BY <2>2 DEF Older
<1>8. CASE Call \/ EndBody
  <2> DEFINE o == functions[Top.of]
  <2>1. /\ At("function", "body") /\ frames # <<>> /\ Top.unit = "function" /\ Top.phase = "body"
    BY <1>8 DEF Call, EndBody, At
  <2>2. /\ Top.of \in Name /\ Active /\ o \in DOMAIN module /\ o > checkpoint.start
        /\ module[o].symbol = Top.of /\ module[o].body = "open" /\ IsOp(module[o])
    BY <1>1, <2>1, OpenIsNamed
  <2>3. CASE UNCHANGED module
    BY <2>3 DEF Older
  <2>4. CASE EndBody /\ ~UNCHANGED module
    <3>1. module' = [module EXCEPT ![o].body = "real"]
      BY <2>4 DEF EndBody
    <3> QED
      BY <1>1, <2>2, <3>1 DEF Older, IsOp
  <2>5. CASE Call /\ ~UNCHANGED module
    <3> DEFINE g == Head(Top.left)
    <3>1. /\ functions[g] # 0 /\ functions' = functions /\ Top.left # <<>>
          /\ module' = [module EXCEPT ![o].calls = @ \union {g}]
      BY <2>5 DEF Call
    <3>2. Top.left \in Seq(Name)
      BY <1>1, <2>1, TopFits DEF Fits
    <3>3. g \in Name
      BY <3>1, <3>2
    <3>4. CASE i # o
      BY <3>1, <3>4 DEF Older
    <3>5. CASE i = o
      <4>1. /\ module'[i].symbol = Top.of /\ module'[i].body = "open"
            /\ module'[i].calls = module[i].calls \union {g}
        BY <2>2, <3>1, <3>5 DEF IsOp
      <4>2. OwnersOf(Top.of) = {} => \A f \in Name : ~UnderImport(f)
        BY <1>1, <2>1, FreeFunctionOnTop DEF UnderImport
      <4> QED
        BY <2>1, <2>2, <3>1, <3>3, <3>5, <4>1, <4>2 DEF Resolves
    <3> QED
      BY <3>4, <3>5
  <2> QED
    BY <1>8, <2>3, <2>4, <2>5
<1> QED
  BY <1>1, <1>2, <1>3, <1>4, <1>5, <1>6, <1>7, <1>8, Effects

-----------------------------------------------------------------------------
(* An operation that survives an erasure is no method of the class.         *)
LEMMA SurvivorIsForeign ==
  ASSUME RecoveryInv, Next, Erases, NEW i \in DOMAIN module', i \in DOMAIN module,
         module[i].calls # {} => module[i].body # "struct", module[i].calls # {},
         NEW g \in Methods(Top.of)
  PROVE  OwnersOf(g) # OwnersOf(module[i].symbol)
<1>1. RecoveryTypes /\ StackInv /\ TableInv /\ Live
  BY DEF RecoveryInv, Erases, Live, Active
<1>2. PICK X : Erase(Methods(Top.of), X)
  BY DEF Erases
<1>3. Top.of \in Class /\ Methods(Top.of) \in SUBSET Name /\ OwnersOf(g) = {Top.of}
  BY MethodsAreNames DEF Erases
<1>4. i \notin Registered(Methods(Top.of))
  <2>1. DOMAIN module' = DOMAIN module \ (Registered(Methods(Top.of)) \union X)
    BY <1>1, <1>2, <1>3, EraseEffect
  <2> QED
    BY <2>1
<1>5. functions[module[i].symbol] = i /\ i # 0
  BY <1>1 DEF TableInv, FunctionOps, Live, RecoveryTypes
<1>6. module[i].symbol \notin Methods(Top.of)
  BY <1>4, <1>5 DEF Registered
<1> QED
  BY <1>3, <1>6 DEF OwnersOf, Methods

LEMMA CallsStackStep ==
  ASSUME RecoveryInv, PassInv, CallsInv, Next, frames # <<>>
  PROVE  CallsInv'
<1>1. /\ RecoveryTypes /\ StackInv /\ TableInv /\ OwnersInv /\ Live /\ Active
      /\ imported \subseteq imported' /\ \A j \in DOMAIN module : IsOp(module[j])
  BY TopFits, OwnersData DEF RecoveryInv, RecoveryTypes, Live, Active
<1>2. ASSUME NEW i \in DOMAIN module', Older(i, i)
      PROVE  /\ module'[i].body = "struct" => module'[i].calls = {}
             /\ \A g \in module'[i].calls :
                  /\ OwnersOf(g) \subseteq imported'
                  /\ OwnersOf(module'[i].symbol) = {} => ~UnderImport(g)'
                  /\ functions'[g] = 0 =>
                       /\ OwnersOf(g) # OwnersOf(module'[i].symbol) /\ OwnersOf(module'[i].symbol) # {}
                       /\ (g \in Lost)' \/ UnderImport(g)'
  <2>1. /\ i \in DOMAIN module /\ module'[i].symbol = module[i].symbol
        /\ module'[i].calls = module[i].calls
        /\ module'[i].body = "struct" <=> module[i].body = "struct"
    BY <1>2 DEF Older
  <2>2. SUFFICES ASSUME NEW g \in module[i].calls
                 PROVE  /\ OwnersOf(g) \subseteq imported'
                        /\ OwnersOf(module[i].symbol) = {} => ~UnderImport(g)'
                        /\ functions'[g] = 0 =>
                             /\ OwnersOf(g) # OwnersOf(module[i].symbol) /\ OwnersOf(module[i].symbol) # {}
                             /\ (g \in Lost)' \/ UnderImport(g)'
    BY <1>1, <2>1 DEF CallsInv
  <2>3. /\ g \in Name /\ OwnersOf(g) \subseteq imported /\ module[i].body # "struct"
        /\ OwnersOf(module[i].symbol) = {} => ~UnderImport(g)
        /\ functions[g] = 0 => /\ OwnersOf(g) # OwnersOf(module[i].symbol)
                               /\ OwnersOf(module[i].symbol) # {}
                               /\ g \in Lost \/ UnderImport(g)
    BY <1>1, <2>1 DEF CallsInv, Foreign, IsOp
  <2>4. ASSUME functions'[g] = 0
        PROVE  /\ OwnersOf(g) # OwnersOf(module[i].symbol) /\ OwnersOf(module[i].symbol) # {}
               /\ g \in Lost \/ UnderImport(g)
    <3>1. CASE functions[g] = 0
      BY <2>3, <3>1
    <3>2. CASE functions[g] # 0
      <4>1. Erases /\ g \in Methods(Top.of)
        BY <2>3, <2>4, <3>2, FunctionsKept
      <4>2. UnderImport(g)
        <5>1. /\ Top.unit = "class" /\ Top.of \in Class /\ Top = frames[1] /\ 1 \in 1..Len(frames)
          BY <1>1, <4>1, TopIsFirst DEF Erases
        <5>2. Top.of \in OwnersOf(g)
          BY <4>1, <5>1 DEF OwnersOf, Methods
        <5> QED
          BY <5>1, <5>2 DEF UnderImport
      <4>3. OwnersOf(g) # OwnersOf(module[i].symbol)
        BY <1>2, <2>1, <2>2, <2>3, <4>1, SurvivorIsForeign
      <4> QED
        BY <2>3, <4>2, <4>3
    <3> QED
      BY <3>1, <3>2
  <2>5. functions'[g] = 0 => (g \in Lost)' \/ UnderImport(g)'
    BY <2>3, <2>4, LostOrUnder
  <2>6. ~UnderImport(g) => ~UnderImport(g)'
    BY <2>3, UnderImportKept
  <2> QED
    BY <1>1, <2>3, <2>4, <2>5, <2>6
<1>3. ASSUME NEW i \in DOMAIN module', Resolves(i)
      PROVE  /\ module'[i].body = "struct" => module'[i].calls = {}
             /\ \A g \in module'[i].calls :
                  /\ OwnersOf(g) \subseteq imported'
                  /\ OwnersOf(module'[i].symbol) = {} => ~UnderImport(g)'
                  /\ functions'[g] = 0 =>
                       /\ OwnersOf(g) # OwnersOf(module'[i].symbol) /\ OwnersOf(module'[i].symbol) # {}
                       /\ (g \in Lost)' \/ UnderImport(g)'
  <2>1. PICK h \in Name : functions[h] # 0 /\ module'[i].calls = module[i].calls \union {h}
    BY <1>3 DEF Resolves
  <2>2. /\ i \in DOMAIN module /\ module'[i].symbol = Top.of /\ module[i].symbol = Top.of
        /\ module'[i].body = "open" /\ functions' = functions
        /\ OwnersOf(Top.of) = {} => \A f \in Name : ~UnderImport(f)
    BY <1>3 DEF Resolves
  <2>3. ASSUME NEW g \in module'[i].calls
        PROVE  /\ g \in Name /\ OwnersOf(g) \subseteq imported
               /\ functions[g] = 0 =>
                    /\ OwnersOf(g) # OwnersOf(Top.of) /\ OwnersOf(Top.of) # {}
                    /\ g \in Lost \/ UnderImport(g)
    <3>1. CASE g = h
      BY <1>1, <2>1, <3>1 DEF OwnersInv
    <3>2. CASE g \in module[i].calls
      BY <1>1, <2>2, <3>2 DEF CallsInv, Foreign, IsOp
    <3> QED
      BY <2>1, <2>3, <3>1, <3>2
  <2>4. ASSUME NEW g \in module'[i].calls, OwnersOf(Top.of) = {} PROVE ~UnderImport(g)'
    BY <2>2, <2>3, <2>4, UnderImportKept
  <2>5. ASSUME NEW g \in module'[i].calls, functions'[g] = 0
        PROVE  (g \in Lost)' \/ UnderImport(g)'
    BY <2>2, <2>3, <2>5, LostOrUnder
  <2> QED
    BY <1>1, <2>2, <2>3, <2>4, <2>5
<1>4. SUFFICES \A i \in DOMAIN module' :
             /\ module'[i].body = "struct" => module'[i].calls = {}
             /\ \A g \in module'[i].calls :
                  /\ OwnersOf(g) \subseteq imported'
                  /\ OwnersOf(module'[i].symbol) = {} => ~UnderImport(g)'
                  /\ functions'[g] = 0 =>
                       /\ OwnersOf(g) # OwnersOf(module'[i].symbol) /\ OwnersOf(module'[i].symbol) # {}
                       /\ (g \in Lost)' \/ UnderImport(g)'
  BY DEF CallsInv, Foreign, UnderImport
<1> QED
  BY <1>2, <1>3, CallsComeFrom

LEMMA CallsWalkStep ==
  ASSUME RecoveryInv, RecoveryInv', PassInv, CallsInv, KeptInv, Next, frames = <<>>
  PROVE  CallsInv'
<1> SUFFICES ASSUME Live', NEW i \in DOMAIN module'
             PROVE  /\ module'[i].body = "struct" => module'[i].calls = {}
                    /\ \A g \in module'[i].calls :
                         /\ OwnersOf(g) \subseteq imported'
                         /\ ~UnderImport(g)'
                         /\ functions'[g] = 0 => Foreign(i, g)' /\ (g \in Lost)'
  BY DEF CallsInv, Foreign, UnderImport
<1>1. /\ RecoveryTypes /\ StackInv /\ TableInv /\ AnchorInv /\ Len(frames) = 0
      /\ imported \subseteq imported' /\ \A j \in DOMAIN module : IsOp(module[j])
  BY OwnersData DEF RecoveryInv, RecoveryTypes
<1>2. \A f : ~UnderImport(f)' /\ ~UnderImport(f)
  BY <1>1, PassWalkStep DEF UnderImport
<1>3. Live
  BY DEF Next, Begin, Accept, Reject, Retry, FinishRetry, Finalize, Demand, Advance,
     RejectSignature, Reconcile, Signed, Register, Call, EndBody, Define, ImportMethod, EndPass,
     Omit, RejectClass, ImportSpecialization, EndItems, RejectItems, At, Live
<1>4. CASE module'[i].calls = {}
  BY <1>4
<1>5. CASE Older(i, i)
  <2>1. /\ i \in DOMAIN module /\ module'[i].symbol = module[i].symbol
        /\ module'[i].calls = module[i].calls
        /\ module'[i].body = "struct" <=> module[i].body = "struct"
    BY <1>5 DEF Older
  <2>2. SUFFICES ASSUME NEW g \in module[i].calls, functions'[g] = 0
                 PROVE  Foreign(i, g) /\ g \in Lost
    <3>1. Lost \subseteq Lost'
      BY LostGrows
    <3> QED
      BY <1>1, <1>2, <1>3, <2>1, <2>2, <3>1 DEF CallsInv, Foreign
  <2>3. g \in Name /\ (functions[g] = 0 => Foreign(i, g) /\ g \in Lost)
    BY <1>1, <1>2, <1>3, <2>1, <2>2 DEF CallsInv, IsOp
  <2>4. CASE functions' = functions
    BY <2>2, <2>3, <2>4
  <2>5. CASE Undoes
    <3>1. checkpoint.before[g] = "absent"
      BY <2>2, <2>3, <2>5, UndoRestores DEF Table
    <3>2. i <= checkpoint.start
      <4>1. DOMAIN module' = Remaining \union {born + k : k \in DOMAIN Clones} /\ RollBack
        BY <1>1, <2>5, RollBackEffect DEF Undoes
      <4>2. i \in Remaining
        <5>1. ASSUME NEW k \in DOMAIN Clones, i = born + k PROVE FALSE
          <6>1. k \in 1..Len(Clones) /\ Len(Clones) \in Nat
            BY <1>1, <4>1, RollBackEffect
          <6>2. i \in 1..born /\ born \in Nat
            BY <1>1, <2>1 DEF RecoveryTypes
          <6> QED
            BY <5>1, <6>1, <6>2
        <5> QED
          BY <4>1, <5>1
      <4>3. module[i].body # "struct"
        BY <1>3, <2>1, <2>2 DEF CallsInv
      <4>4. i <= checkpoint.anchor
        BY <4>2, <4>3 DEF Remaining
      <4> QED
        BY <1>1, <2>1, <2>5, <4>4 DEF AnchorInv, Undoes
    <3> QED
      BY <2>1, <2>2, <2>5, <3>1, <3>2 DEF KeptInv, Undoes
  <2>6. functions' = functions \/ Undoes
    <3>1. Begin \/ Accept \/ Reject \/ Retry \/ FinishRetry \/ Finalize
      BY DEF Next, Demand, Advance, RejectSignature, Reconcile, Signed, Register, Call, EndBody,
         Define, ImportMethod, EndPass, Omit, RejectClass, ImportSpecialization, EndItems,
         RejectItems, At
    <3>2. CASE Begin \/ Accept \/ Retry \/ Finalize
      BY <3>2 DEF Begin, Accept, Retry, Finalize
    <3>3. CASE Reject \/ FinishRetry
      BY <3>3 DEF Reject, FinishRetry, Undoes, Next1, Live, Active
    <3> QED
      BY <3>1, <3>2, <3>3
  <2> QED
    BY <2>4, <2>5, <2>6
<1> QED
  BY <1>4, <1>5, CallsComeFrom

LEMMA KeptStep ==
  ASSUME RecoveryInv, RecoveryInv', CallsInv, KeptInv, Next
  PROVE  KeptInv'
<1> SUFFICES ASSUME Active', NEW i \in DOMAIN module', i <= checkpoint'.start,
                    NEW g \in module'[i].calls, checkpoint'.before[g] = "absent"
             PROVE  Foreign(i, g)' /\ (g \in Lost)'
  BY DEF KeptInv
<1>1. /\ RecoveryTypes /\ StackInv /\ TableInv /\ Lost \subseteq Lost'
      /\ \A j \in DOMAIN module : IsOp(module[j]) /\ j \in Nat
      /\ g \in Name /\ i \in Nat
  BY LostGrows DEF RecoveryInv, RecoveryTypes, IsOp
<1>2. CASE frames # <<>>
  <2>1. Active /\ checkpoint'.before = checkpoint.before /\ checkpoint'.start = checkpoint.start
        /\ checkpoint.start \in Nat
    BY <1>1, <1>2, StackMoves, TopFits DEF RecoveryTypes
  <2>2. Older(i, i)
    BY <1>1, <2>1, CallsComeFrom
  <2>3. Foreign(i, g) /\ g \in Lost
    BY <2>1, <2>2 DEF Older, KeptInv
  <2> QED
    BY <1>1, <2>2, <2>3 DEF Foreign, Older
<1>3. CASE frames = <<>>
  <2>1. Begin \/ Accept \/ Reject \/ Retry \/ FinishRetry \/ Finalize
    BY <1>3 DEF Next, Demand, Advance, RejectSignature, Reconcile, Signed, Register, Call,
       EndBody, Define, ImportMethod, EndPass, Omit, RejectClass, ImportSpecialization, EndItems,
       RejectItems, At
  <2>2. Begin \/ Retry
    BY <2>1 DEF Accept, Reject, FinishRetry, Finalize, Next1, Active
  <2>3. checkpoint'.before = Table /\ module' = module /\ Live
    BY <2>2 DEF Begin, Retry, Mark, Live
  <2>4. functions[g] = 0
    <3>1. ASSUME functions[g] # 0 PROVE FALSE
      <4>1. module[functions[g]].body \in Body
        BY <1>1, <2>3, <3>1 DEF TableInv, FunctionOps, Live, IsOp
      <4> QED
        BY <1>1, <2>3, <3>1, <4>1 DEF Table, Body
    <3> QED
      BY <3>1
  <2>5. ~UnderImport(g)
    BY <1>3 DEF UnderImport
  <2>6. Foreign(i, g) /\ g \in Lost
    BY <2>3, <2>4, <2>5 DEF CallsInv
  <2> QED
    BY <1>1, <2>3, <2>6 DEF Foreign
<1> QED
  BY <1>2, <1>3

LEMMA CalleesGone ==
  ASSUME RecoveryInv, CallsInv, frames = <<>>, Live, NEW i \in DOMAIN module, NEW g \in Name,
         g \in module[i].calls, functions[g] \notin DOMAIN module
  PROVE  Foreign(i, g) /\ g \in Lost
<1>1. functions[g] = 0
  BY DEF RecoveryInv, TableInv, FunctionOps, Live
<1>2. ~UnderImport(g)
  BY DEF UnderImport
<1> QED
  BY <1>1, <1>2 DEF CallsInv

LEMMA DoneStep ==
  ASSUME RecoveryInv, CallsInv, DoneInv, Next
  PROVE  DoneInv'
<1> SUFFICES ASSUME step' = "done", NEW i \in DOMAIN module', NEW g \in Name, Dangles(i, g)'
             PROVE  (g \in Lost)' /\ Foreign(i, g)'
  BY DEF DoneInv
<1>1. frames # <<>> => step' = step /\ Active
  BY StackMoves, TopFits DEF RecoveryInv
<1>2. frames = <<>>
  BY <1>1 DEF Active
<1>3. Begin \/ Accept \/ Reject \/ Retry \/ FinishRetry \/ Finalize
  BY <1>2 DEF Next, Demand, Advance, RejectSignature, Reconcile, Signed, Register, Call,
     EndBody, Define, ImportMethod, EndPass, Omit, RejectClass, ImportSpecialization, EndItems,
     RejectItems, At
<1>4. Finalize
  BY <1>3 DEF Begin, Accept, Reject, Retry, FinishRetry, Next1
<1>5. /\ module' = Restrict(module, DOMAIN module \ Unused) /\ functions' = functions /\ Live
      /\ Lost \subseteq Lost'
  BY <1>4, LostGrows DEF Finalize, Live
<1>6. DOMAIN module' = DOMAIN module \ Unused /\ \A j \in DOMAIN module' : module'[j] = module[j]
  BY <1>5, RestrictTypes
<1>7. g \in module[i].calls /\ functions[g] \notin DOMAIN module \ Unused
  BY <1>5, <1>6 DEF Dangles
<1>8. functions[g] \notin DOMAIN module
  <2>1. ASSUME functions[g] \in Unused PROVE FALSE
    <3>1. module[functions[g]].symbol = g
      <4>1. functions[g] # 0
        BY <2>1 DEF Unused, RecoveryInv, RecoveryTypes
      <4> QED
        BY <1>5, <4>1 DEF RecoveryInv, TableInv, Live
    <3>2. g \in Called
      BY <1>6, <1>7 DEF Called
    <3> QED
      BY <2>1, <3>1, <3>2 DEF Unused
  <2> QED
    BY <1>7, <2>1
<1>9. Foreign(i, g) /\ g \in Lost
  BY <1>2, <1>5, <1>6, <1>7, <1>8, CalleesGone
<1> QED
  BY <1>5, <1>6, <1>9 DEF Foreign

(* Calls are accounted for at every step.                                  *)
CalleesInv == PassInv /\ CallsInv /\ KeptInv /\ DoneInv

THEOREM CalleesInvariant == Spec => []CalleesInv
<1>1. Init => CalleesInv
  <2> SUFFICES ASSUME Init PROVE CalleesInv
    OBVIOUS
  <2>1. step = "walk" /\ frames = <<>> /\ Len(frames) = 0 /\ module = <<>> /\ DOMAIN module = {}
    BY DEF Init
  <2> QED
    BY <2>1 DEF CalleesInv, PassInv, CallsInv, KeptInv, DoneInv, Active
<1>2. RecoveryInv /\ RecoveryInv' /\ CalleesInv /\ [Next]_vars => CalleesInv'
  <2> SUFFICES ASSUME RecoveryInv, RecoveryInv', CalleesInv, [Next]_vars PROVE CalleesInv'
    OBVIOUS
  <2>1. CASE Next
    <3>1. PassInv'
      BY <2>1, PassStackStep, PassWalkStep DEF CalleesInv
    <3>2. CallsInv'
      BY <2>1, CallsStackStep, CallsWalkStep DEF CalleesInv
    <3>3. KeptInv' /\ DoneInv'
      BY <2>1, KeptStep, DoneStep DEF CalleesInv
    <3> QED
      BY <3>1, <3>2, <3>3 DEF CalleesInv
  <2>2. CASE UNCHANGED vars
    <3>1. /\ UNCHANGED <<module, functions, imported, rejected, omitted, checkpoint, frames>>
          /\ UNCHANGED <<reply, step>>
      BY <2>2 DEF vars, types, walk
    <3>2. Lost' = Lost /\ Live' = Live /\ Active' = Active /\ Top' = Top
      BY <3>1 DEF Lost, Live, Active, Top
    <3>3. PassInv'
      BY <3>1, <3>2 DEF CalleesInv, PassInv, PassOK
    <3>4. CallsInv'
      BY <3>1, <3>2 DEF CalleesInv, CallsInv, Foreign, UnderImport
    <3>5. KeptInv' /\ DoneInv'
      BY <3>1, <3>2 DEF CalleesInv, KeptInv, DoneInv, Foreign, Dangles
    <3> QED
      BY <3>3, <3>4, <3>5 DEF CalleesInv
  <2> QED
    BY <2>1, <2>2
<1> QED
  BY <1>1, <1>2, RecoveryInvariant, PTL DEF Spec

(* Between two declarations and when the import ends, a call finds its      *)
(* callee in the module, unless it goes from a method of one class to a     *)
(* method another class was imported without.                              *)
THEOREM OwnCallsStayResolved == Spec => []OwnCallsResolve
<1>1. RecoveryInv /\ CalleesInv => OwnCallsResolve
  <2> SUFFICES ASSUME RecoveryInv, CalleesInv, step \in {"walk", "done"},
                      NEW i \in DOMAIN module, NEW g \in Name, Dangles(i, g)
               PROVE  g \in Lost /\ Foreign(i, g)
    BY DEF OwnCallsResolve, Foreign
  <2>1. CASE step = "walk"
    <3>1. frames = <<>> /\ Live
      BY <2>1 DEF RecoveryInv, StackInv, Active, Live
    <3> QED
      BY <3>1, CalleesGone DEF CalleesInv, Dangles
  <2>2. CASE step = "done"
    BY <2>2 DEF CalleesInv, DoneInv
  <2> QED
    BY <2>1, <2>2
<1> QED
  BY <1>1, RecoveryInvariant, CalleesInvariant, PTL
=============================================================================
