---------------------------- MODULE ImportRecovery ----------------------------
(***************************************************************************)
(* The recovering import (lib/ImportC/ImportCRecovery.cpp and the walks it  *)
(* wraps): every top-level declaration is imported under a checkpoint of    *)
(* the module; one that is rejected is rolled back, retried as a stub when  *)
(* it is a function, and entered in the ledger, and the walk goes on.       *)
(*                                                                         *)
(* Importing a declaration recurses: a signature or a field demands the     *)
(* classes it names, a class imports its methods, first their signatures    *)
(* and then their bodies, and starts over without the ones that fail.  The  *)
(* recursion is the stack `frames`, innermost first.                        *)
(*                                                                         *)
(* Operations are numbered in the order they enter the module, where they   *)
(* are only ever appended: the number is the position.  Globals, enums,     *)
(* variadic clones, lambdas and the per-function scratch state are left     *)
(* out, and a body names no class its signature does not.                   *)
(***************************************************************************)
EXTENDS Naturals, Sequences, FiniteSets, Functions

CONSTANTS
  Name,              \* functions and methods, by emitted symbol
  Class,             \* classes
  Template,          \* templates, which name a declaration and no operation
  SignatureOf,       \* SignatureOf[f]: the classes the signature of f names, in order
  CallsOf,           \* CallsOf[f]: the functions its body calls, in order
  FieldsOf,          \* FieldsOf[c]: the classes the fields of c name, in order
  MethodsOf,         \* MethodsOf[c]: the methods of c, in order
  Special,           \* the constructors and destructors among them
  Outline,           \* the methods whose body is a declaration of its own
  Programs,          \* the sequences of declarations to import
  PossibleFaults,    \* sets of <<x, part>>: the part of x outside the subset
  PossibleRefusals   \* sets of symbols the search state or a planner rejects

OwnersOf(f) == {c \in Class : f \in Range(MethodsOf[c])}
Methods(c) == Range(MethodsOf[c])

Body == {"prototype", "open", "real", "stub", "struct"}
Part == {"signature", "body", "fields"}

ASSUME RecoveryAssumption ==
  /\ Name \intersect Class = {} /\ Template \intersect (Name \union Class) = {}
  /\ SignatureOf \in [Name -> Seq(Class)] /\ CallsOf \in [Name -> Seq(Name)]
  /\ FieldsOf \in [Class -> Seq(Class)] /\ MethodsOf \in [Class -> Seq(Name)]
  /\ \A f \in Name, c, d \in Class : f \in Methods(c) /\ f \in Methods(d) => c = d

(* A call of a method is a use of an object: its caller names the class.    *)
ASSUME ObjectAssumption ==
  \A f \in Name : \A g \in Range(CallsOf[f]) :
     OwnersOf(g) \subseteq Range(SignatureOf[f]) \union OwnersOf(f)

Declaration ==
  [kind : {"function"}, symbol : Name, names : Seq(Name), defines : BOOLEAN]
    \union [kind : {"functions"}, symbol : Template, names : Seq(Name), defines : {TRUE}]
    \union [kind : {"classes"}, symbol : Template \union Class, names : Seq(Class),
            defines : {TRUE}]

ASSUME ProgramAssumption ==
  /\ Programs \subseteq Seq(Declaration)
  /\ PossibleFaults \subseteq SUBSET ((Name \union Class) \X Part)
  /\ PossibleRefusals \subseteq SUBSET (Name \union Class)

VARIABLES
  program, faults, refused,   \* the input
  module,       \* module[i]: the operation numbered i
  born,         \* operations created so far
  functions,    \* functions[f]: the operation registered for f, 0 when there is none
  imported,     \* importedRecords
  rejected,     \* rejectedRecords
  omitted,      \* the methods a class was imported without
  checkpoint,   \* the active checkpoint, and what the functions were when it was taken
  frames,       \* the imports under way, innermost first
  reply,        \* what the one that just ended answered
  stub,         \* recoveryStubOnly, and recoveryStubSymbol
  ledger,       \* the rejections recorded
  step,         \* where the walk is in the declaration
  item          \* the declaration it is at

input == <<program, faults, refused>>
types == <<imported, rejected, omitted>>
walk == <<step, item>>
vars == <<input, module, born, functions, types, checkpoint, frames, reply, stub, ledger, walk>>

NoStub == [only |-> FALSE, symbol |-> {}]
Declared == program[item]
-----------------------------------------------------------------------------
(* The module body and its symbol table.                                   *)
Op(s, body) == [symbol |-> s, body |-> body, calls |-> {}]

Last(S) == CHOOSE i \in S \union {0} : \A j \in S : j <= i

With(m, op) == [i \in DOMAIN m \union {born + 1} |-> IF i = born + 1 THEN op ELSE m[i]]

(* eraseTopLevelOp: an anchor that is erased moves to the one before.       *)
AnchorWithoutNaive(S) == checkpoint.anchor

AnchorWithout(S) ==
  IF checkpoint.anchor \in S
  THEN Last({i \in DOMAIN module \ S : i < checkpoint.anchor}) ELSE checkpoint.anchor

Table == [f \in Name |-> IF functions[f] = 0 THEN "absent" ELSE module[functions[f]].body]

(* checkpointModule                                                        *)
Mark == [anchor |-> Last(DOMAIN module), clones |-> <<>>, start |-> born, before |-> Table]

(* Whether a prototype predates the item: one that was born inside it is    *)
(* not worth restoring.                                                    *)
PredatesAnything(i) == TRUE
PredatesStrictly(i) == i < checkpoint.anchor

Predates(i) == i <= checkpoint.anchor
-----------------------------------------------------------------------------
Top == Head(frames)
At(unit, phase) == frames # <<>> /\ reply = "none" /\ Top.unit = unit /\ Top.phase = phase
Return(r) == frames' = Tail(frames) /\ reply' = r
Become(frame) == frames' = <<frame>> \o Tail(frames) /\ reply' = "none"
Push(frame) == frames' = <<frame>> \o frames /\ reply' = "none"

Function(f, defines) ==
  [unit |-> "function", of |-> f, phase |-> "signature", left |-> SignatureOf[f],
   defines |-> defines]
Record(c) ==
  [unit |-> "class", of |-> c, phase |-> "fields", left |-> FieldsOf[c], defines |-> TRUE]
Items(d) ==
  [unit |-> d.kind, of |-> d.symbol, phase |-> "items", left |-> d.names, defines |-> TRUE]

(* A method whose class has no name: rejected, or never imported.           *)
Unowned(f) == \E c \in OwnersOf(f) : c \notin imported \/ c \in rejected

Row(s) == [symbol |-> s, stubbed |-> FALSE]
Rows(S) == {Row(s) : s \in S}

Init ==
  /\ program \in Programs /\ faults \in PossibleFaults /\ refused \in PossibleRefusals
  /\ module = <<>> /\ born = 0 /\ functions = [f \in Name |-> 0]
  /\ imported = {} /\ rejected = {} /\ omitted = {}
  /\ checkpoint = Mark /\ frames = <<>> /\ reply = "none" /\ stub = NoStub
  /\ ledger = {} /\ step = "walk" /\ item = 1
-----------------------------------------------------------------------------
(* mapType: a class is imported where it is first named, and a rejected one *)
(* rejects whoever names it.                                               *)
Demand ==
  /\ \/ At("function", "signature") /\ ~Unowned(Top.of)
     \/ At("class", "fields")
     \/ At("classes", "items")
  /\ Top.left # <<>>
  /\ LET c == Head(Top.left) IN
     IF c \in imported
     THEN /\ reply' = IF c \in rejected THEN "failed" ELSE "ok"
          /\ UNCHANGED <<frames, imported>>
     ELSE Push(Record(c)) /\ imported' = imported \union {c}
  /\ UNCHANGED <<input, module, born, functions, rejected, omitted, checkpoint, stub, ledger, walk>>

Advance ==
  /\ reply = "ok" /\ frames # <<>>
  /\ Become([Top EXCEPT !.left = Tail(Top.left)])
  /\ UNCHANGED <<input, module, born, functions, types, checkpoint, stub, ledger, walk>>

(* importFunction fails on its signature: its own, or a class it names.     *)
RejectSignature ==
  /\ frames # <<>> /\ Top.unit = "function" /\ Top.phase = "signature"
  /\ \/ reply = "failed"
     \/ reply = "none" /\ Unowned(Top.of)
     \/ reply = "none" /\ Top.left = <<>> /\ <<Top.of, "signature">> \in faults
  /\ Return("failed")
  /\ UNCHANGED <<input, module, born, functions, types, checkpoint, stub, ledger, walk>>

Signed ==
  /\ At("function", "signature") /\ Top.left = <<>> /\ ~Unowned(Top.of)
  /\ <<Top.of, "signature">> \notin faults

(* The symbol is taken: a redeclaration adds nothing, a second definition   *)
(* is a conflict.                                                          *)
Reconcile ==
  /\ Signed /\ functions[Top.of] # 0
  /\ \/ ~Top.defines /\ Return("ok")
     \/ /\ Top.defines /\ module[functions[Top.of]].body # "prototype"
        /\ Return("failed")
  /\ UNCHANGED <<input, module, born, functions, types, checkpoint, stub, ledger, walk>>

(* The function enters the module, in place of a prototype of it; a retry   *)
(* gives it the stub body, a declaration none.                             *)
Register ==
  /\ Signed
  /\ LET f == Top.of
         old == functions[f]
         body == IF stub.only THEN "stub" ELSE IF Top.defines THEN "open" ELSE "prototype"
     IN /\ old # 0 => Top.defines /\ module[old].body = "prototype"
        /\ module' = Restrict(With(module, Op(f, body)), (DOMAIN module \ {old}) \union {born + 1})
        /\ born' = born + 1
        /\ functions' = [functions EXCEPT ![f] = born + 1]
        /\ checkpoint' = [checkpoint EXCEPT
             !.clones = IF old # 0 /\ Predates(old) THEN Append(@, f) ELSE @,
             !.anchor = AnchorWithout({old} \ {0})]
        /\ stub' = IF stub.only THEN [stub EXCEPT !.symbol = {f}] ELSE stub
        /\ IF body = "open"
           THEN Become([Top EXCEPT !.phase = "body", !.left = CallsOf[f]])
           ELSE Return("ok")
  /\ UNCHANGED <<input, types, ledger, walk>>

(* A call resolves by name, when its caller's body is imported.             *)
Call ==
  /\ At("function", "body") /\ Top.left # <<>>
  /\ LET g == Head(Top.left) IN
     IF functions[g] = 0
     THEN Return("failed") /\ UNCHANGED module
     ELSE /\ module' = [module EXCEPT ![functions[Top.of]].calls = @ \union {g}]
          /\ Become([Top EXCEPT !.left = Tail(Top.left)])
  /\ UNCHANGED <<input, born, functions, types, checkpoint, stub, ledger, walk>>

EndBody ==
  /\ At("function", "body") /\ Top.left = <<>>
  /\ IF <<Top.of, "body">> \in faults
     THEN Return("failed") /\ UNCHANGED module
     ELSE /\ module' = [module EXCEPT ![functions[Top.of]].body = "real"]
          /\ Return("ok")
  /\ UNCHANGED <<input, born, functions, types, checkpoint, stub, ledger, walk>>
-----------------------------------------------------------------------------
(* importRecordUncached and importCXXMethods.                              *)
Define ==
  /\ At("class", "fields") /\ Top.left = <<>> /\ <<Top.of, "fields">> \notin faults
  /\ module' = With(module, Op(Top.of, "struct")) /\ born' = born + 1
  /\ Become([Top EXCEPT !.phase = "signatures", !.left = MethodsOf[Top.of]])
  /\ UNCHANGED <<input, functions, types, checkpoint, stub, ledger, walk>>

ImportMethod ==
  /\ At("class", "signatures") \/ At("class", "bodies")
  /\ Top.left # <<>>
  /\ LET m == Head(Top.left) IN
     IF m \in omitted
     THEN Become([Top EXCEPT !.left = Tail(Top.left)])
     ELSE Push(Function(m, Top.phase = "bodies" /\ m \notin Outline))
  /\ UNCHANGED <<input, module, born, functions, types, checkpoint, stub, ledger, walk>>

EndPass ==
  /\ At("class", "signatures") \/ At("class", "bodies")
  /\ Top.left = <<>>
  /\ IF Top.phase = "signatures"
     THEN Become([Top EXCEPT !.phase = "bodies", !.left = MethodsOf[Top.of]])
     ELSE Return("ok")
  /\ UNCHANGED <<input, module, born, functions, types, checkpoint, stub, ledger, walk>>

(* eraseImportedMethodFuncs: by name, whatever the operation now is.        *)
Registered(S) == {functions[f] : f \in S} \ {0}

EraseOperations(S, others) ==
  /\ module' = Restrict(module, DOMAIN module \ (Registered(S) \union others))
  /\ checkpoint' = [checkpoint EXCEPT !.anchor = AnchorWithout(Registered(S) \union others)]
  /\ UNCHANGED functions

Erase(S, others) ==
  /\ module' = Restrict(module, DOMAIN module \ (Registered(S) \union others))
  /\ functions' = [f \in Name |-> IF f \in S THEN 0 ELSE functions[f]]
  /\ checkpoint' = [checkpoint EXCEPT !.anchor = AnchorWithout(Registered(S) \union others)]

(* FR-112: a method that fails is omitted, and both passes start over from  *)
(* a class without methods.                                                *)
OmitOnce ==
  /\ reply = "failed" /\ frames # <<>> /\ Top.unit = "class"
  /\ Top.phase \in {"signatures", "bodies"} /\ Head(Top.left) \notin Special
  /\ LET m == Head(Top.left)
     IN /\ omitted' = omitted \union {m}
        /\ ledger' = ledger \union {Row(m)}
        /\ Erase({m}, {})
        /\ Become([Top EXCEPT !.left = Tail(Top.left)])
  /\ UNCHANGED <<input, born, imported, rejected, stub, walk>>

Omit ==
  /\ reply = "failed" /\ frames # <<>> /\ Top.unit = "class"
  /\ Top.phase \in {"signatures", "bodies"} /\ Head(Top.left) \notin Special
  /\ LET m == Head(Top.left)
     IN /\ omitted' = omitted \union {m}
        /\ ledger' = ledger \union {Row(m)}
        /\ Erase(Methods(Top.of), {})
        /\ Become([Top EXCEPT !.phase = "signatures", !.left = MethodsOf[Top.of]])
  /\ UNCHANGED <<input, born, imported, rejected, stub, walk>>

(* FR-118: a class that fails leaves no trace but its rejection; a retry    *)
(* does not enter it in the ledger.                                        *)
StructsOf(c) == {i \in DOMAIN module : module[i].symbol = c}

RejectClass ==
  /\ frames # <<>> /\ Top.unit = "class"
  /\ \/ Top.phase = "fields" /\ reply = "failed"
     \/ At("class", "fields") /\ Top.left = <<>> /\ <<Top.of, "fields">> \in faults
     \/ Top.phase \in {"signatures", "bodies"} /\ reply = "failed" /\ Head(Top.left) \in Special
  /\ IF Top.phase = "fields"
     THEN UNCHANGED <<module, functions, checkpoint>>
     ELSE Erase(Methods(Top.of), StructsOf(Top.of))
  /\ rejected' = rejected \union {Top.of}
  /\ ledger' = IF stub.only THEN ledger ELSE ledger \union {Row(Top.of)}
  /\ Return("failed")
  /\ UNCHANGED <<input, born, imported, omitted, stub, walk>>
-----------------------------------------------------------------------------
(* The specializations of a template, one after the other; a class is a     *)
(* list of one.  The first that fails ends the item, and those it never     *)
(* reached are recorded.                                                   *)
ImportSpecialization ==
  /\ At("functions", "items") /\ Top.left # <<>>
  /\ Push(Function(Head(Top.left), TRUE))
  /\ UNCHANGED <<input, module, born, functions, types, checkpoint, stub, ledger, walk>>

EndItems ==
  /\ At("functions", "items") \/ At("classes", "items")
  /\ Top.left = <<>> /\ Return("ok")
  /\ UNCHANGED <<input, module, born, functions, types, checkpoint, stub, ledger, walk>>

RejectItems ==
  /\ reply = "failed" /\ frames # <<>> /\ Top.unit \in {"functions", "classes"}
  /\ ledger' = ledger \union
       Rows(Range(IF Top.unit = "functions" THEN Top.left ELSE Tail(Top.left)))
  /\ Return("failed")
  /\ UNCHANGED <<input, module, born, functions, types, checkpoint, stub, walk>>
-----------------------------------------------------------------------------
(* importTopLevelDeclRecovering.                                           *)
FrameOf(d) == IF d.kind = "function" THEN Function(d.symbol, d.defines) ELSE Items(d)

(* A declaration the search state excludes is rejected unseen.              *)
Begin ==
  /\ step = "walk" /\ item <= Len(program)
  /\ checkpoint' = Mark /\ step' = "import"
  /\ IF Declared.symbol \in refused
     THEN reply' = "failed" /\ UNCHANGED frames
     ELSE Push(FrameOf(Declared))
  /\ UNCHANGED <<input, module, born, functions, types, stub, ledger, item>>

Next1 == step' = "walk" /\ item' = item + 1 /\ reply' = "none"

Accept ==
  /\ step = "import" /\ frames = <<>> /\ reply = "ok"
  /\ Next1
  /\ UNCHANGED <<input, module, born, functions, types, checkpoint, frames, stub, ledger>>

(* rollbackTo: what the item appended goes, the types excepted, and the     *)
(* prototypes it replaced come back at the end of the module.              *)
Remaining == {i \in DOMAIN module : i <= checkpoint.anchor \/ module[i].body = "struct"}
Clones == checkpoint.clones

RollBack ==
  /\ module' = [i \in Remaining \union {born + k : k \in DOMAIN Clones} |->
       IF i <= born THEN module[i] ELSE Op(Clones[i - born], "prototype")]
  /\ born' = born + Len(Clones)
  /\ functions' = [f \in Name |->
       IF f \in Range(Clones)
       THEN born + (CHOOSE k \in DOMAIN Clones : Clones[k] = f)
       ELSE IF functions[f] \in Remaining THEN functions[f] ELSE 0]

(* A function that failed is imported once more, as a stub.                 *)
Reject ==
  /\ step = "import" /\ frames = <<>> /\ reply = "failed"
  /\ RollBack
  /\ IF Declared.kind = "function"
     THEN /\ step' = "undone" /\ reply' = "none"
          /\ UNCHANGED <<ledger, item>>
     ELSE ledger' = ledger \union {Row(Declared.symbol)} /\ Next1
  /\ UNCHANGED <<input, types, checkpoint, frames, stub>>

Retry ==
  /\ step = "undone"
  /\ checkpoint' = Mark /\ step' = "retry"
  /\ stub' = [only |-> TRUE, symbol |-> {}]
  /\ Push(FrameOf(Declared))
  /\ UNCHANGED <<input, module, born, functions, types, ledger, item>>

(* A retry that made no stub, or failed, leaves nothing either.             *)
Stubbed == reply = "ok" /\ stub.symbol # {}

FinishRetryUnrecorded ==
  /\ step = "retry" /\ frames = <<>>
  /\ IF Stubbed
     THEN /\ ledger' = ledger \union {[symbol |-> s, stubbed |-> TRUE] : s \in stub.symbol}
          /\ UNCHANGED <<module, born, functions>>
     ELSE UNCHANGED ledger /\ RollBack
  /\ stub' = NoStub /\ Next1
  /\ UNCHANGED <<input, types, checkpoint, frames>>

FinishRetry ==
  /\ step = "retry" /\ frames = <<>>
  /\ IF Stubbed
     THEN /\ ledger' = ledger \union {[symbol |-> s, stubbed |-> TRUE] : s \in stub.symbol}
          /\ UNCHANGED <<module, born, functions>>
     ELSE ledger' = ledger \union {Row(Declared.symbol)} /\ RollBack
  /\ stub' = NoStub /\ Next1
  /\ UNCHANGED <<input, types, checkpoint, frames>>

(* finalizeProject: a prototype nobody defined is erased when it is unused, *)
(* and fails the import when it is called.                                  *)
Called == UNION {module[i].calls : i \in DOMAIN module}
Unused == {i \in DOMAIN module : module[i].body = "prototype" /\ module[i].symbol \notin Called}

Finalize ==
  /\ step = "walk" /\ item > Len(program)
  /\ step' = IF \E i \in DOMAIN module \ Unused : module[i].body = "prototype"
             THEN "error" ELSE "done"
  /\ module' = Restrict(module, DOMAIN module \ Unused)
  /\ UNCHANGED <<input, born, functions, types, checkpoint, frames, reply, stub, ledger, item>>

Next ==
  \/ Begin \/ Accept \/ Reject \/ Retry \/ FinishRetry \/ Finalize
  \/ Demand \/ Advance \/ RejectSignature \/ Reconcile \/ Register \/ Call \/ EndBody
  \/ Define \/ ImportMethod \/ EndPass \/ Omit \/ RejectClass
  \/ ImportSpecialization \/ EndItems \/ RejectItems

Spec == Init /\ [][Next]_vars /\ WF_vars(Next)
-----------------------------------------------------------------------------
FunctionOps == {i \in DOMAIN module : module[i].body # "struct"}

(* The table `functions` and the module agree at every step of the walk:    *)
(* each entry names a live operation of its symbol and each function is in  *)
(* the table, and between two declarations none is left half imported.      *)
ModuleIsWhole ==
  step \notin {"done", "error"} =>
  /\ \A f \in Name : functions[f] # 0 =>
       functions[f] \in FunctionOps /\ module[functions[f]].symbol = f
  /\ \A i \in FunctionOps :
       /\ functions[module[i].symbol] = i
       /\ step = "walk" => module[i].body # "open"

(* The anchor of a checkpoint is live, whatever the import erases, and what *)
(* follows it is exactly what the import made: a rollback can neither walk  *)
(* off a freed operation nor take one of an earlier declaration.            *)
AnchorSplitsTheModule ==
  step \in {"import", "retry"} =>
    /\ checkpoint.anchor \in DOMAIN module \union {0}
    /\ \A i \in DOMAIN module : i <= checkpoint.anchor <=> i <= checkpoint.start

(* A failed import or retry leaves the functions, with or without a body,   *)
(* exactly as the checkpoint found them.                                   *)
RollbackRestores ==
  [][ (\/ step = "import" /\ step' = "undone"
       \/ step = "import" /\ step' = "walk" /\ reply = "failed"
       \/ step = "retry" /\ step' = "walk" /\ ~Stubbed)
      => Table' = checkpoint.before ]_vars

(* A function in the module calls only what is there, between any two       *)
(* declarations.                                                           *)
Dangles(i, g) == g \in module[i].calls /\ functions[g] \notin DOMAIN module

CallsResolve ==
  step \in {"walk", "done"} => \A i \in DOMAIN module, g \in Name : ~Dangles(i, g)

(* The same, but for a method of one class that calls what another class    *)
(* was imported without.                                                   *)
Lost == omitted \union UNION {Methods(c) : c \in rejected}

OwnCallsResolve ==
  step \in {"walk", "done"} => \A i \in DOMAIN module, g \in Name :
    Dangles(i, g) => /\ g \in Lost /\ OwnersOf(g) # OwnersOf(module[i].symbol)
                     /\ OwnersOf(module[i].symbol) # {}

(* What the project declares and never defines.                             *)
DefinedBy(d) ==
  CASE d.kind = "function" -> IF d.defines THEN {d.symbol} ELSE {}
    [] d.kind = "functions" -> Range(d.names)
    [] d.kind = "classes" -> {}
DefinedInClass == (UNION {Methods(c) : c \in imported}) \ Outline
Undefined == Called \ (DefinedInClass \union UNION {DefinedBy(d) : d \in Range(program)})

(* A definition that is gone with its prototype: neither can be imported    *)
(* again once a class its signature names, or the one it belongs to, is     *)
(* rejected, while a caller that was imported before keeps its call.        *)
Abandoned ==
  {f \in Called : Row(f) \in ledger
                   /\ (Range(SignatureOf[f]) \union OwnersOf(f)) \intersect rejected # {}}

(* The import ends, and with a module, unless a function is called that the *)
(* project nowhere defines, or one whose definition was abandoned: for      *)
(* nothing else finalizeProject fails the whole import.                     *)
Bodiless == {module[i].symbol : i \in {j \in DOMAIN module : module[j].body = "prototype"}}

ImportShips ==
  <>(step = "done" \/ (step = "error" /\ Bodiless \subseteq Undefined \union Abandoned))

(* Every function the project defines outside a class is in the module with *)
(* a body, or the ledger names it or its template.                          *)
InModule(f) == functions[f] \in DOMAIN module /\ module[functions[f]].body \in {"real", "stub"}
LossIsExplained ==
  step = "done" => \A d \in Range(program), f \in Name :
    f \in DefinedBy(d) =>
      InModule(f) \/ Row(f) \in ledger \/ Row(d.symbol) \in ledger
=============================================================================
