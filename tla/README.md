# A verification project for EmitRust

EmitRust translates C and C++ projects into safe Rust. Most of it is a compiler: rewrite
rules over syntax trees, each with its own tests. Around the compiler sit pieces with real
behaviour: analyses that must reach a fixpoint, a search that must keep a promise, an import
that rolls back what it cannot do, a linker that renames in place, planners that condense
graphs, a runtime of threads that must look like a sequential program, a compiler shim and an
improvement loop that may die between any two writes, a web service that counts money-like
units. This project models those in TLA+, checks them with TLC and proves what matters most
with TLAPS. Every definition is read off the source; `PROJECT.json` names the lines ("map"),
the runs, the mutants that show each property can fail, the hazards and the theorems.

## 1. The system

### Parts that are modelled

| part | source | its state | operations | modules |
|---|---|---|---|---|
| Item coloring (FR-41) | `lib/Project/ItemColoring.cpp` | verdict per item, the sets Red and unsignable, a rank per Red item, colors and blame chains | probe each declaration, build, color fixpoint, rank fixpoint, blame | `PoisonRules`, `ItemColoring`, `ColoringPromise` |
| Frontier search (FR-43, FR-50) | `lib/Project/FrontierSearch.cpp` | the probed nodes, the frontier, the memo table, the best node, the baseline | probe a state, try a repair, stop | `SearchScore`, `FrontierSearch`, `SearchPromise` |
| Recovering import | `lib/ImportC/ImportCRecovery.cpp` and the walks it wraps | the module body, the function table, the memoized classes, the checkpoint, the ledger, the stack of imports under way | import a declaration, demand a class, import a method, omit it, reject, roll back, retry as a stub, finalize | `ImportRecovery` |
| Link step (FR-58) | `tools/emitrust-cc/LinkMerge.cpp`, `emitrust-cc.cpp` | the shards, names and uses of their symbols, module names, the merged items, the obligations | join and re-import, rename tags, name modules, deduplicate and sink, discharge, reshape calls, walk the fence | `LinkTags`, `LinkNames`, `LinkShards`, `LinkMerge` |
| Workspace partition (FR-59) | `tools/emitrust-cc/Partition.cpp` | a union-find over the directories of the units | forced condensation, condensation of cycles and of what references the binary | `LinkUnits`, `Partition` |
| Actor plan and certification (FR-62) | `tools/emitrust-cc/ActorPlan.cpp`, `ActorLiftPlan.cpp`, `emitrust-cc.cpp` | a union-find over the globals, the poison | clusters, pins, pointer pairs, call cycles, writers, demotion | `ActorPlan`, `Workspace` |
| Actor runtime (FR-62) and buffered stdout | the text written by `lib/Target/Rust/TranslateToRust.cpp`, `lib/ImportC/ImportCFunctions.cpp` and `tools/emitrust-cc/CrateEmitter.cpp`, placed by `lib/Conversion/ActorThread` | one mailbox, reply channel and thread per actor, the driver, the stdout buffer and its mutex | spawn, call, serve, reply, panic, reap, shutdown, write, flush | `StdoutStream`, `ActorRuntime`, `CProgram` |
| Compiler shim | `tools/emitrust-clang/emitrust-clang.cpp` | source, object, sidecar and stage file of each job; the parent and its child | delegate, fork, scan, import, open, write, embed, rename, crash | `CompilerShim` |
| Optimizer harness | `nix/harness/controller.py` | worktree, index and head; reports and candidate in the scratch directory | edit, gate, measure, verdict, update, advance, stage, commit, append, revert, kill | `OptimizerHarness` |
| Web service | `web/server/*.py` | result cache, one meter row per account, the compile semaphore, requests in flight | arrive (hit, refuse, charge), admit, answer, time out, fail, warm up, restart | `TrialMeter`, `WebService` |

How they interact. `emitrust-cc` builds the item graph of a project, colors it, and under
`--search` hands the graph, the coloring's seeds and a probe function (one *recovering import*)
to the frontier search, which derives each state by the coloring's own poison rules:
`FrontierSearch` EXTENDS `PoisonRules` as `ItemColoring` does. In a build, the *compiler shim* stands in
for clang and leaves one artifact per object; `emitrust-cc --link` reads them back as shards, in
link order: `LinkMerge` EXTENDS the renaming of tags, the naming of modules and the re-import,
as `mergeLinkShards` calls them. With `--partition` two planners read the item graphs of the same
shards and `Workspace` composes them as `emitPartitionedWorkspace` does: what an actor may be is
decided by the one, where it would live by the other. A program with lifted actors, in a threaded
mode, is what `ActorRuntime` runs. The *harness* runs the compiler over a corpus and the *web
service* runs it as a subprocess; both see of it an exit code, a time and a report.

### Parts that are not modelled

`PROJECT.json` lists every component with its reason. In short:

* **importer, conversion passes, dialect, emitter, actor lift, bidirectional exchange**, which are
  most of the lines: case analysis over syntax trees; no protocol, and their correctness is the
  meaning of C, which a model of this size would have to restate. The little of the importer that
  keeps state across declarations is in `ImportRecovery`, the runtime text of the emitter in
  `ActorRuntime`;
* **item graph, section tables, differential checks, porting report, developer tools**: pure
  functions or command line wrappers;
* **range inference, ratchet, conformance ledgers**: pure, but with laws worth checking (section 6);
* **driver and crate writer**: option handling and file output around the parts above.

### What makes each modelled part correct

* *Coloring.* The answer is the least fixpoint of the poison rules whatever the order of edges,
  nodes and translation units; what is not Red compiles; every blame chain ends at an item that
  was really rejected, also inside a cycle of Red items.
* *Search.* Nothing is imported twice; the unrestricted import is always measured and never
  beaten by the answer; the memo table loses nothing; every repair gives something up.
* *Recovery.* The table and the module agree at every step; a rollback restores exactly what was
  there; nothing is lost without a row in the ledger; the import ends with a module, or fails for a
  reason the ledger or the project itself explains.
* *Link.* No reference changes what it means: none is captured by a rename, none reaches another
  unit's static or another record of the same name, none passes one element where more are read.
* *Partition and plan.* Cargo accepts the workspace and, where no two statics share a spelling, it is
  as fine as that allows; one owner for all a function writes or takes the address of, itself or
  through calls; what is lifted into the binary is out of every library's reach.
* *Actors.* The threads are a sequential program to every observer; a panic is the program's own;
  nobody waits for ever; what is on the file at any moment is what C would have put there.
* *Shim.* The object's code is the compiler's, whatever the emission does; its section is never
  older than its code; no half-written sidecar is left behind.
* *Harness.* What is committed passes the oracle with the goldens committed with it; the committed
  champion never gets worse on the held-out slice and gets better on the train slice. (That its numbers
  were measured on what it commits is claimed and does not hold: section 5.)
* *Web service.* The lifetime counter is the number of requests charged and not refunded, whatever
  else is refunded, timed out or restarted; no unit that is left is refused; only paid-for results
  are in the free lane.

## 2. Modules

| module | models | notes |
|---|---|---|
| `PoisonRules` | edge kinds, which carry poison, when a stub replaces a Red callee, the reason of a Red item | shared by coloring and search |
| `ColoringPromise` | abstract: decide the least fixpoint once, never revise | refined by `ItemColoring` |
| `ItemColoring` | `AdmissibilityProbe` (its findings are inputs) and `ColoringSolver` | one action per visit of an edge or an item; the order of visits is open, so the code's sorted order is one of the behaviours checked |
| `SearchScore` | `SearchScore::isBetterThan` | |
| `SearchPromise` | abstract: try ports once each, answer one that no tried port beats | refined by `FrontierSearch` |
| `FrontierSearch` | `frontierSearch` from the root to the trace | one action per probe and per repair; the probe answers anything in `Outcomes` |
| `ImportRecovery` | `importTopLevelDeclRecovering`, `rollbackTo`, `importFunction`, `importRecord`, `importCXXMethods`, `finalizeProject` | the recursion of the importer is the stack `frames`; operations are numbered as they enter the module, so a number is a position |
| `LinkTags` | `renameShardTags` | symbol uses follow each rename, texts follow once at the end |
| `LinkNames` | `computeShardModuleNames` | one action per member of a round |
| `LinkShards` | what a shard holds, `reimportFactStarvedGroups` | `importCProject` on the members' texts is one step: it fails, also wherever the members conflict, or it joins them and the recovering import drops any of their external definitions |
| `LinkMerge` | `mergeLinkShards` from the shards to one module | composes the three above |
| `LinkUnits` | the item graph texts both planners read | one spelling may be several items: a unit's statics |
| `Partition` | `planPartition` | a seed is its first unit, and `crateOf` maps units to roots; a forced pair is united by `CondensePair`, in any order |
| `ActorPlan` | `buildAccessIndex` and `planActors` | an actor is its name; the order of visits is open; `ClosureOf`, the fixpoint loop's result, is the least closed set |
| `Workspace` | `liftPartitionBinActors` and rules 0, 1, 1b, 2 of `attachActorLiftAttributes` | composes the two planners |
| `StdoutStream` | `__emitrust_out_write` and `__emitrust_out_flush`, and glibc's `_IO_new_file_xsputn` beside them | bytes leave in order, so a stream is two counters |
| `CProgram` | abstract: a sequential program with C's stdout | refined by `ActorRuntime` |
| `ActorRuntime` | `mod actor_rt`, spawn and mailbox loop, the placement of calls and shutdowns, the panic hook, the main wrapper | a panic is several steps (hook, unwind, drop, die) because what the others see changes between them |
| `CompilerShim` | `main`, `runIsolatedSideEmit`, `sideEmitArtifact`, `embedArtifactSection` | one action per file operation; edits and interrupts anywhere; specification `ShimSpec` |
| `OptimizerHarness` | `cmd_iterate` and the commands it calls | one action per measurement and per write; an exception and a kill at each; specification `HarnessSpec` |
| `TrialMeter` | `TrialStore`: spend, refund, the daily window | pure operators on a row, because every store operation runs under its lock |
| `WebService` | `compile_endpoint`, `me`, the semaphore, the cache, startup and restart | the event loop switches only at the handler's one await, so a request is Arrive, perhaps Admit, and Finish |
| `MC*` | the instances TLC runs | |
| `ItemColoringProofs`, `FrontierSearchProofs`, `ImportRecoveryProofs`, `ActorRuntimeProofs`, `WebServiceProofs` | the theorems about the component of the name | |
| `LinkProofs` | the theorems about `LinkTags`, `LinkNames` and their composition with the rest in `LinkMerge` | |
| `WorkspaceProofs` | the theorems about `Partition`, `ActorPlan` and `Workspace` | |
| `ToolProofs` | the theorems about `CompilerShim` and `OptimizerHarness` | |

Correspondence details a reader of the code may ask for:

* The coloring's `UINT_MAX` sentinel is `NoRank`, and `rank + 1` is guarded as in the code.
  `AddressesAreReads` and `BasesScreened` state what the item graph and the probe guarantee of their
  output; a graph that breaks them is not an input of the solver.
* The search's two guards "already dropped on this path" and "empty" are modelled and never
  fire: `RepairsGiveUpItems` is the reason, proved for every graph. The constant `repCost` of a
  score is left out (it is zero in every call), and the signature of a state, a string used only
  to order and to memoize, is a fixed total order on sets.
* A rejection inside the importer is a member of `faults` (an item and the part of it that
  fails), a declaration the planners rule out is a member of `refused`.
* A shard's item names by index what it calls; `use` is what the reference says at the moment, and
  `bound` what it meant when the shard was loaded. Functions have one pointer parameter.
* A static's spelling is the same in every unit's text (`tu0_name`: each object was compiled
  alone). `Partition` reads the spellings as `planPartition` does; `ActorPlan` retags them by the
  unit's position as `buildAccessIndex` does; the properties are stated over `Definer`, the item
  the linked program really uses.
* A restart of the web service keeps the charge of a request that got no answer, as the code
  does. `Charged` counts such a request, because the counter does; `Held` does not, and
  `CrashCostsNothing` compares the counter with it.
* `JointImport` merges the members of a group as one translation of all their texts would: one item
  per external name, the definition if there is one, calls shaped for it. Members that conflict (two
  definitions of one function, incompatible declarations, records of one name and different shape)
  are taken as an import that fails, where the recovering import would drop or stub what conflicts.
* The async actor flavor follows the protocol of the threaded one (unbounded send, immediate
  await), so one model stands for both. stdout is modelled as a file or a pipe, the mode in which
  it is buffered; on a terminal every write goes straight through.

## 3. Runs

All bounds are constants of the configurations; a run that "passes" explores its instance
completely.

| run | instance | distinct states | shows |
|---|---|---|---|
| `coloring` | every subset of the edges of a call cycle, a record, a global and its reader, every subset of the findings | 85 048 | least fixpoint, compilable output, blame chains, refinement |
| `search` | a main, a function it calls over a record, an undefined function each, every coloring of two items, several outcomes per probe, 4 probes | 9 364 | baseline, repairs, memo table, refinement |
| `recovery` | eight programs over three classes, a function with its prototype and caller, two specializations; every pair of 18 faults; five refusals | 372 261 | table, anchor, rollback, calls within a class, ledger, an end with a module or with a failure that is explained |
| `workspace` | every subset of eleven groups of references between a main and two units, three layouts, with and without pins | 330 928 | a workspace cargo accepts and, where statics are spelled apart, as fine as can be, one owner per writer, no needless merge, a lift nobody else needs |
| `build_and_run` | *shim*: two jobs, two invocations, one edit each, a failure or crash at every step. *link*: link lines of up to three objects out of four families (calls, records, statics, starving pairs), and of four in two groups. *crate*: every program of up to 3 statements over a driver and two actors, prints of 1 or 3 bytes through a 2-byte block, exit, abort and panic anywhere, the reader leaving at any moment | 218 853 | code, section, sidecar; no capture, statics and modules apart, record mentions, call shapes, no lost definition; own panic, one message in flight, C's output, an end |
| `services` | *web*: 4 requests (a source twice, one too large, an example), two days, one slot, one restart. *harness*: three iterations over six emitters (overfit, silenced, refused, better, best), a failure or kill at every step | 247 683 | exact counters, no wrongly refused unit, the free lane, service; green commits, the ratchet |
| `actors_hang_doc` | one actor, the reader leaves | | a failed write panics with the stdout mutex held, its panic hook takes the same mutex: a hang |
| `link_fence_doc` | as the link of `build_and_run` | | the fence does not see a forward by `&p[0]` |
| `recovery_fixpoint_doc` | as `recovery` | | a class imported between two passes keeps a call of an omitted method |
| `web_crash_doc` | as the web half of `services` | | a restart keeps the charge of a request without an answer |
| `harness_misread_doc` | as the harness half of `services` | | the report of a killed or failed iteration is read and committed as the numbers of a later candidate |
| `partition_statics_doc` | as `workspace` | | two units whose statics share a spelling are condensed though nothing crosses |

`services` and `build_and_run` put systems that share no state side by side: a variable of the MC
module says which of them runs, in every behaviour the others stay at their initial state, and the
states of the run are the sum of theirs (shim 131 801, link 17 465, crate 69 587; web 191 174,
harness 56 509), not a product. The fairness is that of the web service
and of the threads; where another system runs it is not met, so the liveness properties are checked
of their own system's behaviours alone, and the safety properties of all.

Why the bounds are enough. The coloring's rules look at one edge at a time, so a handful of items
hold every pattern that matters: a cycle, something outside it, something it depends on, and a stub
boundary; the graphs are all subsets of the edges. The search needs two repairs of one failure, a
repair of a repair and a repair that coincides with another. Recovery needs a class demanded by a
signature, by a method and in a cycle, a prototype before and after its caller, siblings of which
one fails, and two faults at once: the first failure inside what another failure is about to undo.
The third class is needed for a definition that is abandoned: a class that survives must have been
the first to name the one that is rejected (section 5). A link line of three has a first definition,
a later one and a third that sits between; two groups of two are the least in which one can fail and
the other not. Three units hold a cycle, a path into a cycle, a crate that comes to reference the
binary only because another was condensed into it, and two statics of one spelling; eleven groups of
references give every combination of them. An actor program of three statements holds a statement
before, at and after a panic on any combination of threads; a block of two bytes with writes of one
and three reaches every case of the fill rule. Two invocations of the shim hold every trace the
first can leave for the second, and an edit between any two reads. Three iterations of the harness
hold a failed one between two good ones. The meter's interesting cases need a charge in one window
and its end in the next, and two requests racing for the last unit. `CHECK_DEADLOCK FALSE` stands
where a program ends.

### Mutants

Each property of a passing run has a mutant of a mapped definition, kept beside it in the module
under a comment that begins "A mistake": a missing second pass, a merged verdict that keeps the
last tag, a rename in the wrong order, a search path condensed for its cycle, an address that is
no write, an operation erased and left in the table, a loss that is not recorded, a stage file
found from an earlier crash, a call that does not wait for its reply, a join before the drop of the Sender.
TLC finds the property violated by it under the same configuration.

### Fairness

* Web service: weak fairness of Warm, Admit and of the end of each compile. The event loop runs
  what is ready, and a compile has its own wall clock timeout. Clients, the clock and restarts
  owe nothing.
* Actors: weak fairness of each thread's steps, the operating system's scheduling. Nothing is
  assumed of the reader of stdout; `RunsLikeC` and `ProgramEnds` promise something only as long
  as it stays, and `actors_hang_doc` shows why.
* Recovery: `WF_vars(Next)`, one process that runs on. Which item fails is part of the input.
* Everything else is checked for safety and states no fairness.

## 4. Proofs

The theorems hold for every choice of the constants that satisfies the named assumptions of
the modules, which state the shape of the input and no more. TLC found out first whether each
invariant holds; none of the properties is inductive alone. Every property of the passing runs is
stated by a theorem, the three about liveness excepted.

*Coloring.* `ColorInv` has four parts: the types of the sets, that the verdicts merged so far are
those of the declarations seen (`Merged`), that Red and unsignable lie between the seeds and every
closed set (`Between`), and that a pass which has changed nothing yet has found the edges behind it
satisfied (`PassInv`). `LeastFixpoint` says nothing before the fixpoint is reached, hence the last
two. `RankInv` adds that a rank is founded (a seed, or one more than a neighbor's) and earned. From
these: `TypeCorrect`, `FixpointIsLeast`, `EmittedCompiles`, `ImplementsPromise` (refinement of
`ColoringPromise`), `BlameAlwaysFindsANeighbor`. `ChainInv` describes the chains of the items already
published: a chain ends at its own root, has one link more than its item's rank and loses a rank
per link along a hard edge. A rank is finite and earned, so the walk cannot go round a cycle of
Red items; from it `ChainsReachTheirRoot`.

*Search.* `IInv` conjoins that probed, queued and known states are distinct and on record
(`Distinct`), the special cases of the first two probes (`AtTheRoot`, `AtTheBaseline`,
`BaselineOnRecord`, `OneBaseline`), that every state is the coloring of its drops (`Colored`) and the
bound (`Bounded`). The delicate step is `BaselineComesFirst`: after the root's probe the frontier
holds the baseline and the root's repairs, and the order puts the baseline first whatever the
probe said. `DropsShrink`, `DropsAreOut` and `OnlyTheStateMatters` are lemmas about the coloring
operator. From these: `SearchTypeCorrect`, `SearchProbesOnce`, `SearchProbesBaseline`,
`SearchKeepsFirstBest`, `SearchNeverWorse` (for every `MaxNodes`, the ones below two included: the
budget's floor is part of the model), `SearchGivesUpItems`, `SearchMemoIsSound`, and
`SearchKeepsPromise` (refinement of `SearchPromise`).

*Recovery.* `RecoveryInv` has seven parts. `RecoveryTypes`. `StackInv`: which imports can be under way
inside which, and that an answer is for the innermost. `TableInv`: an entry of the table and an
operation name each other. `OwnersInv`: a method that is registered, or whose prototype a
checkpoint has cloned, belongs to a class that is memoized, and the methods of a class under
way are younger than the checkpoint; without it the erasure of a class could reach behind the
anchor. `AnchorInv`: the anchor is live and splits the module by age. `OpenInv`: at most the function
being imported, or the one that has just failed, lacks its end. `BeforeInv`: what a function was
when the checkpoint was taken can be read off the clones and what is left of the module, which
is what `RollbackRestores` compares. A property such as `AnchorSplitsTheModule` needs all of them,
because what is erased depends on the table, the stack and the clones. From these:
`RecoveryInvariant`, `ModuleStaysWhole`, `AnchorStaysLive`, `RollbackIsExact`, for any declarations,
faults, refusals and depth of nesting.

Two more invariants rest on it. `ItemInv` follows the declaration under way, which is always the
bottom of the stack: a template's specializations that it is past are *settled* (in the module
with a body, and not among what is still being imported), and an item that is accepted has its body.
`LossInv` is what becomes of earlier declarations: each definition is *safe* or in the ledger,
where safe, during an import, means that the checkpoint saw it with a body. From the two
`LossStaysExplained`, and `FailureIsExplained` for an import that fails as a whole. `CalleesInv` says
of every call without a callee that it goes from a method of one class to a method another class has
lost or, being under import, will bring back (`CallsInv`), that the methods a class is past are
registered or omitted (`PassInv`), and that what a rollback would take with it is lost already
(`KeptInv`): without the last a rollback could leave calls of what it takes. From it
`OwnCallsStayResolved`, the part of the comment's claim that holds.

*Link.* `TagInv` says that the renames of a shard go from the highest ordinal down (`Descending`),
that what is settled has its final name (`NamesSettle`) and that uses follow, texts one shard late
(`UsesSettle`); with the two checks of the ordinal maps no new name is ever one still carried. From
it `NoCapture` and `StaticsApart`, of `LinkTags` alone and for any number of shards. `NamingInv`
says that who is out of the pool has the name of its position or a candidate it alone took
(`NamedApart`), and that nobody still to be visited in a round has moved (`RungsExist`). From it
`OneModulePerShard`.

`LinkInv` is about the composition. `GroupInv`: the groups are the classes of a relation, and a joint
import that is kept defines what its members defined. `UnitsInv`: the units the later steps read are as
well formed as the objects were and define no less. `PhaseInv`: which steps are over in which
phase; with it `TagInv` and `NamingInv` are invariants of the whole link. `MergeInv`: every item visited
so far is among the definitions or replaced by one of its name, kind and type, no two definitions
share a name unless one has sunk, and no record sinks that another unit can name. `ShapesInv`
and `ResolveInv`: a call has the shape its unit knew, or the slice its definition takes, and a
declaration behind the cursor has met its definition. From them `LinkInvariant`, `LinkNoCapture`,
`LinkStaticsApart`, `LinkModulesApart`, `LinkedMentionsKeepTheirShape`, `LinkedCallsFit`,
`LinkedDefinitionsSurvive`. They assume of a link line what the importer and its naming give
(`LinesAssumption`: an item's references stay in its unit, names are unique in a unit, `SpelledApart`: a
name is a function's in every unit or in none), that `tu<n>` names differ and are names
(`OrdinalNames`), and that the empty name is no module's (`RootIsNoModule`).

*Partition.* `PartitionInv`: every crate is named by a unit that is its own root, the forced pairs
looked at are together, and a plan is reached only without cycles and without a crate that
references the binary. That no cycle is found means that every set of crates has one without an edge
into the set (`Acyclic`): from a set without such a crate one could walk on for ever, and the
longest simple path must close. From it `PartitionBuilds`. `FinenessInv`: every grouping of the
directories that would build, and keeps the forced pairs, keeps together whatever the crates keep
together. Its step is that a cycle of crates, mapped into such a grouping, is a cycle again unless
all of it is one group. Where no two statics share a spelling (`StaticsSpelledApart`) the planner
reads the references the linked program makes, and `PartitionIsFinest` follows, over these; with
`CoarseInv` (the crates are themselves such a grouping) `PartitionIsDetermined` follows without that
condition, over the references as the planner reads them: the plan is the one finest workspace cargo
accepts, in whatever order pairs are forced and cycles found.

*Actor plan.* `ActorInv`: each rule has put together what it has visited, and a later rule does not
take it apart. From it `PlanKeepsWriters`. `AgreeInv` looks at it from the other side: a set of
globals that no tie tears (a cluster, a pin, a pointer pair, the footprint of a call cycle, the
stores of a function) is torn by no actor. From it `PlanIsFinest`; with `SeededInv`, which adds what
the clusters and the pins tie, `PlanIsDetermined`: two globals have one owner exactly when the ties
join them, whatever the order of the visits. `NameAssumption` keeps the names of actors apart from
the keys of globals and `RankAssumption` gives both a place in the order of strings.

*Lift.* `LiftInv`: what is lifted is reached by nobody outside the binary's crate, from the rule that
certifies it on. From it `LiftsStayHome`, for any plan the two planners can make together.

*Actors.* `IInv` says that the threads run in turn. `Handshake`: what an actor may be at follows from
what the driver is at, and while it serves, the reply channel of the driver's statement tells how
far it has come (open, sent, closed). `Provenance`: a panic in the hook is the last statement's own
or a failed write's, which holds the mutex and never gets past; once one is past the hook it is
the only one reported. `Count`: the statements that have run are those the driver is past.
`PanicIsTheProgramsOwn`, say, speaks of the last moment only, and needs to know that nobody else
could panic meanwhile. The invariant also shows that four branches of the runtime never run in a
program the pass emits: a call to an actor that is gone, a reap that finds no payload, a reply
nobody receives, a late panic at the shutdown. From it: `TypeCorrect`, `MessagesInFlight`,
`PanicProvenance` and `ActorsImplementC`, the refinement of `CProgram` for any
number of actors, any program and any buffer size, provided every print prints something
(`PrintsSomething`): an empty first write allocates the buffer here and not in glibc, so what is
on the file may differ from C's at an abort. As in `CProgram`, nothing is promised once the reader of
stdout is gone.

*Shim.* `ShimInv` adds to the types that the emission under way is of an import later than the
compile and that what it staged is of that import (`EmissionFollows`), that no object is newer than
its source, and that at most the sidecar being written is a half (`OneHalf`). From it
`ShimInvariant`, `NoOldSection`, `NoHalfSidecar`, `CodeStaysTheCompilers`, for any jobs, edits and
invocations.

*Harness.* `HarnessInv` follows what was gated from the gate to the commit: from there on the worktree
is sound and its goldens are its own (`Gated`), the index at the commit is the worktree, and the
champion in the worktree is at least as good as the committed one (`Ahead`), which survives a
failed accept. From it `CommitsAreGreen` and `RatchetHolds`.

*Web service.* `WebInv` relates the counters to sets of requests: only requests of a signed-in
account are ever charged (`SignedIn`), each waiting request is in the queue once (`QueueOK`), the
free slots and the compiles under way make up the semaphore (`SlotsOK`), and of every account the
lifetime counter is the number of requests charged and not refunded while the daily one is at most
the number of them charged in its window (`MeterOK`). The counters are cardinalities, so each step
of a request adds or removes one element of exactly one of the sets. From it `WebInvariant`,
`LifetimeStaysExact`, `NobodyOvercharged`, `FreeLaneStaysPaidFor` and the action property
`RefusalsAreDeserved`, for any number of requests, accounts, slots, days and restarts.

## 5. What is not proved, and not modelled

*Model-checked only.* Liveness: `EveryoneIsServed`, `ProgramEnds`, `ImportShips`; the prover does
not reason about fairness. For the safety half of the last, `FailureIsExplained` covers the
functions defined outside a class. `OneElementIsEnough`, `CallsResolve`, `ActorPanicEnds`,
`CrashCostsNothing`, `NumbersAreMeasured` and `StaticsFaceNoBoundary` are the claims of the six
findings, which do not hold.

*Left out of the models.*
Coloring: the screens over syntax trees that decide what is inadmissible (inputs here).
Search: report texts, the constant cost.
Recovery: globals, enums, variadic clones, lambdas, operators, friends, the planners' rebuilt plans,
classes first demanded inside a body, duplicates of a class across units, name collisions.
Link: archives, the encoding of the metadata, the artifact queries, several pointer parameters. The
joint import is one step that fails or joins, with any of the external definitions lost; how the
importer gets there is in `ImportRecovery` for one unit and not modelled for several, nor is what it
stubs when members conflict.
Partition and plan: crate names, notes and Cargo files, re-import groups of several texts, overrides
of the seeds, the rules of the certification that look at the imported module, static cells, library
export, unreadable graphs. A store is what the graph records of one: a global the function writes by
name or whose address it takes. A store through a pointer handed to it is charged to who took the
address, as in the code.
Actors: the eligibility rules of the actor-thread pass and its synthesized accessors (they decide
which programs become threaded, not how these run), messages' arguments and results, stdout on a
terminal. A partial write is not told from a failed one.
Shim: the classification of the command line, the cc1 key (logged and read by nobody), a child that
outlives a killed shim.
Harness: `iterate --no-build` and `--no-oracle` (`controller.py:228`, `:247` calls the second "NOT
gate-valid", and iterate commits all the same: `NeverShipsRed` is about iterations with the full
gate), score and accept called by hand, several epochs, a second establish, collect and freeze.
Web service: option parsing, health, static pages, the contents of a reply.

### Disagreements and observations

Six runs end in a violation, with a finding each (`actors_hang_doc`, `link_fence_doc`,
`recovery_fixpoint_doc`, `web_crash_doc`, `harness_misread_doc`, `partition_statics_doc`). The
following were met while modelling and have no run of their own:

* *Coloring.* Green is documented as a clean closure (`ItemColoring.h:27`), the code says less; a record
  whose single base is admitted as a field can be Red through its `Base` edge (`ItemColoring.h:116`
  calls such edges vacuous).
* *Search.* Which repairs are tried depends on the symbol an undefined reference names also when
  the project defines it (`FrontierSearch.h:169`); an item the coloring ruled out is traced as
  "dropped" when a class-complete repair names it again (`FrontierSearch.h:238` says "red").
* *Recovery.* A failing template specialization rolls back its earlier siblings without a row of
  their own; a class pulled in by an item that is rejected keeps its memo and loses its methods,
  without a row; a global's tentative definition is erased before its upgrade is validated
  (`ImportCGlobals.cpp:834`); an excluded function with a prototype is ledgered as dropped though
  its stub exists (`ImportC.h:64`); a class first demanded inside a stub retry gets stub methods
  its own import then collides with. A class is memoized before its fields are imported
  (`ImportCAggregates.cpp:206`), so while class c is being imported a class d that a field of c names
  may get methods whose signatures name c. When c is then rejected inside a declaration that is
  accepted all the same (a third class, which omits the method that named c), d stays with the
  prototype of such a method; a function can call it; its out-of-line definition and the
  definition's stub are rejected because they name c; and `finalizeProject` fails
  the whole import with "referenced but not defined in any translation unit" (`ImportC.cpp:7963`),
  though the project defines it. `ImportShips` names this case (`Abandoned`) and the run reaches it.
* *Link.* With `--preserve-c-names` the struct of one unit and a declared function of another may have one
  spelling; an obligation is discharged by any definition of its name (`LinkMerge.cpp:1303`). The theorems
  assume the default naming, which spells types and functions apart.
* *Partition.* Crate names are made distinct by a
  count of the name asked for, so `util`, `util` and `util_2` give `util_2` twice. A C++ method is no
  node of the graph, so its calls give no dependency.
* *Actor plan.* An actor is marked as poisoned only by the poisoned function that merges two of its
  parts, so whether an actor of everything is certified depends on the order of the names. Nothing
  stops `--actor-map` from naming an actor like a global or `@stdout`, which the union-find would take
  for one and the same; `NameAssumption` excludes it.
* *Shim.* An emission that fails without dying prints "no artifact written" and leaves the sidecar of
  the previous compile, which the link falls back to (`emitrust-clang.cpp:688`); when fork fails
  the importer runs in the shim itself (`:682`).
* *Harness.* A score that raises and a failed accept are not reverted (`controller.py:433`; `LOOP.md:27`
  says any failure is); a revert leaves the goldens (`:407`); the emitter revision of a
  re-accepted champion is never refreshed (`:354`).
* *Web service.* A compile killed by its CPU limit is stored as a durable result (`main.py:214`); a refund
  that lands after the daily refill gives one unit too many (`quota.py:162`).

## 6. Plan

1. The rules of the certification that look at the imported module, and the lift itself, in
   `Workspace`: the composition of the two planners with what they leave in the binary.
2. `Ratchet` and the conformance ledgers as operators against references, with the harness, which
   consults the same laws.
3. `RangeInference`: the interval transfer functions over small widths against the concrete
   operations.
4. Globals and enums in `ImportRecovery`: the tentative definition and its upgrade.
5. Theorems beyond the properties of the runs: `FailureIsExplained` for the inline methods of a class, and
   that what is abandoned has a row of its own.

## 7. Running

    tlc -config Workspace.cfg MCWorkspace
    tlapm ImportRecoveryProofs.tla

The runs take from a second to two minutes, the proofs from half a minute to several (`LinkProofs`: seven)
per module.
