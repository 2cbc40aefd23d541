--------------------------- MODULE OptimizerHarness ---------------------------
(***************************************************************************)
(* The improvement loop (src/nix/harness): an optimizer edits the emitter   *)
(* in the worktree, then `iterate` gates it, scores it on the two slices of *)
(* the frozen corpus, and commits it or reverts it.                        *)
(*                                                                         *)
(* What is at stake is kept in three copies by git: the worktree, the index *)
(* and the head.  A measurement, a commit or the controller itself may fail *)
(* at any step, and the scratch files of a failed iteration stay for the    *)
(* next one to find.                                                       *)
(***************************************************************************)
EXTENDS Integers, Sequences

CONSTANTS
  Emitter,        \* the versions of lib, tools and include
  First,          \* the one the champion was established on
  Sound,          \* those that build and pass the byte-diff oracle
  Golden,         \* Golden[e]: the goldens the emissions of e match
  Allow,          \* Allow[e]: the allow-attributes e emits
  Warnings,       \* Warnings[e]: its clippy warnings on each slice
  MaxIterations   \* bound on the iterations

ASSUME HarnessAssumption ==
  /\ First \in Sound /\ Sound \subseteq Emitter
  /\ Warnings \in [Emitter -> [train : Nat, held : Nat]]
  /\ MaxIterations \in Nat

VARIABLES
  work,        \* the worktree: sources, goldens, pinned corpus, champion, baseline, ledger
  index,       \* what is staged
  head,        \* what is committed
  phase,       \* the step iterate is at, or how the last one ended
  report,      \* the slice reports on disk
  candidate,   \* .candidate.json
  log,         \* the accepted commits
  iterations

scratch == <<report, candidate>>
harnessVars == <<work, index, head, phase, scratch, log, iterations>>

NoReport == -1
Slices == {"train", "held"}
NoReports == [s \in Slices |-> NoReport]

Total(e) == Warnings[e].train + Warnings[e].held

AtRest == phase \in {"idle", "failed", "killed", "accepted"}

(* After freeze, split and establish: everything committed, the champion    *)
(* measured on the sources at hand.                                        *)
HarnessInit ==
  /\ head = [src |-> First, tests |-> Golden[First], intact |-> TRUE,
             champ |-> [train |-> Warnings[First].train, held |-> Warnings[First].held,
                        allow |-> Allow[First]],
             base |-> Total(First), ledger |-> <<>>]
  /\ work = head /\ index = head
  /\ phase = "idle" /\ report = NoReports /\ candidate = NoReports
  /\ log = <<>> /\ iterations = 0

-----------------------------------------------------------------------------
(* git checkout -- lib tools include takes the sources from the index; the  *)
(* goldens stay as the optimizer left them.                                *)
Revert ==
  /\ work' = [work EXCEPT !.src = index.src]
  /\ report' = NoReports /\ candidate' = NoReports

(* A SystemExit, or a return that is not followed by a revert.              *)
Raise ==
  /\ phase' = "failed" /\ UNCHANGED <<work, index, report, candidate>>

(* The optimizer edits the sources and, in the same change, the goldens it  *)
(* shifts, or forgets them; the corpus is made of tests too, and the edit   *)
(* may touch a pinned one or put it back.  Then it hands over to iterate.   *)
Optimize ==
  /\ AtRest /\ iterations < MaxIterations
  /\ \E e \in Emitter, tests \in {work.tests} \union {Golden[x] : x \in Emitter},
        intact \in BOOLEAN :
       work' = [work EXCEPT !.src = e, !.tests = tests, !.intact = intact]
  /\ phase' = "gate" /\ iterations' = iterations + 1
  /\ UNCHANGED <<index, head, scratch, log>>

(* A revert by hand, after an iteration that ended without one.             *)
RevertByHand ==
  /\ phase \in {"failed", "killed"} /\ Revert /\ phase' = "idle"
  /\ UNCHANGED <<index, head, log, iterations>>

-----------------------------------------------------------------------------
(* The build and the oracle pass, nothing unsafe is emitted (part of Sound) *)
(* and no allow-attribute beyond the champion's.                           *)
Passes(tree) ==
  /\ tree.src \in Sound /\ tree.tests = Golden[tree.src]
  /\ Allow[tree.src] \subseteq tree.champ.allow

Gate ==
  /\ phase = "gate"
  /\ IF Passes(work)
     THEN phase' = "train" /\ UNCHANGED <<work, report, candidate>>
     ELSE phase' = "failed" /\ Revert
  /\ UNCHANGED <<index, head, log, iterations>>

(* One slice.  A closed or drifted epoch, and a measurement that fails, end *)
(* the controller.  But a run that ends with code 1, a traceback's, passes  *)
(* for a measurement if a report is there: the one an earlier score left.   *)
Measure(s, next) ==
  /\ phase = s
  /\ \/ /\ work.intact /\ phase' = next
        /\ \/ report' = [report EXCEPT ![s] = Warnings[work.src][s]]
           \/ report[s] # NoReport /\ UNCHANGED report
        /\ UNCHANGED <<work, index, candidate>>
     \/ Raise
  /\ UNCHANGED <<head, log, iterations>>

TrainFell(c, champ) == c.train < champ.train

(* The train slice must improve and the held-out slice not regress.         *)
Worthy(c, champ) == c.train < champ.train /\ c.held <= champ.held

(* The candidate is persisted before the verdict on it.                     *)
Verdict ==
  /\ phase = "verdict"
  /\ IF Worthy(report, work.champ)
     THEN phase' = "update" /\ candidate' = report /\ UNCHANGED <<work, report>>
     ELSE phase' = "failed" /\ Revert
  /\ UNCHANGED <<index, head, log, iterations>>

-----------------------------------------------------------------------------
(* accept, step by step.  The baseline is measured anew over the whole      *)
(* corpus.                                                                 *)
Update ==
  /\ phase = "update"
  /\ \/ /\ work' = [work EXCEPT !.base = Total(work.src)] /\ phase' = "advance"
        /\ UNCHANGED <<index, report, candidate>>
     \/ Raise
  /\ UNCHANGED <<head, log, iterations>>

Advance ==
  /\ phase = "advance"
  /\ work' = [work EXCEPT !.champ = [train |-> candidate.train, held |-> candidate.held,
                                     allow |-> Allow[work.src]]]
  /\ phase' = "stage"
  /\ UNCHANGED <<index, head, scratch, log, iterations>>

WithoutTests ==
  /\ phase = "stage"
  /\ index' = [work EXCEPT !.ledger = index.ledger, !.tests = index.tests]
  /\ phase' = "commit"
  /\ UNCHANGED <<work, head, scratch, log, iterations>>

(* git add: the emitter, the goldens and the two baselines.                 *)
Stage ==
  /\ phase = "stage"
  /\ index' = [work EXCEPT !.ledger = index.ledger]
  /\ phase' = "commit"
  /\ UNCHANGED <<work, head, scratch, log, iterations>>

(* The commit may fail; everything stays staged, and nothing is reverted.   *)
Commit ==
  /\ phase = "commit"
  /\ \/ /\ head' = index /\ phase' = "ledger"
        /\ log' = Append(log, [src |-> index.src, champ |-> index.champ, base |-> index.base])
        /\ UNCHANGED <<work, index, report, candidate>>
     \/ Raise /\ UNCHANGED <<head, log>>
  /\ UNCHANGED iterations

(* git rev-parse HEAD, after the commit.                                   *)
Revision == Len(log)

LedgerAppend ==
  /\ phase = "ledger"
  /\ \/ /\ work' = [work EXCEPT !.ledger = Append(@,
                  [rev |-> Revision, total |-> work.base,
                   train |-> candidate.train, held |-> candidate.held])]
        /\ phase' = "follow" /\ UNCHANGED <<index, report, candidate>>
     \/ ~work.intact /\ Raise
  /\ UNCHANGED <<head, log, iterations>>

(* The ledger's own commit; whether it succeeds is not looked at.           *)
Follow ==
  /\ phase = "follow"
  /\ index' = [index EXCEPT !.ledger = work.ledger]
  /\ head' \in {head, index'}
  /\ phase' = "accepted"
  /\ UNCHANGED <<work, scratch, log, iterations>>

(* The controller is killed.                                               *)
Kill ==
  /\ ~AtRest /\ phase' = "killed"
  /\ UNCHANGED <<work, index, head, scratch, log, iterations>>

HarnessNext ==
  \/ Optimize \/ RevertByHand
  \/ Gate \/ Measure("train", "held") \/ Measure("held", "verdict") \/ Verdict
  \/ Update \/ Advance \/ Stage \/ Commit \/ LedgerAppend \/ Follow \/ Kill

HarnessSpec == HarnessInit /\ [][HarnessNext]_harnessVars

-----------------------------------------------------------------------------
(* The loop never ships red: what is committed builds, passes the oracle    *)
(* with the goldens committed with it, and emits no suppression the first   *)
(* champion did not, whatever failed iterations left behind in the worktree *)
(* or the index.                                                           *)
NeverShipsRed ==
  /\ head.src \in Sound /\ head.tests = Golden[head.src]
  /\ Allow[head.src] \subseteq Allow[First]

(* Ratchets never regress: a commit that changes the committed champion     *)
(* lowers its train slice, and raises neither its held-out slice nor its    *)
(* set of suppressions.                                                    *)
RatchetNeverRegresses ==
  [][head'.champ # head.champ =>
       /\ head'.champ.train < head.champ.train /\ head'.champ.held <= head.champ.held
       /\ head'.champ.allow \subseteq head.champ.allow]_harnessVars

(* controller.py, _measure_slice(), of any exit code but 0: "Anything else, *)
(* or a missing report, is a real failure".  So the numbers committed with *)
(* a revision of the emitter were measured on that revision.  The code     *)
(* accepts code 1, and commits what an earlier score had measured.         *)
NumbersAreMeasured ==
  \A i \in DOMAIN log :
    /\ log[i].champ.train = Warnings[log[i].src].train
    /\ log[i].champ.held = Warnings[log[i].src].held
    /\ log[i].base = Total(log[i].src)

=============================================================================
