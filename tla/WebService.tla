------------------------------ MODULE WebService ------------------------------
(***************************************************************************)
(* The compile endpoint of web/server: POST /api/compile over the result   *)
(* cache, the identity check, the trial meter and the bounded compiler.    *)
(*                                                                         *)
(* The service is one asyncio event loop.  A handler runs without a break  *)
(* up to its only await, in compile_source, and from there to its end, so  *)
(* a request is Arrive, then (Admit if it had to queue) and Finish.        *)
(* The rows and the cache are on disk and survive a restart of the service,*)
(* the requests in flight do not.                                          *)
(***************************************************************************)
EXTENDS TrialMeter, Sequences, FiniteSets

CONSTANTS
  Request,          \* the requests clients send, each once
  Key,              \* what cache_key tells apart: source and options
  User,             \* the accounts
  KeyOf, UserOf,    \* the key of each request, and its sender (or NoUser)
  NoUser,
  Examples,         \* the keys of the prebaked examples
  Oversized,        \* the keys whose source exceeds MAX_SOURCE_BYTES
  MaxConcurrent,    \* MAX_CONCURRENT_COMPILES
  MaxWindows,       \* bound: windows an account goes through
  MaxRestarts       \* bound: restarts of the service

ASSUME ServiceAssumption ==
  /\ IsFiniteSet(Request)
  /\ NoUser \notin User
  /\ KeyOf \in [Request -> Key] /\ UserOf \in [Request -> User \union {NoUser}]
  /\ Examples \subseteq Key /\ Oversized \subseteq Key
  /\ MaxConcurrent \in Nat \ {0} /\ MaxWindows \in Nat /\ MaxRestarts \in Nat

VARIABLES
  up,         \* serving, or still warming the examples up
  cache,      \* the keys with a stored result
  rows,       \* the meter's rows
  slots,      \* the value of the compile semaphore
  queue,      \* the requests waiting for it, first come first served
  status,     \* what became of each request
  paidIn,     \* the window in which a request was charged
  restarts

vars == <<up, cache, rows, slots, queue, status, paidIn, restarts>>

Waiting  == {"queued", "compiling"}
Answers  == {"answered", "cut-off"}       \* cut off: the compiler was killed
Refusals == {"bad-request", "unavailable", "sign-in", "exhausted", "timeout", "failed"}
Status   == {"new", "hit", "lost"} \union Waiting \union Answers \union Refusals

Init ==
  /\ up = FALSE /\ cache = {}
  /\ rows = [u \in User |-> NewRow]
  /\ slots = MaxConcurrent /\ queue = <<>>
  /\ status = [r \in Request |-> "new"]
  /\ paidIn = [r \in Request |-> 0]
  /\ restarts = 0

(* Startup compiles the examples that have no result yet; one that fails   *)
(* or times out stays out of the free lane.                                *)
Warm ==
  /\ ~up
  /\ \E warmed \in SUBSET (Examples \ cache) : cache' = cache \union warmed
  /\ up' = TRUE
  /\ UNCHANGED <<rows, slots, queue, status, paidIn, restarts>>

-----------------------------------------------------------------------------
(* One request.                                                            *)

Reply(r, what) == status' = [status EXCEPT ![r] = what]

(* Served from the cache, or refused before the meter is asked.            *)
Hit(r) ==
  /\ KeyOf[r] \in cache
  /\ Reply(r, "hit")
  /\ UNCHANGED <<rows, slots, queue, paidIn>>

(* auth.verify: no client id or no way to reach the issuer, or no          *)
(* acceptable credential.                                                  *)
NotSignedIn(r) ==
  /\ KeyOf[r] \notin cache
  /\ Reply(r, "unavailable") \/ Reply(r, "sign-in")
  /\ UNCHANGED <<rows, slots, queue, paidIn>>

Exhausted(r) ==
  LET u == UserOf[r]
  IN /\ KeyOf[r] \notin cache /\ u # NoUser
     /\ ~Grants(Refreshed(rows[u]))
     /\ rows' = [rows EXCEPT ![u] = Refreshed(@)]
     /\ Reply(r, "exhausted")
     /\ UNCHANGED <<slots, queue, paidIn>>

(* Charged, and given back at once: compile_source refuses the size before *)
(* it waits for anything.                                                  *)
TooLarge(r) ==
  LET u == UserOf[r]
  IN /\ KeyOf[r] \notin cache /\ u # NoUser /\ KeyOf[r] \in Oversized
     /\ Grants(Refreshed(rows[u]))
     /\ rows' = [rows EXCEPT ![u] = Refunded(Spent(Refreshed(@)))]
     /\ Reply(r, "bad-request")
     /\ UNCHANGED <<slots, queue, paidIn>>

(* Charged, and the compile starts or waits for a slot.                    *)
Charge(r) ==
  LET u == UserOf[r]
  IN /\ KeyOf[r] \notin cache /\ u # NoUser /\ KeyOf[r] \notin Oversized
     /\ Grants(Refreshed(rows[u]))
     /\ rows' = [rows EXCEPT ![u] = Spent(Refreshed(@))]
     /\ paidIn' = [paidIn EXCEPT ![r] = Refreshed(rows[u]).window]
     /\ IF slots > 0 /\ queue = <<>>
        THEN Reply(r, "compiling") /\ slots' = slots - 1 /\ UNCHANGED queue
        ELSE Reply(r, "queued") /\ queue' = Append(queue, r) /\ UNCHANGED slots

(* The options and the empty source are refused first of all.              *)
Arrive(r) ==
  /\ up /\ status[r] = "new"
  /\ \/ Reply(r, "bad-request") /\ UNCHANGED <<rows, slots, queue, paidIn>>
     \/ Hit(r) \/ NotSignedIn(r) \/ Exhausted(r) \/ TooLarge(r) \/ Charge(r)
  /\ UNCHANGED <<up, cache, restarts>>

(* The semaphore wakes the request that has waited longest.                *)
Admit ==
  /\ queue # <<>> /\ slots > 0
  /\ Reply(Head(queue), "compiling")
  /\ queue' = Tail(queue) /\ slots' = slots - 1
  /\ UNCHANGED <<up, cache, rows, paidIn, restarts>>

Compiled(r) ==
  /\ status[r] = "compiling" /\ slots' = slots + 1
  /\ UNCHANGED <<up, queue, paidIn, restarts>>

(* The compiler ended, by itself or by a signal, its CPU and memory limits *)
(* among them: the exit code is not 124, so what it printed is the answer, *)
(* and it is stored when the disk lets it.                                 *)
Answer(r) ==
  /\ Compiled(r)
  /\ \E a \in Answers : Reply(r, a)
  /\ \/ cache' = cache \union {KeyOf[r]}
     \/ UNCHANGED cache
  /\ UNCHANGED rows

(* A mistake: a timeout is stored as the answer.                           *)
TimeoutStored(r) ==
  /\ Compiled(r)
  /\ Reply(r, "timeout")
  /\ rows' = [rows EXCEPT ![UserOf[r]] = Refreshed(Refunded(@))]
  /\ cache' = cache \union {KeyOf[r]}

(* A mistake: a timeout costs a unit.                                      *)
TimeoutCharged(r) ==
  /\ Compiled(r)
  /\ Reply(r, "timeout")
  /\ rows' = [rows EXCEPT ![UserOf[r]] = Refreshed(@)]
  /\ UNCHANGED cache

(* The wall clock ran out: the unit goes back, and the reply reports the   *)
(* allowance anew.                                                         *)
Timeout(r) ==
  /\ Compiled(r)
  /\ Reply(r, "timeout")
  /\ rows' = [rows EXCEPT ![UserOf[r]] = Refreshed(Refunded(@))]
  /\ UNCHANGED cache

(* A mistake: only a compile that returns gives its slot back.             *)
FailKeepingSlot(r) ==
  /\ status[r] = "compiling"
  /\ Reply(r, "failed")
  /\ rows' = [rows EXCEPT ![UserOf[r]] = Refunded(@)]
  /\ UNCHANGED <<up, cache, slots, queue, paidIn, restarts>>

(* Running the compiler failed in the service: the unit goes back.         *)
Fail(r) ==
  /\ Compiled(r)
  /\ Reply(r, "failed")
  /\ rows' = [rows EXCEPT ![UserOf[r]] = Refunded(@)]
  /\ UNCHANGED cache

Finish(r) == Answer(r) \/ Timeout(r) \/ Fail(r)

-----------------------------------------------------------------------------
(* The rest of the world.                                                  *)

(* GET /api/me asks for the allowance without spending any.                *)
Me(u) ==
  /\ up
  /\ rows' = [rows EXCEPT ![u] = Refreshed(@)]
  /\ UNCHANGED <<up, cache, slots, queue, status, paidIn, restarts>>

DayPasses(u) ==
  /\ ~rows[u].expired /\ rows[u].window < MaxWindows
  /\ rows' = [rows EXCEPT ![u].expired = TRUE]
  /\ UNCHANGED <<up, cache, slots, queue, status, paidIn, restarts>>

Restart ==
  /\ restarts < MaxRestarts /\ restarts' = restarts + 1
  /\ up' = FALSE
  /\ status' = [r \in Request |-> IF status[r] \in Waiting THEN "lost" ELSE status[r]]
  /\ queue' = <<>> /\ slots' = MaxConcurrent
  /\ UNCHANGED <<cache, rows, paidIn>>

Next ==
  \/ Warm
  \/ \E r \in Request : Arrive(r) \/ Finish(r)
  \/ Admit
  \/ \E u \in User : Me(u) \/ DayPasses(u)
  \/ Restart

(* The event loop runs what is ready, and every compile ends: it has a     *)
(* timeout of its own.  Clients and the clock owe nothing.                 *)
Fairness ==
  /\ WF_vars(Warm) /\ WF_vars(Admit)
  /\ \A r \in Request : WF_vars(Finish(r))

Spec == Init /\ [][Next]_vars /\ Fairness

-----------------------------------------------------------------------------
(* Properties.                                                             *)

(* Every variable keeps its type; no counter of the meter is negative.     *)
TypeOK ==
  /\ up \in BOOLEAN
  /\ cache \subseteq Key
  /\ rows \in [User -> Row]
  /\ slots \in 0 .. MaxConcurrent
  /\ queue \in Seq(Request)
  /\ status \in [Request -> Status]
  /\ paidIn \in [Request -> Nat]
  /\ restarts \in 0 .. MaxRestarts

(* The compiles an account got or is getting, those a restart cost it, and *)
(* all it was charged for.                                                 *)
Held(u)      == {r \in Request : UserOf[r] = u /\ status[r] \in Waiting \union Answers}
Forfeited(u) == {r \in Request : UserOf[r] = u /\ status[r] = "lost"}
Charged(u)   == Held(u) \union Forfeited(u)

ChargedIn(u, window) == {r \in Charged(u) : paidIn[r] = window}

(* Whatever is refunded, timed out or raced for, the lifetime counter is   *)
(* the number of compiles an account got or is getting and of those that   *)
(* restarts cost it, and it keeps to its ceiling: the clamp of a refund    *)
(* never swallows a unit.                                                  *)
LifetimeIsExact ==
  \A u \in User :
    /\ rows[u].total = Cardinality(Charged(u))
    /\ Lifetime # 0 => rows[u].total <= Lifetime

(* quota.py, refund(): "A user should not lose trial budget because the    *)
(* service timed out or crashed".  Once it serves again, nothing is counted*)
(* but the compiles an account got or is getting.  The code keeps the      *)
(* charge of a request that a restart killed.                              *)
CrashCostsNothing ==
  up => \A u \in User : rows[u].total <= Cardinality(Held(u))

(* An account is never counted as having used more of its day than the     *)
(* units of that day it was charged and not refunded.                      *)
NeverOvercharged ==
  \A u \in User : rows[u].today <= Cardinality(ChargedIn(u, rows[u].window))

(* "Every unit of the allowance is usable": a request is only refused when *)
(* its account holds all the units of the day, or of its lifetime, or lost *)
(* to a restart those it does not hold.                                    *)
EveryUnitUsable ==
  [][\A r \in Request :
       (status[r] = "new" /\ status'[r] = "exhausted") =>
         LET u == UserOf[r]
         IN \/ Cardinality(ChargedIn(u, rows'[u].window)) >= Daily
            \/ Lifetime # 0 /\ Cardinality(Charged(u)) >= Lifetime]_vars

(* The free lane holds the examples and what somebody has paid for.        *)
FreeLaneIsPaidFor ==
  cache \subseteq Examples \union {KeyOf[r] : r \in {q \in Request : status[q] \in Answers}}

(* Whoever was charged gets an answer or the unit back, unless the service *)
(* is restarted.                                                           *)
EveryoneIsServed ==
  \A r \in Request : status[r] \in Waiting ~> status[r] \notin Waiting

=============================================================================
