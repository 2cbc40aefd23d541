--------------------------- MODULE WebServiceProofs ---------------------------
(***************************************************************************)
(* What the web service keeps for any number of requests, accounts and      *)
(* slots, any ceilings and any number of restarts: the types, the meter's   *)
(* two counters against the units that were really charged, the free lane,  *)
(* and that a refusal is never early.                                      *)
(*                                                                         *)
(* The counters are related to sets of requests, so the inductive invariant*)
(* says which requests may be charged (those of a signed-in account), that  *)
(* the semaphore counts the compiles under way, and that the queue holds    *)
(* each waiting request once.                                              *)
(***************************************************************************)
EXTENDS WebService, FiniteSetTheorems, TLAPS

(* The states in which a request has cost its account a unit.              *)
ChargedStatus == Waiting \union Answers \union {"lost"}

SignedIn == \A r \in Request : status[r] \in ChargedStatus => UserOf[r] \in User

QueueOK ==
  /\ \A i \in 1 .. Len(queue) : status[queue[i]] = "queued"
  /\ \A i, j \in 1 .. Len(queue) : queue[i] = queue[j] => i = j

Compiling == {r \in Request : status[r] = "compiling"}

SlotsOK == slots + Cardinality(Compiling) = MaxConcurrent

MeterOK(u) ==
  /\ rows[u].total = Cardinality(Charged(u))
  /\ Lifetime # 0 => rows[u].total <= Lifetime
  /\ rows[u].today <= Cardinality(ChargedIn(u, rows[u].window))

WebInv == TypeOK /\ SignedIn /\ QueueOK /\ SlotsOK /\ \A u \in User : MeterOK(u)

-----------------------------------------------------------------------------
(* The sets that are counted.                                              *)

LEMMA ChargedCount ==
  ASSUME NEW u, NEW w
  PROVE  /\ IsFiniteSet(Charged(u)) /\ Cardinality(Charged(u)) \in Nat
         /\ IsFiniteSet(ChargedIn(u, w)) /\ Cardinality(ChargedIn(u, w)) \in Nat
         /\ IsFiniteSet(Compiling) /\ Cardinality(Compiling) \in Nat
<1>1. IsFiniteSet(Request)
  BY ServiceAssumption
<1>2. Charged(u) \in SUBSET Request /\ ChargedIn(u, w) \in SUBSET Request /\ Compiling \in SUBSET Request
  BY DEF Charged, Held, Forfeited, ChargedIn, Compiling
<1>3. QED
  BY <1>1, <1>2, FS_Subset, FS_CardinalityType

(* The rows.                                                               *)
LEMMA RowOperations ==
  ASSUME NEW row \in Row
  PROVE  /\ Refreshed(row) \in Row /\ Refreshed(row).total = row.total
         /\ \/ Refreshed(row).today = row.today /\ Refreshed(row).window = row.window
            \/ Refreshed(row).today = 0
         /\ Spent(row) \in Row /\ Spent(row).window = row.window
         /\ Spent(row).today = row.today + 1 /\ Spent(row).total = row.total + 1
         /\ Refunded(row) \in Row /\ Refunded(row).window = row.window
         /\ Refunded(row).today = (IF row.today = 0 THEN 0 ELSE row.today - 1)
         /\ Refunded(row).total = (IF row.total = 0 THEN 0 ELSE row.total - 1)
         /\ Refunded(Spent(row)) = row
<1>1. row.today \in Nat /\ row.total \in Nat /\ row.window \in Nat /\ row.expired \in BOOLEAN
  BY DEF Row
<1>2. \A t, n \in Nat : [row EXCEPT !.today = t, !.total = n] \in Row
  BY DEF Row
<1>3. Refreshed(row) \in Row
  <2>1. \A w \in Nat : [row EXCEPT !.today = 0, !.window = w, !.expired = FALSE] \in Row
    BY DEF Row
  <2>2. row.window + 1 \in Nat
    BY <1>1
  <2>3. QED
    BY <2>1, <2>2 DEF Refreshed
<1>4. /\ Refreshed(row).total = row.total
      /\ \/ Refreshed(row).today = row.today /\ Refreshed(row).window = row.window
         \/ Refreshed(row).today = 0
  BY DEF Row, Refreshed
<1>5. Spent(row) \in Row
  <2>1. row.today + 1 \in Nat /\ row.total + 1 \in Nat
    BY <1>1
  <2>2. QED
    BY <1>2, <2>1 DEF Spent
<1>6. /\ Spent(row).window = row.window /\ Spent(row).expired = row.expired
      /\ Spent(row).today = row.today + 1 /\ Spent(row).total = row.total + 1
  BY DEF Row, Spent
<1>7. \A s \in Row : /\ Refunded(s).window = s.window /\ Refunded(s).expired = s.expired
                     /\ Refunded(s).today = (IF s.today = 0 THEN 0 ELSE s.today - 1)
                     /\ Refunded(s).total = (IF s.total = 0 THEN 0 ELSE s.total - 1)
  BY DEF Row, Refunded
<1>8. \A s \in Row : Refunded(s) \in Row
  <2> SUFFICES ASSUME NEW s \in Row PROVE Refunded(s) \in Row
    OBVIOUS
  <2>1. \A t, n \in Nat : [s EXCEPT !.today = t, !.total = n] \in Row
    BY DEF Row
  <2>2. s.today \in Nat /\ s.total \in Nat
    BY DEF Row
  <2>3. (IF s.today = 0 THEN 0 ELSE s.today - 1) \in Nat /\ (IF s.total = 0 THEN 0 ELSE s.total - 1) \in Nat
    BY <2>2
  <2>4. QED
    BY <2>1, <2>3 DEF Refunded
<1>9. Refunded(Spent(row)) = row
  <2>1. \A r, s \in Row :
          r.today = s.today /\ r.total = s.total /\ r.window = s.window /\ r.expired = s.expired => r = s
    BY DEF Row
  <2>2. (row.today + 1) - 1 = row.today /\ (row.total + 1) - 1 = row.total
        /\ row.today + 1 # 0 /\ row.total + 1 # 0
    BY <1>1
  <2>3. Refunded(Spent(row)) \in Row
    BY <1>5, <1>8
  <2>4. Refunded(Spent(row)).today = row.today /\ Refunded(Spent(row)).total = row.total
    BY <1>5, <1>6, <1>7, <2>2
  <2>5. Refunded(Spent(row)).window = row.window /\ Refunded(Spent(row)).expired = row.expired
    BY <1>5, <1>6, <1>7
  <2>6. QED
    BY <2>1, <2>3, <2>4, <2>5
<1>10. QED
  BY <1>3, <1>4, <1>5, <1>6, <1>7, <1>8, <1>9

(* A reply to a request moves no other.                                    *)
LEMMA ReplyMoves ==
  ASSUME TypeOK, NEW r \in Request, NEW what \in Status, Reply(r, what)
  PROVE  /\ status' \in [Request -> Status] /\ status'[r] = what
         /\ \A q \in Request : q # r => status'[q] = status[q]
BY DEF TypeOK, Reply

-----------------------------------------------------------------------------
(* The meter.                                                              *)

(* Nobody gains or loses a unit and the day's count is kept or reset.      *)
LEMMA MeterKept ==
  ASSUME NEW u \in User, MeterOK(u),
         \A r \in Request : status'[r] \in ChargedStatus <=> status[r] \in ChargedStatus,
         \A r \in Request : status[r] \in ChargedStatus => paidIn'[r] = paidIn[r],
         rows'[u].total = rows[u].total,
         \/ rows'[u].today = rows[u].today /\ rows'[u].window = rows[u].window
         \/ rows'[u].today = 0
  PROVE  MeterOK(u)'
<1> DEFINE now  == {r \in Charged(u)' : paidIn'[r] = rows'[u].window}
<1>1. Charged(u)' = Charged(u)
  BY DEF Charged, Held, Forfeited, ChargedStatus
<1>2. CASE rows'[u].today = rows[u].today /\ rows'[u].window = rows[u].window
  <2>1. ChargedIn(u, rows[u].window)' = ChargedIn(u, rows[u].window)
    BY <1>1, <1>2 DEF ChargedIn, Charged, Held, Forfeited, ChargedStatus
  <2>2. QED
    BY <1>1, <1>2, <2>1 DEF MeterOK
<1>3. CASE rows'[u].today = 0
  <2>1. IsFiniteSet(now) /\ Cardinality(now) \in Nat
    <3>1. now \in SUBSET Request
      BY DEF Charged, Held, Forfeited
    <3>2. QED
      BY <3>1, ServiceAssumption, FS_Subset, FS_CardinalityType
  <2>2. ChargedIn(u, rows[u].window)' = now
    BY DEF ChargedIn
  <2>3. QED
    BY <1>1, <1>3, <2>1, <2>2 DEF MeterOK
<1>4. QED
  BY <1>2, <1>3

(* A granted unit is one more of the account's, paid for in this window.   *)
LEMMA MeterCharges ==
  ASSUME TypeOK, NEW u \in User, MeterOK(u), NEW r \in Request, UserOf[r] = u,
         status[r] = "new", status'[r] \in ChargedStatus,
         \A q \in Request : q # r => status'[q] = status[q],
         paidIn' = [paidIn EXCEPT ![r] = Refreshed(rows[u]).window],
         Grants(Refreshed(rows[u])),
         rows'[u] = Spent(Refreshed(rows[u]))
  PROVE  MeterOK(u)'
<1> DEFINE row == Refreshed(rows[u])
<1> DEFINE was == {q \in Charged(u) : paidIn[q] = row.window}
<1> DEFINE now == {q \in Charged(u)' : paidIn'[q] = rows'[u].window}
<1>1. rows[u] \in Row /\ paidIn \in [Request -> Nat]
  BY DEF TypeOK
<1>2. /\ row \in Row /\ row.total = rows[u].total
      /\ (row.today = rows[u].today /\ row.window = rows[u].window) \/ row.today = 0
      /\ rows'[u].window = row.window
      /\ rows'[u].today = row.today + 1 /\ rows'[u].total = row.total + 1
  BY <1>1, RowOperations
<1> HIDE DEF row
<1>3. r \notin Charged(u) /\ Charged(u)' = Charged(u) \union {r}
  BY DEF Charged, Held, Forfeited, ChargedStatus, Waiting, Answers
<1>4. paidIn'[r] = row.window /\ \A q \in Request : q # r => paidIn'[q] = paidIn[q]
  BY <1>1 DEF row
<1>5. now = was \union {r} /\ r \notin was
  BY <1>2, <1>3, <1>4 DEF Charged, Held, Forfeited
<1>6. /\ IsFiniteSet(Charged(u)) /\ Cardinality(Charged(u)) \in Nat
      /\ IsFiniteSet(was) /\ Cardinality(was) \in Nat
  <2>1. was = ChargedIn(u, row.window)
    BY DEF ChargedIn
  <2>2. IsFiniteSet(ChargedIn(u, row.window)) /\ Cardinality(ChargedIn(u, row.window)) \in Nat
    BY ChargedCount
  <2>3. QED
    BY <2>1, <2>2, ChargedCount
<1>7. Cardinality(Charged(u)') = Cardinality(Charged(u)) + 1 /\ Cardinality(now) = Cardinality(was) + 1
  BY <1>3, <1>5, <1>6, FS_AddElement
<1>8. row.today <= Cardinality(was)
  <2>1. CASE row.today = rows[u].today /\ row.window = rows[u].window
    BY <2>1 DEF MeterOK, ChargedIn
  <2>2. CASE row.today = 0
    BY <1>6, <2>2
  <2>3. QED
    BY <1>2, <2>1, <2>2
<1>9. /\ rows'[u].total = Cardinality(Charged(u)')
      /\ rows'[u].today <= Cardinality(now)
  <2>1. row.today \in Nat /\ row.total \in Nat
    BY <1>2 DEF Row
  <2>2. QED
    BY <1>2, <1>6, <1>7, <1>8, <2>1 DEF MeterOK
<1>10. Lifetime # 0 => rows'[u].total <= Lifetime
  <2>1. Lifetime # 0 => row.total < Lifetime
    BY DEF Grants, Allowed, row
  <2>2. row.total \in Nat /\ Lifetime \in Nat
    BY <1>2, CeilingAssumption DEF Row
  <2>3. QED
    BY <1>2, <2>1, <2>2
<1>11. ChargedIn(u, rows[u].window)' = now
  BY DEF ChargedIn
<1>12. QED
  BY <1>9, <1>10, <1>11 DEF MeterOK

(* A refund takes back a charged unit: the clamp at zero is not met,        *)
(* and a unit of an earlier window is not taken from today's twice.        *)
LEMMA MeterRefunds ==
  ASSUME TypeOK, NEW u \in User, MeterOK(u), NEW r \in Request, UserOf[r] = u,
         status[r] = "compiling", status'[r] \notin ChargedStatus,
         \A q \in Request : q # r => status'[q] = status[q],
         paidIn' = paidIn,
         NEW row \in Row, row = Refunded(rows[u]),
         rows'[u] = row \/ rows'[u] = Refreshed(row)
  PROVE  MeterOK(u)'
<1> DEFINE w   == rows[u].window
<1> DEFINE was == {q \in Charged(u) : paidIn[q] = w}
<1> DEFINE now == {q \in Charged(u)' : paidIn'[q] = rows'[u].window}
<1>1. rows[u] \in Row
  BY DEF TypeOK
<1>2. /\ rows[u].total \in Nat /\ rows[u].today \in Nat
      /\ row.window = w
      /\ row.today = (IF rows[u].today = 0 THEN 0 ELSE rows[u].today - 1)
      /\ row.total = (IF rows[u].total = 0 THEN 0 ELSE rows[u].total - 1)
      /\ rows'[u].total = row.total
      /\ (rows'[u].today = row.today /\ rows'[u].window = row.window) \/ rows'[u].today = 0
  <2>1. rows[u].total \in Nat /\ rows[u].today \in Nat
    BY <1>1 DEF Row
  <2>2. QED
    BY <1>1, <2>1, RowOperations
<1>3. r \in Charged(u) /\ Charged(u)' = Charged(u) \ {r}
  BY DEF Charged, Held, Forfeited, ChargedStatus, Waiting, Answers
<1>4. /\ IsFiniteSet(Charged(u)) /\ Cardinality(Charged(u)) \in Nat
      /\ IsFiniteSet(was) /\ Cardinality(was) \in Nat
  <2>1. was = ChargedIn(u, w)
    BY DEF ChargedIn
  <2>2. QED
    BY <2>1, ChargedCount
<1>5. Cardinality(Charged(u)') = Cardinality(Charged(u)) - 1
  BY <1>3, <1>4, FS_RemoveElement
<1>6. IsFiniteSet(Charged(u)') /\ Cardinality(Charged(u)') \in Nat
  BY <1>3, <1>4, FS_RemoveElement, FS_CardinalityType
<1>7. rows'[u].total = Cardinality(Charged(u)')
  BY <1>2, <1>4, <1>5, <1>6 DEF MeterOK
<1>8. rows'[u].today <= Cardinality(now)
  <2>1. now \in SUBSET Charged(u)'
    OBVIOUS
  <2>2. IsFiniteSet(now) /\ Cardinality(now) \in Nat
    BY <1>6, <2>1, FS_Subset, FS_CardinalityType
  <2>3. CASE rows'[u].today = 0
    BY <2>2, <2>3
  <2>4. CASE rows'[u].today = row.today /\ rows'[u].window = row.window
    <3>1. now = was \ {r}
      BY <1>2, <1>3, <2>4
    <3>2. Cardinality(now) >= Cardinality(was) - 1
      <4>1. Cardinality(was \ {r}) = IF r \in was THEN Cardinality(was) - 1 ELSE Cardinality(was)
        BY <1>4, FS_RemoveElement
      <4> HIDE DEF was, now
      <4>2. QED
        BY <1>4, <3>1, <4>1
    <3>3. rows[u].today <= Cardinality(was)
      BY DEF MeterOK, ChargedIn
    <3>4. QED
      BY <1>2, <1>4, <2>2, <2>4, <3>2, <3>3
  <2>5. QED
    BY <1>2, <2>3, <2>4
<1>9. Lifetime # 0 => rows'[u].total <= Lifetime
  BY <1>2, CeilingAssumption DEF MeterOK
<1>10. ChargedIn(u, rows[u].window)' = now
  BY DEF ChargedIn
<1>11. QED
  BY <1>7, <1>8, <1>9, <1>10 DEF MeterOK

-----------------------------------------------------------------------------
(* The steps.                                                              *)

LEMMA InitWeb == Init => WebInv
<1> SUFFICES ASSUME Init PROVE WebInv
  OBVIOUS
<1> USE ServiceAssumption, CeilingAssumption
<1>1. NewRow \in Row /\ NewRow.today = 0 /\ NewRow.total = 0
  BY DEF NewRow, Row
<1>2. TypeOK
  <2>1. "new" \in Status /\ 0 \in Nat /\ 0 \in 0 .. MaxRestarts /\ MaxConcurrent \in 0 .. MaxConcurrent
    BY DEF Status
  <2>2. <<>> \in Seq(Request)
    OBVIOUS
  <2>3. QED
    BY <1>1, <2>1, <2>2 DEF Init, TypeOK
<1>3. SignedIn /\ QueueOK
  BY DEF Init, SignedIn, QueueOK, ChargedStatus, Waiting, Answers
<1>4. SlotsOK
  <2>1. Compiling = {}
    BY DEF Init, Compiling
  <2>2. QED
    BY <2>1, FS_EmptySet DEF Init, SlotsOK
<1>5. ASSUME NEW u \in User PROVE MeterOK(u)
  <2>1. Charged(u) = {} /\ ChargedIn(u, rows[u].window) = {}
    BY DEF Init, Charged, Held, Forfeited, ChargedIn, Waiting, Answers
  <2>2. rows[u].total = 0 /\ rows[u].today = 0
    BY <1>1 DEF Init
  <2>3. QED
    BY <2>1, <2>2, FS_EmptySet DEF MeterOK
<1>6. QED
  BY <1>2, <1>3, <1>4, <1>5 DEF WebInv

(* A step that moves no request, no slot and no place in the queue.        *)
LEMMA QuietStep ==
  ASSUME WebInv, UNCHANGED <<slots, queue, status, paidIn>>,
         up' \in BOOLEAN, cache' \subseteq Key, restarts' \in 0 .. MaxRestarts,
         rows' \in [User -> Row],
         \A u \in User :
           /\ rows'[u].total = rows[u].total
           /\ \/ rows'[u].today = rows[u].today /\ rows'[u].window = rows[u].window
              \/ rows'[u].today = 0
  PROVE  WebInv'
<1>1. TypeOK'
  BY DEF WebInv, TypeOK
<1>2. SignedIn' /\ QueueOK' /\ SlotsOK'
  BY DEF WebInv, SignedIn, QueueOK, SlotsOK, Compiling
<1>3. ASSUME NEW u \in User PROVE MeterOK(u)'
  BY MeterKept DEF WebInv
<1>4. QED
  BY <1>1, <1>2, <1>3 DEF WebInv

(* A reply at the end of a request that never waited.                      *)
LEMMA QuietReply ==
  ASSUME WebInv, NEW r \in Request, status[r] = "new",
         NEW what \in {"hit"} \union Refusals, Reply(r, what),
         UNCHANGED <<up, cache, slots, queue, paidIn, restarts>>,
         rows' \in [User -> Row],
         \A u \in User :
           /\ rows'[u].total = rows[u].total
           /\ \/ rows'[u].today = rows[u].today /\ rows'[u].window = rows[u].window
              \/ rows'[u].today = 0
  PROVE  WebInv'
<1> USE DEF WebInv
<1>1. what \in Status /\ what \notin ChargedStatus
  BY DEF Status, Refusals, ChargedStatus, Waiting, Answers
<1>2. /\ status' \in [Request -> Status] /\ status'[r] = what
      /\ \A q \in Request : q # r => status'[q] = status[q]
  BY <1>1, ReplyMoves
<1>3. TypeOK'
  BY <1>2 DEF TypeOK
<1>4. \A q \in Request : status'[q] \in ChargedStatus <=> status[q] \in ChargedStatus
  BY <1>1, <1>2 DEF ChargedStatus, Waiting, Answers
<1>5. SignedIn'
  BY <1>4 DEF SignedIn
<1>6. QueueOK'
  <2>1. \A i \in 1 .. Len(queue) : queue[i] \in Request /\ queue[i] # r
    BY DEF TypeOK, QueueOK
  <2>2. QED
    BY <1>2, <2>1 DEF QueueOK
<1>7. SlotsOK'
  <2>1. Compiling' = Compiling
    BY <1>1, <1>2 DEF Compiling, ChargedStatus, Waiting
  <2>2. QED
    BY <2>1 DEF SlotsOK
<1>8. ASSUME NEW u \in User PROVE MeterOK(u)'
  BY <1>4, MeterKept
<1>9. QED
  BY <1>3, <1>5, <1>6, <1>7, <1>8

(* A row refreshed keeps what MeterKept asks of it.                        *)
LEMMA RefreshKeeps ==
  ASSUME TypeOK, NEW u, u \in User, NEW v \in User,
         rows' = [rows EXCEPT ![u] = Refreshed(@)]
  PROVE  /\ rows' \in [User -> Row]
         /\ rows'[v].total = rows[v].total
         /\ \/ rows'[v].today = rows[v].today /\ rows'[v].window = rows[v].window
            \/ rows'[v].today = 0
<1>1. rows[u] \in Row
  BY DEF TypeOK
<1>2. QED
  BY <1>1, RowOperations DEF TypeOK

LEMMA UserSignedIn ==
  ASSUME NEW r \in Request, UserOf[r] # NoUser
  PROVE  UserOf[r] \in User
BY ServiceAssumption

LEMMA ChargeKeeps ==
  ASSUME WebInv, NEW r \in Request, status[r] = "new", Charge(r),
         UNCHANGED <<up, cache, restarts>>
  PROVE  WebInv'
<1> USE DEF WebInv
<1> DEFINE u == UserOf[r]
<1>1. u \in User
  BY UserSignedIn DEF Charge
<1>2. rows[u] \in Row
  BY <1>1 DEF TypeOK
<1>3. /\ rows' \in [User -> Row]
      /\ rows'[u] = Spent(Refreshed(rows[u]))
      /\ \A v \in User : v # u => rows'[v] = rows[v]
  <2>1. Spent(Refreshed(rows[u])) \in Row
    BY <1>2, RowOperations
  <2>2. rows' = [rows EXCEPT ![u] = Spent(Refreshed(rows[u]))]
    BY DEF Charge
  <2>3. QED
    BY <1>1, <2>1, <2>2 DEF TypeOK
<1>4. PICK what \in Waiting : Reply(r, what)
  BY DEF Charge, Waiting
<1>5. /\ status' \in [Request -> Status] /\ status'[r] = what
      /\ \A q \in Request : q # r => status'[q] = status[q]
  BY <1>4, ReplyMoves DEF Status
<1>6. /\ paidIn' \in [Request -> Nat]
      /\ paidIn' = [paidIn EXCEPT ![r] = Refreshed(rows[u]).window]
      /\ \A q \in Request : q # r => paidIn'[q] = paidIn[q]
  <2>1. Refreshed(rows[u]).window \in Nat
    BY <1>2, RowOperations DEF Row
  <2>2. QED
    BY <2>1 DEF Charge, TypeOK
<1>7. SignedIn'
  BY <1>1, <1>5 DEF SignedIn
<1>8. ASSUME NEW v \in User PROVE MeterOK(v)'
  <2>1. CASE v = u
    <3>1. Grants(Refreshed(rows[u])) /\ status'[r] \in ChargedStatus
      BY <1>4, <1>5 DEF Charge, ChargedStatus
    <3>2. QED
      BY <1>1, <1>3, <1>5, <1>6, <2>1, <3>1, MeterCharges
  <2>2. CASE v # u
    <3>1. Charged(v)' = Charged(v) /\ r \notin Charged(v)
      BY <1>5, <2>2 DEF Charged, Held, Forfeited
    <3>2. rows'[v] = rows[v]
      BY <1>3, <2>2
    <3>3. ChargedIn(v, rows[v].window)' = ChargedIn(v, rows[v].window)
      BY <1>6, <3>1, <3>2 DEF ChargedIn, Charged, Held, Forfeited
    <3>4. QED
      BY <3>1, <3>2, <3>3 DEF MeterOK
  <2>3. QED
    BY <2>1, <2>2
<1>9. CASE slots > 0 /\ queue = <<>>
  <2>1. Reply(r, "compiling") /\ slots' = slots - 1 /\ UNCHANGED queue
    BY <1>9 DEF Charge
  <2>2. status'[r] = "compiling"
    BY <2>1 DEF Reply, TypeOK
  <2>3. Compiling' = Compiling \union {r} /\ r \notin Compiling
    BY <1>5, <2>2 DEF Compiling
  <2>4. SlotsOK'
    <3>1. Cardinality(Compiling') = Cardinality(Compiling) + 1
      BY <2>3, ChargedCount, FS_AddElement
    <3>2. Cardinality(Compiling) \in Nat /\ slots \in Int /\ MaxConcurrent \in Int
      <4>1. Cardinality(Compiling) \in Nat
        BY ChargedCount
      <4>2. QED
        BY <4>1, ServiceAssumption DEF TypeOK
    <3>3. QED
      BY <2>1, <3>1, <3>2 DEF SlotsOK
  <2>5. QueueOK'
    BY <1>9, <2>1 DEF QueueOK
  <2>6. TypeOK'
    <3>1. slots' \in 0 .. MaxConcurrent
      BY <1>9, <2>1, ServiceAssumption DEF TypeOK
    <3>2. QED
      BY <1>3, <1>5, <1>6, <2>1, <3>1 DEF TypeOK
  <2>7. QED
    BY <1>7, <1>8, <2>4, <2>5, <2>6
<1>10. CASE ~(slots > 0 /\ queue = <<>>)
  <2>1. Reply(r, "queued") /\ queue' = Append(queue, r) /\ UNCHANGED slots
    BY <1>10 DEF Charge
  <2>2. status'[r] = "queued"
    BY <2>1 DEF Reply, TypeOK
  <2>3. Compiling' = Compiling
    BY <1>5, <2>2 DEF Compiling
  <2>4. SlotsOK'
    BY <2>1, <2>3 DEF SlotsOK
  <2>5. QueueOK'
    <3>1. \A i \in 1 .. Len(queue) : queue[i] \in Request /\ queue[i] # r
      BY DEF TypeOK, QueueOK
    <3>2. /\ queue \in Seq(Request) /\ Len(queue') = Len(queue) + 1
          /\ \A i \in 1 .. Len(queue) : queue'[i] = queue[i]
          /\ queue'[Len(queue) + 1] = r
      BY <2>1 DEF TypeOK
    <3>3. QED
      BY <1>5, <2>2, <3>1, <3>2 DEF QueueOK
  <2>6. TypeOK'
    BY <1>3, <1>5, <1>6, <2>1 DEF TypeOK
  <2>7. QED
    BY <1>7, <1>8, <2>4, <2>5, <2>6
<1>11. QED
  BY <1>9, <1>10

LEMMA ArriveKeeps == ASSUME WebInv, NEW r \in Request, Arrive(r) PROVE WebInv'
<1> USE DEF WebInv
<1>1. status[r] = "new" /\ UNCHANGED <<up, cache, restarts>>
  BY DEF Arrive
<1>2. CASE Reply(r, "bad-request") /\ UNCHANGED <<rows, slots, queue, paidIn>>
  BY <1>1, <1>2, QuietReply DEF TypeOK, Refusals
<1>3. CASE Hit(r)
  BY <1>1, <1>3, QuietReply DEF Hit, TypeOK, Refusals
<1>4. CASE NotSignedIn(r)
  BY <1>1, <1>4, QuietReply DEF NotSignedIn, TypeOK, Refusals
<1>5. CASE Exhausted(r)
  <2>1. UserOf[r] \in User
    BY <1>5, UserSignedIn DEF Exhausted
  <2>2. rows' = [rows EXCEPT ![UserOf[r]] = Refreshed(@)]
    BY <1>5 DEF Exhausted
  <2>3. rows' \in [User -> Row]
    BY <2>1, <2>2, RefreshKeeps
  <2>4. \A v \in User :
           /\ rows'[v].total = rows[v].total
           /\ \/ rows'[v].today = rows[v].today /\ rows'[v].window = rows[v].window
              \/ rows'[v].today = 0
    BY <2>1, <2>2, RefreshKeeps
  <2>5. QED
    BY <1>1, <1>5, <2>3, <2>4, QuietReply DEF Exhausted, Refusals
<1>6. CASE TooLarge(r)
  <2>1. UserOf[r] \in User
    BY <1>6, UserSignedIn DEF TooLarge
  <2>2. rows' = [rows EXCEPT ![UserOf[r]] = Refreshed(@)]
    <3>1. rows[UserOf[r]] \in Row
      BY <2>1 DEF TypeOK
    <3>2. Refunded(Spent(Refreshed(rows[UserOf[r]]))) = Refreshed(rows[UserOf[r]])
      BY <3>1, RowOperations
    <3>3. QED
      BY <1>6, <3>2 DEF TooLarge
  <2>3. rows' \in [User -> Row]
    BY <2>1, <2>2, RefreshKeeps
  <2>4. \A v \in User :
           /\ rows'[v].total = rows[v].total
           /\ \/ rows'[v].today = rows[v].today /\ rows'[v].window = rows[v].window
              \/ rows'[v].today = 0
    BY <2>1, <2>2, RefreshKeeps
  <2>5. QED
    BY <1>1, <1>6, <2>3, <2>4, QuietReply DEF TooLarge, Refusals
<1>7. CASE Charge(r)
  BY <1>1, <1>7, ChargeKeeps
<1>8. QED
  BY <1>2, <1>3, <1>4, <1>5, <1>6, <1>7 DEF Arrive

LEMMA AdmitKeeps == ASSUME WebInv, Admit PROVE WebInv'
<1> USE DEF WebInv
<1> DEFINE r == Head(queue)
<1>1. /\ queue # <<>> /\ slots > 0 /\ Reply(r, "compiling")
      /\ queue' = Tail(queue) /\ slots' = slots - 1
      /\ UNCHANGED <<up, cache, rows, paidIn, restarts>>
  BY DEF Admit
<1>2. /\ queue \in Seq(Request) /\ Len(queue) \in Nat \ {0}
      /\ Tail(queue) \in Seq(Request)
      /\ Len(Tail(queue)) = Len(queue) - 1 /\ r = queue[1]
      /\ \A i \in 1 .. Len(Tail(queue)) : Tail(queue)[i] = queue[i + 1]
  BY <1>1 DEF TypeOK
<1>3. r \in Request /\ status[r] = "queued"
  BY <1>2 DEF QueueOK
<1>4. /\ status' \in [Request -> Status] /\ status'[r] = "compiling"
      /\ \A q \in Request : q # r => status'[q] = status[q]
  <2>1. "compiling" \in Status
    BY DEF Status, Waiting
  <2>2. QED
    BY <1>1, <1>3, <2>1, ReplyMoves
<1>5. \A q \in Request : status'[q] \in ChargedStatus <=> status[q] \in ChargedStatus
  BY <1>3, <1>4 DEF ChargedStatus, Waiting
<1>6. TypeOK'
  <2>1. slots' \in 0 .. MaxConcurrent
    BY <1>1, ServiceAssumption DEF TypeOK
  <2>2. QED
    BY <1>1, <1>2, <1>4, <2>1 DEF TypeOK
<1>7. SignedIn'
  BY <1>5 DEF SignedIn
<1>8. QueueOK'
  <2>1. \A i \in 1 .. Len(Tail(queue)) :
          i + 1 \in 1 .. Len(queue) /\ queue[i + 1] \in Request /\ queue[i + 1] # r
    BY <1>2 DEF QueueOK
  <2>2. \A i \in 1 .. Len(Tail(queue)) : status'[Tail(queue)[i]] = "queued"
    BY <1>2, <1>4, <2>1 DEF QueueOK
  <2>3. \A i, j \in 1 .. Len(Tail(queue)) : Tail(queue)[i] = Tail(queue)[j] => i = j
    BY <1>2, <2>1 DEF QueueOK
  <2>4. QED
    BY <1>1, <2>2, <2>3 DEF QueueOK
<1>9. SlotsOK'
  <2>1. Compiling' = Compiling \union {r} /\ r \notin Compiling
    BY <1>3, <1>4 DEF Compiling
  <2>2. Cardinality(Compiling) \in Nat /\ Cardinality(Compiling') = Cardinality(Compiling) + 1
    BY <2>1, ChargedCount, FS_AddElement
  <2>3. slots \in Int /\ MaxConcurrent \in Int
    BY ServiceAssumption DEF TypeOK
  <2>4. QED
    BY <1>1, <2>2, <2>3 DEF SlotsOK
<1>10. ASSUME NEW u \in User PROVE MeterOK(u)'
  BY <1>1, <1>5, MeterKept
<1>11. QED
  BY <1>6, <1>7, <1>8, <1>9, <1>10

(* What every end of a compile does: the slot is given back.               *)
LEMMA CompiledFrees ==
  ASSUME WebInv, NEW r \in Request, Compiled(r),
         NEW what \in Answers \union Refusals, Reply(r, what)
  PROVE  /\ status' \in [Request -> Status] /\ status'[r] = what
         /\ \A q \in Request : q # r => status'[q] = status[q]
         /\ slots' \in 0 .. MaxConcurrent /\ SlotsOK' /\ QueueOK' /\ SignedIn'
<1> USE DEF WebInv
<1>1. status[r] = "compiling" /\ slots' = slots + 1 /\ UNCHANGED <<up, queue, paidIn, restarts>>
  BY DEF Compiled
<1>2. /\ status' \in [Request -> Status] /\ status'[r] = what
      /\ \A q \in Request : q # r => status'[q] = status[q]
  BY ReplyMoves DEF Status
<1>3. what # "compiling"
  BY DEF Answers, Refusals
<1>4. Compiling' = Compiling \ {r} /\ r \in Compiling
  BY <1>1, <1>2, <1>3 DEF Compiling
<1>5. /\ Cardinality(Compiling) \in Nat /\ Cardinality(Compiling') \in Nat
      /\ Cardinality(Compiling') = Cardinality(Compiling) - 1
  BY <1>4, ChargedCount, FS_RemoveElement, FS_CardinalityType
<1>6. slots \in Nat /\ MaxConcurrent \in Nat
  BY ServiceAssumption DEF TypeOK
<1>7. slots' \in 0 .. MaxConcurrent /\ SlotsOK'
  BY <1>1, <1>5, <1>6 DEF SlotsOK
<1>8. QueueOK'
  <2>1. \A i \in 1 .. Len(queue) : queue[i] \in Request /\ queue[i] # r
    BY <1>1 DEF TypeOK, QueueOK
  <2>2. QED
    BY <1>1, <1>2, <2>1 DEF QueueOK
<1>9. SignedIn'
  BY <1>1, <1>2 DEF SignedIn, ChargedStatus, Waiting
<1>10. QED
  BY <1>2, <1>7, <1>8, <1>9

LEMMA AnswerKeeps == ASSUME WebInv, NEW r \in Request, Answer(r) PROVE WebInv'
<1> USE DEF WebInv
<1>1. PICK a \in Answers : Reply(r, a)
  BY DEF Answer
<1>2. /\ status[r] = "compiling" /\ rows' = rows
      /\ UNCHANGED <<up, queue, paidIn, restarts>>
      /\ cache' = cache \union {KeyOf[r]} \/ cache' = cache
  BY DEF Answer, Compiled
<1>3. /\ status' \in [Request -> Status] /\ status'[r] = a
      /\ \A q \in Request : q # r => status'[q] = status[q]
      /\ slots' \in 0 .. MaxConcurrent /\ SlotsOK' /\ QueueOK' /\ SignedIn'
  BY <1>1, CompiledFrees DEF Answer
<1>4. TypeOK'
  <2>1. KeyOf[r] \in Key
    BY ServiceAssumption
  <2>2. QED
    BY <1>2, <1>3, <2>1 DEF TypeOK
<1>5. \A q \in Request : status'[q] \in ChargedStatus <=> status[q] \in ChargedStatus
  BY <1>2, <1>3 DEF ChargedStatus, Waiting
<1>6. ASSUME NEW u \in User PROVE MeterOK(u)'
  BY <1>2, <1>5, MeterKept
<1>7. QED
  BY <1>3, <1>4, <1>6

(* The two ends that give the unit back.                                   *)
LEMMA RefundKeeps ==
  ASSUME WebInv, NEW r \in Request, Timeout(r) \/ Fail(r)
  PROVE  WebInv'
<1> USE DEF WebInv
<1> DEFINE u == UserOf[r]
<1>1. PICK what \in {"timeout", "failed"} : Reply(r, what)
  BY DEF Timeout, Fail
<1>2. /\ Compiled(r) /\ status[r] = "compiling" /\ cache' = cache
      /\ UNCHANGED <<up, queue, paidIn, restarts>>
  BY DEF Timeout, Fail, Compiled
<1>3. /\ status' \in [Request -> Status] /\ status'[r] = what
      /\ \A q \in Request : q # r => status'[q] = status[q]
      /\ slots' \in 0 .. MaxConcurrent /\ SlotsOK' /\ QueueOK' /\ SignedIn'
  BY <1>1, <1>2, CompiledFrees DEF Refusals
<1>4. u \in User
  BY <1>2 DEF SignedIn, ChargedStatus, Waiting
<1>5. PICK row \in Row : row = Refunded(rows[u])
  BY <1>4, RowOperations DEF TypeOK
<1>6. /\ rows' \in [User -> Row]
      /\ rows'[u] = row \/ rows'[u] = Refreshed(row)
      /\ \A v \in User : v # u => rows'[v] = rows[v]
  <2>1. PICK new \in {row, Refreshed(row)} : rows' = [rows EXCEPT ![u] = new]
    BY <1>5 DEF Timeout, Fail
  <2>2. new \in Row
    BY RowOperations
  <2>3. QED
    BY <1>4, <2>1, <2>2 DEF TypeOK
<1>7. TypeOK'
  BY <1>2, <1>3, <1>6 DEF TypeOK
<1>8. ASSUME NEW v \in User PROVE MeterOK(v)'
  <2>1. CASE v = u
    <3>1. status'[r] \notin ChargedStatus
      BY <1>3 DEF ChargedStatus, Waiting, Answers
    <3>2. QED
      BY <1>2, <1>3, <1>4, <1>5, <1>6, <2>1, <3>1, MeterRefunds
  <2>2. CASE v # u
    <3>1. Charged(v)' = Charged(v)
      BY <1>3, <2>2 DEF Charged, Held, Forfeited
    <3>2. rows'[v] = rows[v]
      BY <1>6, <2>2
    <3>3. ChargedIn(v, rows[v].window)' = ChargedIn(v, rows[v].window)
      BY <1>2, <3>1, <3>2 DEF ChargedIn, Charged, Held, Forfeited
    <3>4. QED
      BY <3>1, <3>2, <3>3 DEF MeterOK
  <2>3. QED
    BY <2>1, <2>2
<1>9. QED
  BY <1>3, <1>7, <1>8

(* A restart forgets the requests in flight; their units stay spent.       *)
LEMMA RestartKeeps == ASSUME WebInv, Restart PROVE WebInv'
<1> USE DEF WebInv
<1>1. /\ up' = FALSE /\ queue' = <<>> /\ slots' = MaxConcurrent
      /\ status' = [r \in Request |-> IF status[r] \in Waiting THEN "lost" ELSE status[r]]
      /\ restarts' \in 0 .. MaxRestarts
      /\ UNCHANGED <<cache, rows, paidIn>>
  BY ServiceAssumption DEF Restart, TypeOK
<1>2. TypeOK'
  <2>1. status' \in [Request -> Status]
    BY <1>1 DEF TypeOK, Status
  <2>2. <<>> \in Seq(Request) /\ MaxConcurrent \in 0 .. MaxConcurrent
    BY ServiceAssumption
  <2>3. QED
    BY <1>1, <2>1, <2>2 DEF TypeOK
<1>3. \A q \in Request : status'[q] \in ChargedStatus <=> status[q] \in ChargedStatus
  BY <1>1 DEF ChargedStatus, Waiting, Answers
<1>4. SignedIn' /\ QueueOK'
  BY <1>1, <1>3 DEF SignedIn, QueueOK
<1>5. SlotsOK'
  <2>1. Compiling' = {}
    BY <1>1 DEF Compiling, Waiting
  <2>2. QED
    BY <1>1, <2>1, FS_EmptySet, ServiceAssumption DEF SlotsOK
<1>6. ASSUME NEW u \in User PROVE MeterOK(u)'
  BY <1>1, <1>3, MeterKept
<1>7. QED
  BY <1>2, <1>4, <1>5, <1>6

(* The steps that touch no request: the warm-up, GET /api/me and the clock.*)
LEMMA WorldKeeps ==
  ASSUME WebInv, Warm \/ \E u \in User : Me(u) \/ DayPasses(u)
  PROVE  WebInv'
<1> USE DEF WebInv
<1>1. CASE Warm
  <2>1. cache' \subseteq Key
    BY <1>1, ServiceAssumption DEF Warm, TypeOK
  <2>2. QED
    BY <1>1, <2>1, QuietStep DEF Warm, TypeOK
<1>2. ASSUME NEW u \in User, Me(u) PROVE WebInv'
  <2>1. rows' = [rows EXCEPT ![u] = Refreshed(@)]
    BY <1>2 DEF Me
  <2>2. rows' \in [User -> Row]
    BY <2>1, RefreshKeeps
  <2>3. \A v \in User :
           /\ rows'[v].total = rows[v].total
           /\ \/ rows'[v].today = rows[v].today /\ rows'[v].window = rows[v].window
              \/ rows'[v].today = 0
    BY <2>1, RefreshKeeps
  <2>4. QED
    BY <1>2, <2>2, <2>3, QuietStep DEF Me, TypeOK
<1>3. ASSUME NEW u \in User, DayPasses(u) PROVE WebInv'
  <2>1. rows[u] \in Row /\ rows' = [rows EXCEPT ![u] = [rows[u] EXCEPT !.expired = TRUE]]
    BY <1>3 DEF DayPasses, TypeOK
  <2>2. /\ [rows[u] EXCEPT !.expired = TRUE] \in Row
        /\ [rows[u] EXCEPT !.expired = TRUE].total = rows[u].total
        /\ [rows[u] EXCEPT !.expired = TRUE].today = rows[u].today
        /\ [rows[u] EXCEPT !.expired = TRUE].window = rows[u].window
    BY <2>1 DEF Row
  <2>3. /\ rows' \in [User -> Row]
        /\ \A v \in User :
             /\ rows'[v].total = rows[v].total
             /\ rows'[v].today = rows[v].today /\ rows'[v].window = rows[v].window
    BY <2>1, <2>2 DEF TypeOK
  <2>4. QED
    BY <1>3, <2>3, QuietStep DEF DayPasses, TypeOK
<1>4. QED
  BY <1>1, <1>2, <1>3

LEMMA WebNext == WebInv /\ [Next]_vars => WebInv'
<1> SUFFICES ASSUME WebInv, [Next]_vars PROVE WebInv'
  OBVIOUS
<1>1. ASSUME NEW r \in Request, Arrive(r) PROVE WebInv'
  BY <1>1, ArriveKeeps
<1>2. ASSUME NEW r \in Request, Finish(r) PROVE WebInv'
  BY <1>2, AnswerKeeps, RefundKeeps DEF Finish
<1>3. CASE Admit
  BY <1>3, AdmitKeeps
<1>4. CASE Restart
  BY <1>4, RestartKeeps
<1>5. CASE Warm \/ \E u \in User : Me(u) \/ DayPasses(u)
  BY <1>5, WorldKeeps
<1>6. CASE UNCHANGED vars
  BY <1>6, QuietStep DEF vars, WebInv, TypeOK
<1>7. QED
  BY <1>1, <1>2, <1>3, <1>4, <1>5, <1>6 DEF Next

(* The types, the semaphore, the queue and the two counters, together.     *)
THEOREM WebInvariant == Spec => []WebInv
<1>1. QED
  BY InitWeb, WebNext, PTL DEF Spec

(* quota.py: the lifetime counter is the number of compiles an account got *)
(* or is getting and of those restarts cost it, through refunds, timeouts  *)
(* and races.                                                              *)
THEOREM LifetimeStaysExact == Spec => []LifetimeIsExact
<1>1. WebInv => LifetimeIsExact
  BY DEF WebInv, MeterOK, LifetimeIsExact
<1>2. QED
  BY <1>1, WebInvariant, PTL

(* quota.py: no account is counted as having used more of its day than the *)
(* units of that day it was charged and not refunded.                      *)
THEOREM NobodyOvercharged == Spec => []NeverOvercharged
<1>1. WebInv => NeverOvercharged
  BY DEF WebInv, MeterOK, NeverOvercharged
<1>2. QED
  BY <1>1, WebInvariant, PTL

-----------------------------------------------------------------------------
(* The free lane (main.py): only an answer somebody was charged for, or an *)
(* example, is stored, and an answer is never taken back.                  *)

LEMMA FreeLaneNext == WebInv /\ FreeLaneIsPaidFor /\ [Next]_vars => FreeLaneIsPaidFor'
<1> SUFFICES ASSUME WebInv, FreeLaneIsPaidFor, [Next]_vars PROVE FreeLaneIsPaidFor'
  OBVIOUS
<1> USE DEF WebInv
<1> DEFINE Paid == {q \in Request : status[q] \in Answers}
<1>1. ASSUME Paid \subseteq Paid', cache' \subseteq cache \union Examples PROVE FreeLaneIsPaidFor'
  BY <1>1 DEF FreeLaneIsPaidFor
<1>2. ASSUME NEW r \in Request, Arrive(r) PROVE FreeLaneIsPaidFor'
  <2>1. PICK what : Reply(r, what)
    BY <1>2 DEF Arrive, Hit, NotSignedIn, Exhausted, TooLarge, Charge
  <2>2. status[r] = "new" /\ cache' = cache
    BY <1>2 DEF Arrive
  <2>3. Paid \subseteq Paid'
    BY <2>1, <2>2 DEF Reply, TypeOK, Answers
  <2>4. QED
    BY <1>1, <2>2, <2>3
<1>3. ASSUME NEW r \in Request, Finish(r) PROVE FreeLaneIsPaidFor'
  <2>1. PICK what : Reply(r, what)
    BY <1>3 DEF Finish, Answer, Timeout, Fail
  <2>2. status[r] = "compiling"
    BY <1>3 DEF Finish, Answer, Timeout, Fail, Compiled
  <2>3. Paid \subseteq Paid'
    BY <2>1, <2>2 DEF Reply, TypeOK, Answers
  <2>4. CASE cache' = cache
    BY <1>1, <2>3, <2>4
  <2>5. CASE cache' # cache
    <3>1. cache' = cache \union {KeyOf[r]} /\ \E a \in Answers : Reply(r, a)
      BY <1>3, <2>5 DEF Finish, Answer, Timeout, Fail
    <3>2. r \in Paid'
      BY <3>1 DEF Reply, TypeOK
    <3>3. QED
      BY <2>3, <3>1, <3>2 DEF FreeLaneIsPaidFor
  <2>6. QED
    BY <2>4, <2>5
<1>4. CASE Admit
  <2>1. 1 \in 1 .. Len(queue) /\ Head(queue) = queue[1]
    BY <1>4 DEF Admit, TypeOK
  <2>2. status[Head(queue)] = "queued"
    BY <2>1 DEF QueueOK
  <2>3. Paid \subseteq Paid'
    BY <1>4, <2>2 DEF Admit, Reply, TypeOK, Answers
  <2>4. QED
    BY <1>1, <1>4, <2>3 DEF Admit
<1>5. CASE Restart
  <2>1. Paid \subseteq Paid'
    BY <1>5 DEF Restart, Waiting, Answers
  <2>2. QED
    BY <1>1, <1>5, <2>1 DEF Restart
<1>6. CASE Warm
  <2>1. cache' \subseteq cache \union Examples /\ Paid' = Paid
    BY <1>6 DEF Warm
  <2>2. QED
    BY <1>1, <2>1
<1>7. ASSUME NEW u \in User, Me(u) \/ DayPasses(u) PROVE FreeLaneIsPaidFor'
  BY <1>7 DEF Me, DayPasses, FreeLaneIsPaidFor
<1>8. CASE UNCHANGED vars
  BY <1>8 DEF vars, FreeLaneIsPaidFor
<1>9. QED
  BY <1>2, <1>3, <1>4, <1>5, <1>6, <1>7, <1>8 DEF Next

(* main.py: the cache in front of the sign-in check answers for free only  *)
(* what was paid for once, and the prebaked examples.                      *)
THEOREM FreeLaneStaysPaidFor == Spec => []FreeLaneIsPaidFor
<1>1. Init => FreeLaneIsPaidFor
  BY DEF Init, FreeLaneIsPaidFor
<1>2. QED
  BY <1>1, FreeLaneNext, WebInvariant, PTL DEF Spec

-----------------------------------------------------------------------------
(* No refusal is early: the test of spend() is made before the unit is      *)
(* taken, on a row that counts no unit nobody was charged.                 *)

LEMMA RefusalIsDeserved ==
  ASSUME WebInv, NEW r \in Request, status[r] = "new", status'[r] = "exhausted", [Next]_vars
  PROVE  LET u == UserOf[r]
         IN \/ Cardinality(ChargedIn(u, rows'[u].window)) >= Daily
            \/ Lifetime # 0 /\ Cardinality(Charged(u)) >= Lifetime
<1> USE DEF WebInv
<1> DEFINE u == UserOf[r]
<1>1. Exhausted(r)
  <2>1. \A q, what : Reply(q, what) /\ status'[r] # status[r] => q = r /\ status'[r] = what
    BY DEF Reply, TypeOK
  <2>2. ASSUME NEW q \in Request, Arrive(q) PROVE Exhausted(r)
    <3>1. PICK what : Reply(q, what)
      BY <2>2 DEF Arrive, Hit, NotSignedIn, Exhausted, TooLarge, Charge
    <3>2. q = r
      BY <2>1, <3>1
    <3>3. QED
      BY <2>1, <2>2, <3>2 DEF Arrive, Hit, NotSignedIn, TooLarge, Charge
  <2>3. ASSUME NEW q \in Request, Finish(q) PROVE FALSE
    <3>1. (\E a \in Answers : Reply(q, a)) \/ Reply(q, "timeout") \/ Reply(q, "failed")
      BY <2>3 DEF Finish, Answer, Timeout, Fail
    <3>2. QED
      BY <2>1, <3>1 DEF Answers
  <2>4. CASE Admit
    BY <2>1, <2>4 DEF Admit
  <2>5. CASE Restart
    BY <2>5 DEF Restart, Waiting
  <2>6. CASE Warm
    BY <2>6 DEF Warm
  <2>7. ASSUME NEW v \in User, Me(v) \/ DayPasses(v) PROVE FALSE
    BY <2>7 DEF Me, DayPasses
  <2>8. CASE UNCHANGED vars
    BY <2>8 DEF vars
  <2>9. QED
    BY <2>2, <2>3, <2>4, <2>5, <2>6, <2>7, <2>8 DEF Next
<1>2. u \in User /\ rows[u] \in Row /\ MeterOK(u)
  BY <1>1, UserSignedIn DEF Exhausted, TypeOK
<1>3. rows'[u] = Refreshed(rows[u]) /\ ~Allowed(Refreshed(rows[u]))
  BY <1>1, <1>2 DEF Exhausted, Grants, TypeOK
<1> DEFINE row == Refreshed(rows[u])
<1>4. /\ row \in Row /\ row.total = rows[u].total
      /\ (row.today = rows[u].today /\ row.window = rows[u].window) \/ row.today = 0
  BY <1>2, RowOperations
<1>5. /\ row.today \in Nat /\ row.total \in Nat /\ Daily \in Nat /\ Lifetime \in Nat
      /\ Cardinality(ChargedIn(u, row.window)) \in Nat
  BY <1>4, ChargedCount, CeilingAssumption DEF Row
<1>6. row.today <= Cardinality(ChargedIn(u, row.window))
  <2>1. CASE row.today = rows[u].today /\ row.window = rows[u].window
    BY <1>2, <2>1 DEF MeterOK
  <2>2. CASE row.today = 0
    BY <1>5, <2>2
  <2>3. QED
    BY <1>4, <2>1, <2>2
<1>7. row.total = Cardinality(Charged(u))
  BY <1>2, <1>4 DEF MeterOK
<1> HIDE DEF row
<1>8. row.today >= Daily \/ (Lifetime # 0 /\ row.total >= Lifetime)
  BY <1>3, <1>5 DEF Allowed, row
<1>9. rows'[u].window = row.window
  BY <1>3 DEF row
<1>10. QED
  BY <1>5, <1>6, <1>7, <1>8, <1>9

(* spend's docstring, "every unit of the allowance is usable": a request is*)
(* refused only when its account holds all the units of its day or of its  *)
(* lifetime, or lost to a restart those it does not hold.                  *)
THEOREM RefusalsAreDeserved == Spec => EveryUnitUsable
<1>1. WebInv /\ [Next]_vars =>
        \A r \in Request :
          (status[r] = "new" /\ status'[r] = "exhausted") =>
            LET u == UserOf[r]
            IN \/ Cardinality(ChargedIn(u, rows'[u].window)) >= Daily
               \/ Lifetime # 0 /\ Cardinality(Charged(u)) >= Lifetime
  BY RefusalIsDeserved
<1>2. QED
  BY <1>1, WebInvariant, PTL DEF Spec, EveryUnitUsable
=============================================================================
