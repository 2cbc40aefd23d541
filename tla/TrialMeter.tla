------------------------------ MODULE TrialMeter ------------------------------
(***************************************************************************)
(* The limited free trial of web/server/quota.py: one row per account, two *)
(* ceilings, and a daily window that starts over at the first use after it *)
(* has run out.  Every operation runs under the store's lock, so a row goes*)
(* from one value to the next.                                             *)
(***************************************************************************)
EXTENDS Integers

CONSTANTS Daily, Lifetime     \* the two ceilings; Lifetime = 0 when there is none

ASSUME CeilingAssumption == Daily \in Nat /\ Lifetime \in Nat

(* `window` counts the windows an account has had, standing for            *)
(* window_start; `expired` says that a day has passed since it started.    *)
Row == [today : Nat, total : Nat, window : Nat, expired : BOOLEAN]

NewRow == [today |-> 0, total |-> 0, window |-> 0, expired |-> FALSE]

(* A mistake: the new window inherits what the old one used.               *)
RefreshedKeepingUse(row) ==
  IF row.expired THEN [row EXCEPT !.window = @ + 1, !.expired = FALSE] ELSE row

Refreshed(row) ==
  IF row.expired
  THEN [row EXCEPT !.today = 0, !.window = @ + 1, !.expired = FALSE]
  ELSE row

Allowed(row) == row.today < Daily /\ (Lifetime # 0 => row.total < Lifetime)

Spent(row) == [row EXCEPT !.today = @ + 1, !.total = @ + 1]

(* A mistake, and the one spend()'s docstring tells of: whether the request*)
(* got its unit is computed from what is left after it.                    *)
GrantsIfSomeIsLeft(row) == Allowed(Spent(row))

(* The meter's answer to one request for a unit, on a fresh row.           *)
Grants(row) == Allowed(row)

Refunded(row) ==
  [row EXCEPT !.today = IF @ = 0 THEN 0 ELSE @ - 1,
              !.total = IF @ = 0 THEN 0 ELSE @ - 1]
=============================================================================
