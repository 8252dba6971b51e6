------------------------------ MODULE TokenQuota ------------------------------
(***************************************************************************)
(* The token ledger of the managed test users: accounts with a limit, and  *)
(* one reservation row per turn request key, kept in a database of its     *)
(* own.  Every operation is one transaction.  Login, keys and sessions are *)
(* left out: they decide who may call, never what a call does.             *)
(***************************************************************************)
EXTENDS Naturals, FiniteSets, FiniteSetsExt

CONSTANTS
  Users,                  \* usernames
  Keys,                   \* turn request keys, chosen by the caller
  TurnReservationTokens,  \* what a turn reserves before it runs
  MaxQuota,               \* the largest limit an account can have
  NoUser                  \* "no such row"

ASSUME ReservationAssumption == TurnReservationTokens \in Nat \ {0}
ASSUME MaxQuotaAssumption == MaxQuota \in Nat \ {0}
ASSUME NoUserAssumption == NoUser \notin Users

VARIABLES
  account,      \* managed_test_users.state, "absent" without a row
  limit,        \* limit_tokens
  used,         \* used_tokens
  reserved,     \* reserved_tokens
  reservation,  \* test_user_token_reservations.state, "none" without a row
  reserver,     \* ... .username
  charged       \* ... .charged_tokens

quotaVars == <<account, limit, used, reserved, reservation, reserver, charged>>

QuotaInit ==
  /\ account = [u \in Users |-> "absent"]
  /\ limit = [u \in Users |-> 0]
  /\ used = [u \in Users |-> 0]
  /\ reserved = [u \in Users |-> 0]
  /\ reservation = [k \in Keys |-> "none"]
  /\ reserver = [k \in Keys |-> NoUser]
  /\ charged = [k \in Keys |-> 0]

CreateUser(u, q) ==
  /\ account[u] = "absent"
  /\ account' = [account EXCEPT ![u] = "active"]
  /\ limit' = [limit EXCEPT ![u] = q]
  /\ UNCHANGED <<used, reserved, reservation, reserver, charged>>

WithinMaxQuota(u, more) == limit[u] + more <= MaxQuota

IncreaseQuota(u, more) ==
  /\ account[u] # "absent"
  /\ WithinMaxQuota(u, more)
  /\ limit' = [limit EXCEPT ![u] = @ + more]
  /\ UNCHANGED <<account, used, reserved, reservation, reserver, charged>>

RevokeUser(u) ==
  /\ account[u] # "absent"
  /\ account' = [account EXCEPT ![u] = "revoked"]
  /\ UNCHANGED <<limit, used, reserved, reservation, reserver, charged>>

\* quotaRecord: never negative, whatever the row says.
AvailableTokens(u) ==
  LET spent == used[u] + reserved[u] IN
  IF spent > limit[u] THEN 0 ELSE limit[u] - spent

CanAfford(u) == AvailableTokens(u) >= TurnReservationTokens

\* A key that has a row is accepted without a reservation, whatever state
\* the row is in, as long as it is the same user's.
MayReserve(u, k) ==
  /\ account[u] = "active"
  /\ IF reservation[k] # "none" THEN reserver[k] = u ELSE CanAfford(u)

ReserveTurn(u, k) ==
  IF reservation[k] # "none"
    THEN UNCHANGED quotaVars
    ELSE /\ reservation' = [reservation EXCEPT ![k] = "reserved"]
         /\ reserver' = [reserver EXCEPT ![k] = u]
         /\ reserved' = [reserved EXCEPT ![u] = @ + TurnReservationTokens]
         /\ UNCHANGED <<account, limit, used, charged>>

Unfinished(k) == reservation[k] = "reserved"

\* settleTurn clamps the estimate to what was reserved.
UnclampedCharge(estimate) == estimate
Charge(estimate) == Max({1, Min({TurnReservationTokens, estimate})})

\* What a set of rows is charged, or would be, together.
Total(amount, rows) == MapThenSumSet(LAMBDA k : amount[k], rows)

\* #finishReservation of all rows of S; the rows of Complete are settled and
\* pay, the others are released.  A row that is finished stays as it is.
FinishReservations(S, Complete, estimate) ==
  LET open == {k \in S : Unfinished(k)}
      paid == [k \in open |-> IF k \in Complete THEN Charge(estimate[k]) ELSE 0]
      of(u) == {k \in open : reserver[k] = u}
  IN /\ reservation' = [k \in Keys |->
          IF k \notin open THEN reservation[k]
          ELSE IF k \in Complete THEN "settled" ELSE "released"]
     /\ charged' = [k \in Keys |-> IF k \in open THEN paid[k] ELSE charged[k]]
     /\ used' = [u \in Users |-> used[u] + Total(paid, of(u))]
     /\ reserved' = [u \in Users |->
          reserved[u] - TurnReservationTokens * Cardinality(of(u))]
     /\ UNCHANGED <<account, limit, reserver>>

(***************************************************************************)
(* Properties of the ledger.                                               *)
(***************************************************************************)

\* Rows range over their columns, and a row names its user from the start.
QuotaTypeOK ==
  /\ account \in [Users -> {"absent", "active", "revoked"}]
  /\ limit \in [Users -> 0..MaxQuota]
  /\ used \in [Users -> Nat]
  /\ reserved \in [Users -> Nat]
  /\ reservation \in [Keys -> {"none", "reserved", "settled", "released"}]
  /\ reserver \in [Keys -> Users \cup {NoUser}]
  /\ charged \in [Keys -> Nat]
  /\ \A k \in Keys : reservation[k] # "none" <=> reserver[k] # NoUser

RowsOf(u, state) ==
  {k \in Keys : reserver[k] = u /\ reservation[k] = state}

\* The totals an account shows are the sums over its rows, each turn pays at
\* most what it reserved, and nobody is ever overdrawn: what was used and what
\* is reserved stay within the limit.
LedgerBalanced ==
  \A u \in Users :
    /\ reserved[u] = TurnReservationTokens * Cardinality(RowsOf(u, "reserved"))
    /\ used[u] = Total(charged, RowsOf(u, "settled"))
    /\ used[u] + reserved[u] <= limit[u]
==============================================================================
