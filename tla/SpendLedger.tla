---------------------------- MODULE SpendLedger -----------------------------
(***************************************************************************)
(* What a request may do to its client's SpendGuard, whichever handler     *)
(* serves it: reserve an estimate once, before any provider is called, and *)
(* then reconcile it with the real cost or release it, once, or be dropped *)
(* and do neither.  Gateway.tla models the handlers and the tasks they     *)
(* spawn, and is shown to implement this module; SpendWindow.tla adds the  *)
(* books of the current window and says what the guard guarantees.         *)
(***************************************************************************)
EXTENDS SpendGuard

CONSTANTS
  Requests,             \* concurrent requests; a slot is reused when one ends
  Estimates,            \* estimated_cost_cents a request may come with
  Actuals,              \* actual_cost_cents it may turn out to have cost
  NotHeld               \* no reservation

ASSUME EstimatesAssumption == Estimates \subseteq Nat
ASSUME ActualsAssumption == Actuals \subseteq Nat
ASSUME NotHeldAssumption == NotHeld \notin Nat

VARIABLE held           \* the estimate each request has reserved

ledger_vars == <<guard_vars, held>>

LedgerTypeOK ==
  /\ GuardTypeOK
  /\ held \in [Requests -> Estimates \cup {NotHeld}]

LedgerInit ==
  /\ GuardInit
  /\ held = [r \in Requests |-> NotHeld]

-----------------------------------------------------------------------------
Reserve(r, est) ==
  /\ held[r] = NotHeld
  /\ TryReserveOk(est)
  /\ held' = [held EXCEPT ![r] = est]

Refuse(r, est) ==
  /\ held[r] = NotHeld
  /\ TryReserveRefused(est)
  /\ UNCHANGED held

Settle(r, actual) ==
  /\ held[r] # NotHeld
  /\ Reconcile(held[r], actual)
  /\ held' = [held EXCEPT ![r] = NotHeld]

GiveBack(r) ==
  /\ held[r] # NotHeld
  /\ Release(held[r])
  /\ held' = [held EXCEPT ![r] = NotHeld]

\* The request's future is dropped: nobody will settle what it reserved.
Abandon(r) ==
  /\ held[r] # NotHeld
  /\ held' = [held EXCEPT ![r] = NotHeld]
  /\ UNCHANGED guard_vars

LedgerTick ==
  /\ GuardTick
  /\ UNCHANGED held

LedgerNext ==
  \/ \E r \in Requests :
       \/ \E est \in Estimates : Reserve(r, est) \/ Refuse(r, est)
       \/ \E actual \in Actuals : Settle(r, actual)
       \/ GiveBack(r)
       \/ Abandon(r)
  \/ LedgerTick

LedgerSpec == LedgerInit /\ [][LedgerNext]_ledger_vars
=============================================================================
