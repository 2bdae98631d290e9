---------------------------- MODULE SpendWindow -----------------------------
(***************************************************************************)
(* SpendLedger with the books of the current spend window kept beside it:  *)
(* history variables that the code does not have and no action reads, to   *)
(* say what the running total `spent` is worth as a ceiling on cost.       *)
(***************************************************************************)
EXTENDS SpendLedger

VARIABLES
  stale,        \* history: requests whose reservation an earlier window holds
  reported,     \* history: actual cost of this window's settled reservations
  committed,    \* history: estimates of this window's unsettled reservations,
                \* those of dropped requests included
  overrun,      \* history: by how much actual costs exceeded their estimates
                \* in this window, whichever window the estimate is from
  credit        \* history: what earlier windows' reservations gave back to
                \* this window when they were settled below their estimate

books == <<stale, reported, committed, overrun, credit>>
window_vars == <<ledger_vars, books>>

WindowTypeOK ==
  /\ LedgerTypeOK
  /\ stale \subseteq Requests
  /\ reported \in Nat
  /\ committed \in Int
  /\ overrun \in Nat
  /\ credit \in Nat

WindowInit ==
  /\ LedgerInit
  /\ stale = {}
  /\ reported = 0
  /\ committed = 0
  /\ overrun = 0
  /\ credit = 0

-----------------------------------------------------------------------------
\* What is still held when a window is reset is from an earlier window.
Outstanding == {r \in Requests : held[r] # NotHeld}

\* The books after a try_reserve that took `est`: new ones in a new window.
BooksOpened(est) ==
  IF WindowExpired
    THEN /\ stale' = Outstanding
         /\ reported' = 0
         /\ committed' = est
         /\ overrun' = 0
         /\ credit' = 0
    ELSE /\ committed' = committed + est
         /\ UNCHANGED <<stale, reported, overrun, credit>>

\* ... and after r's reservation was settled at `actual`.
BooksSettled(r, actual) ==
  /\ stale' = stale \ {r}
  /\ overrun' = overrun + (IF actual > held[r] THEN actual - held[r] ELSE 0)
  /\ IF r \in stale
       THEN /\ credit' = credit + (IF actual < held[r] THEN held[r] - actual ELSE 0)
            /\ UNCHANGED <<reported, committed>>
       ELSE /\ reported' = reported + actual
            /\ committed' = committed - held[r]
            /\ UNCHANGED credit

Accepted(r, est) == Reserve(r, est) /\ BooksOpened(est)

Refused(r, est) == Refuse(r, est) /\ BooksOpened(0)

Reconciled(r, actual) == Settle(r, actual) /\ BooksSettled(r, actual)

Released(r) == GiveBack(r) /\ BooksSettled(r, 0)

\* A dropped request's estimate stays committed until the window is over.
Dropped(r) ==
  /\ Abandon(r)
  /\ stale' = stale \ {r}
  /\ UNCHANGED <<reported, committed, overrun, credit>>

WindowTick == LedgerTick /\ UNCHANGED books

Try(r) == \E est \in Estimates : Accepted(r, est) \/ Refused(r, est)

Finish(r) ==
  \/ \E actual \in Actuals : Reconciled(r, actual)
  \/ Released(r)
  \/ Dropped(r)

WindowNext ==
  \/ \E r \in Requests : Try(r) \/ Finish(r)
  \/ WindowTick

WindowSpec == WindowInit /\ [][WindowNext]_window_vars

(***************************************************************************)
(* Fairness: time passes, and the client keeps sending requests (a ledger  *)
(* nobody asks is never reset: that is on the traffic, not on the code).   *)
(* The code has a reservation for every request, the model a slot: that a  *)
(* slot is free again some time stands for requests being new ones.        *)
(***************************************************************************)
FairWindow ==
  /\ WindowSpec
  /\ WF_window_vars(WindowTick)
  /\ \A r \in Requests : WF_window_vars(Try(r)) /\ WF_window_vars(Finish(r))

-----------------------------------------------------------------------------
(***************************************************************************)
(* Properties                                                              *)
(***************************************************************************)

\* Whatever requests race to reserve, settle late or get dropped, the running
\* total is over the cap only by what real costs exceeded their estimates:
\* the check-then-act race that try_reserve was written to close stays closed.
\* Nor is it ever below zero, which would raise the cap for the window: what is
\* released late finds max(0.0) in its way.
SpentWithinCap == 0 <= spent /\ spent <= CapCents + overrun

\* What the running total is worth as a ceiling: this window's calls, billed
\* or under way, are within the cap but for two leaks, each counted in full:
\* estimates that were too low, and reservations of an earlier window given
\* back to this one (reconcile does not look at the window).
WindowBill == reported + committed <= CapCents + overrun + credit

\* A client is never charged twice: the total is at most what this window's
\* calls cost or may cost, plus overruns of calls reserved in earlier windows.
NoPhantomSpend == spent <= reported + committed + overrun

\* A client that ran into its cap gets out again: whatever was leaked or
\* never given back is gone with the window.
CapLockoutEnds == (spent >= CapCents) ~> (spent < CapCents)

\* guardrails.rs:15 calls the guard a "hard per-client ceiling on cost": with
\* estimates that are never too low, a window's bill stays within the cap.
\* The code does not keep it: credit of an earlier window is spent again.
HardCeiling == overrun = 0 => reported <= CapCents
=============================================================================
