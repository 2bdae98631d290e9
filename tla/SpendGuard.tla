----------------------------- MODULE SpendGuard -----------------------------
(***************************************************************************)
(* The SpendGuard of src/guardrails.rs for one client: the running total   *)
(* of the current spend window and the critical sections on it.  The code  *)
(* keeps one (f64, Instant) per client in a DashMap, and every operation   *)
(* works under that entry's lock, so each is one step.  Cents are whole    *)
(* numbers here.  No operation touches two clients, so one client is the   *)
(* general case.  An absent entry is inserted as (0, now) by try_reserve,  *)
(* which is what try_reserve turns an empty expired window into: a client  *)
(* never seen is modelled as one whose window is expired and empty.        *)
(*                                                                         *)
(* check and record_spend are deprecated and no code calls them: left out. *)
(***************************************************************************)
EXTENDS Integers

CONSTANTS
  CapCents,             \* max_cents_per_window
  Window                \* ticks a spend window lasts

ASSUME CapAssumption == CapCents \in Nat
ASSUME WindowAssumption == Window \in Nat

VARIABLES
  spent,                \* entry.0: reserved or spent in this window
  window_age            \* ticks since entry.1, the start of the window

guard_vars == <<spent, window_age>>

GuardTypeOK ==
  /\ spent \in Nat
  /\ window_age \in 0 .. Window + 1

GuardInit ==
  /\ spent = 0
  /\ window_age = Window + 1

-----------------------------------------------------------------------------
\* now.duration_since(entry.1) > self.window.  Past Window + 1 every instant
\* is alike, so the age saturates there.
WindowExpired == window_age > Window

\* MUTANT of SpentNow: an expired window is stamped anew but not emptied.
SpentNow_NotEmptied == spent

\* The total try_reserve goes by, after resetting an expired window.
SpentNow == IF WindowExpired THEN 0 ELSE spent

\* MUTANT of FitsCap: checked without adding the estimate, the plain check()
\* that try_reserve replaced.
FitsCap_IgnoresEstimate(est) == SpentNow <= CapCents

\* try_reserve's test: entry.0 + estimated_cost_cents > max is a rejection.
FitsCap(est) == SpentNow + est <= CapCents

\* The instant try_reserve stamps on the window it resets.
OpenWindow == window_age' = IF WindowExpired THEN 0 ELSE window_age

\* try_reserve returning true ...
TryReserveOk(est) ==
  /\ FitsCap(est)
  /\ OpenWindow
  /\ spent' = SpentNow + est

\* ... and false.  The reset of an expired window stays even so.
TryReserveRefused(est) ==
  /\ ~FitsCap(est)
  /\ OpenWindow
  /\ spent' = SpentNow

\* MUTANT of Adjusted: without max(0.0) a late release makes spent negative.
Adjusted_NoFloor(est, actual) == spent + actual - est

\* (entry.0 + (actual - est)).max(0.0)
Adjusted(est, actual) ==
  IF est <= spent + actual THEN spent + actual - est ELSE 0

\* reconcile: no look at the window, whichever it is the reservation was made
\* in.  With delta = 0 the code returns early and this changes nothing either.
Reconcile(est, actual) ==
  /\ spent' = Adjusted(est, actual)
  /\ UNCHANGED window_age

\* MUTANT of Release: gives nothing back.
Release_Nothing(est) == UNCHANGED guard_vars

\* release: the call never happened.
Release(est) == Reconcile(est, 0)

\* Time passes.
GuardTick ==
  /\ ~WindowExpired
  /\ window_age' = window_age + 1
  /\ UNCHANGED spent
=============================================================================
