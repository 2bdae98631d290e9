------------------------------ MODULE LoopGuard ------------------------------
(***************************************************************************)
(* guardrails.rs, LoopGuard: a client that repeats a prompt too often      *)
(* within a while is turned away.  check_and_record runs under the lock of *)
(* the client's entry; the time it takes is nothing to the window's, so    *)
(* the clock is read in the same step.                                     *)
(***************************************************************************)
EXTENDS Integers, Sequences, FiniteSets

CONSTANTS
  Clients,
  Threshold,    \* threshold
  Window,       \* window
  MaxHistory    \* MAX_HISTORY_PER_CLIENT

ASSUME LoopGuardAssumption ==
  Threshold \in Nat /\ Window \in Nat /\ MaxHistory \in Nat \ {0}

VARIABLES
  recent,   \* of each client the prompts of late, [prompt, at], oldest first
  now       \* Instant::now()

LoopInit == recent = [c \in Clients |-> <<>>] /\ now = 0

\* MUTANT of Front: an entry as old as the window is dropped.
Front_Shorter(history) ==
  CHOOSE i \in 1 .. Len(history) + 1 :
    /\ \A j \in 1 .. i - 1 : now - history[j].at >= Window
    /\ i <= Len(history) => now - history[i].at < Window

\* The first entry within the window: what is older is popped off the front.
Front(history) ==
  CHOOSE i \in 1 .. Len(history) + 1 :
    /\ \A j \in 1 .. i - 1 : now - history[j].at > Window
    /\ i <= Len(history) => now - history[i].at <= Window

InWindow(history) == SubSeq(history, Front(history), Len(history))

Repeats(c, prompt) ==
  LET history == InWindow(recent[c])
  IN Cardinality({i \in DOMAIN history : history[i].prompt = prompt})

Recorded(c, prompt) ==
  LET longer == Append(InWindow(recent[c]), [prompt |-> prompt, at |-> now])
  IN IF Len(longer) > MaxHistory THEN Tail(longer) ELSE longer

IsLoop(c, prompt) == Repeats(c, prompt) + 1 >= Threshold

Record(c, prompt) ==
  /\ recent' = [recent EXCEPT ![c] = Recorded(c, prompt)]
  /\ UNCHANGED now

LoopTick == now' = now + 1 /\ UNCHANGED recent

=============================================================================
