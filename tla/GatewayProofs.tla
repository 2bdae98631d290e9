--------------------------- MODULE GatewayProofs ----------------------------
(***************************************************************************)
(* For every number of requests and permits, every cap, estimate and cost: *)
(* permits are accounted for and served in order, a reservation is settled *)
(* once and with what was reserved, and a stream's always is.              *)
(***************************************************************************)
EXTENDS Gateway, SharedLemmas, FiniteSetTheorems

USE RequestsAssumption, MaxConcurrentAssumption, EstimatesAssumption,
    ActualsAssumption, NotHeldAssumption

\* Where a request stands says whether it holds a reservation, and its audit
\* task says how far its generator is.
Standing(r) ==
  /\ est[r] # NotHeld <=>
       at[r] \in {"reserved", "queued", "calling", "reading"} \/ audit[r] # "none"
  /\ audit[r] # "none" => kind[r] = "stream"
  /\ kind[r] = "stream" /\ at[r] \in {"preparing", "queued", "calling", "reading"}
       => audit[r] = "waiting"
  /\ audit[r] = "waiting" => at[r] \in {"preparing", "queued", "calling", "reading"}
  /\ audit[r] = "payload" => at[r] \in {"returning", "gone"}
  /\ audit[r] = "closed" => at[r] = "gone"
  /\ at[r] = "gone" => audit[r] # "none"
  /\ at[r] = "preparing" => kind[r] = "stream"
  /\ at[r] = "spawned" => kind[r] = "shadow"
  /\ at[r] \in {"queued", "returning"} => NeedsPermit(kind[r])

\* The inductive invariant: the permits are accounted for only because nobody
\* who needs none is in the queue, and the ledger is kept only because a
\* handler's place and its audit task tell whether there is something to settle.
IInv == TypeOK /\ PermitsAccounted /\ \A r \in Requests : Standing(r)

Holders == {r \in Requests : HoldsPermit(r)}
Queued == {r \in Requests : at[r] = "queued"}

\* The first in the queue gets a permit.
Served(q) == at[q] = "queued" /\ at'[q] = "calling" /\ q = Head(waiters)

\* A step of r: what it does to r's place, and to the others'.
Moves(r, next) ==
  /\ at' \in [Requests -> Places]
  /\ at'[r] = next
  /\ \A q \in Requests \ {r} : at'[q] = at[q] \/ Served(q)

LimiterTypeOK == available \in 0 .. MaxConcurrent /\ waiters \in Seq(Requests)

-----------------------------------------------------------------------------
(***************************************************************************)
(* The semaphore.                                                          *)
(***************************************************************************)

LEMMA InjectiveMeansNoRepeats ==
  ASSUME NEW q \in Seq(Requests)
  PROVE  IsInjective(q) <=> NoRepeats(q)
<1>1. DOMAIN q = 1 .. Len(q)
  OBVIOUS
<1> QED BY <1>1 DEF IsInjective, NoRepeats

LEMMA HoldersFinite ==
  /\ IsFiniteSet(Holders)
  /\ Cardinality(Holders) \in Nat
<1>1. Holders \subseteq Requests
  BY DEF Holders
<1> QED BY <1>1, FS_Subset, FS_CardinalityType

\* A move that changes nobody's claim on a permit.
LEMMA MovingKeepsPermits ==
  ASSUME TypeOK, PermitsAccounted, NEW r \in Requests, NEW next \in Places,
         MoveTo(r, next),
         kind' \in [Requests -> Kinds],
         \A q \in Requests \ {r} : kind'[q] = kind[q],
         HoldsPermit(r)' <=> HoldsPermit(r),
         at[r] # "queued", next # "queued"
  PROVE  Moves(r, next) /\ LimiterTypeOK' /\ PermitsAccounted'
<1>1. at' = [at EXCEPT ![r] = next] /\ available' = available /\ waiters' = waiters
  BY DEF MoveTo, limiter_vars
<1>2. Moves(r, next)
  BY <1>1 DEF Moves, TypeOK
<1>3. {q \in Requests : HoldsPermit(q)'} = {q \in Requests : HoldsPermit(q)}
  BY <1>1 DEF HoldsPermit, TypeOK
<1>4. {q \in Requests : at'[q] = "queued"} = {q \in Requests : at[q] = "queued"}
  BY <1>1 DEF TypeOK
<1>5. PermitsAccounted'
  BY <1>1, <1>3, <1>4 DEF PermitsAccounted
<1> QED BY <1>1, <1>2, <1>5 DEF LimiterTypeOK, TypeOK

\* acquire().await
LEMMA AcquiringKeepsPermits ==
  ASSUME TypeOK, PermitsAccounted, NEW r \in Requests,
         Acquire(r), kind' = kind, NeedsPermit(kind[r]),
         at[r] \in {"reserved", "preparing"}
  PROVE  \E next \in {"queued", "calling"} :
           Moves(r, next) /\ LimiterTypeOK' /\ PermitsAccounted'
<1>1. /\ Cardinality(Holders) \in Nat /\ IsFiniteSet(Holders)
      /\ available + Cardinality(Holders) = MaxConcurrent
      /\ waiters # <<>> => available = 0
      /\ ToSet(waiters) = Queued
      /\ waiters \in Seq(Requests) /\ NoRepeats(waiters)
      /\ r \notin Holders
  BY HoldersFinite, InjectiveMeansNoRepeats
     DEF PermitsAccounted, Holders, Queued, TypeOK, HoldsPermit
<1>2. CASE available > 0
  <2>1. /\ available' = available - 1 /\ waiters' = waiters
        /\ at' = [at EXCEPT ![r] = "calling"]
    BY <1>2 DEF Acquire
  <2>2. Moves(r, "calling")
    BY <2>1 DEF Moves, TypeOK, Places
  <2>3. {q \in Requests : HoldsPermit(q)'} = Holders \cup {r}
    BY <2>1 DEF HoldsPermit, Holders, TypeOK
  <2>4. {q \in Requests : at'[q] = "queued"} = Queued
    BY <2>1 DEF Queued, TypeOK
  <2>5. Cardinality(Holders \cup {r}) = Cardinality(Holders) + 1
    BY <1>1, FS_AddElement
  <2>6. available' + Cardinality({q \in Requests : HoldsPermit(q)'}) = MaxConcurrent
    <3>1. available \in Nat /\ available' = available - 1
      BY <2>1 DEF TypeOK
    <3>2. available' + (Cardinality(Holders) + 1) = MaxConcurrent
      BY <1>1, <3>1
    <3> QED BY <2>3, <2>5, <3>2, Zenon
  <2>7. waiters = <<>>
    BY <1>1, <1>2
  <2>8. PermitsAccounted'
    BY <1>1, <2>1, <2>4, <2>6, <2>7 DEF PermitsAccounted
  <2>9. LimiterTypeOK'
    BY <1>2, <2>1 DEF LimiterTypeOK, TypeOK
  <2> QED BY <2>2, <2>8, <2>9
<1>3. CASE ~(available > 0)
  <2>1. /\ available' = available /\ waiters' = Append(waiters, r)
        /\ at' = [at EXCEPT ![r] = "queued"]
    BY <1>3 DEF Acquire
  <2>2. Moves(r, "queued")
    BY <2>1 DEF Moves, TypeOK, Places
  <2>3. {q \in Requests : HoldsPermit(q)'} = Holders
    BY <2>1 DEF HoldsPermit, Holders, TypeOK
  <2>4. {q \in Requests : at'[q] = "queued"} = Queued \cup {r}
    BY <2>1 DEF Queued, TypeOK
  <2>5. r \notin ToSet(waiters)
    BY <1>1 DEF Queued
  <2>6. /\ waiters' \in Seq(Requests) /\ NoRepeats(waiters')
        /\ ToSet(waiters') = ToSet(waiters) \cup {r}
    BY <1>1, <2>1, <2>5, Joining
  <2>7. available = 0
    BY <1>3 DEF TypeOK
  <2>8. IsInjective(waiters')
    BY <2>6, InjectiveMeansNoRepeats
  <2>9. PermitsAccounted'
    BY <1>1, <2>1, <2>3, <2>4, <2>6, <2>7, <2>8 DEF PermitsAccounted, Holders
  <2> QED BY <2>1, <2>2, <2>6, <2>9 DEF LimiterTypeOK, TypeOK
<1> QED BY <1>2, <1>3

\* A permit goes back: to the first who waits, or to the pool.
LEMMA ReturningKeepsPermits ==
  ASSUME TypeOK, PermitsAccounted, \A q \in Requests : Standing(q),
         NEW r \in Requests, NEW next \in {"idle", "gone"},
         HoldsPermit(r), ReturnPermit(r, next), kind' = kind
  PROVE  Moves(r, next) /\ LimiterTypeOK' /\ PermitsAccounted'
<1>1. /\ Cardinality(Holders) \in Nat /\ IsFiniteSet(Holders)
      /\ available + Cardinality(Holders) = MaxConcurrent
      /\ waiters # <<>> => available = 0
      /\ ToSet(waiters) = Queued
      /\ waiters \in Seq(Requests) /\ NoRepeats(waiters)
      /\ r \in Holders
  BY HoldersFinite, InjectiveMeansNoRepeats
     DEF PermitsAccounted, Holders, Queued, TypeOK
<1>2. /\ Cardinality(Holders \ {r}) = Cardinality(Holders) - 1
      /\ IsFiniteSet(Holders \ {r})
      /\ Cardinality(Holders) > 0
  <2>1. Cardinality(Holders \ {r}) = Cardinality(Holders) - 1 /\ IsFiniteSet(Holders \ {r})
    BY <1>1, FS_RemoveElement
  <2>2. Cardinality(Holders \ {r}) \in Nat
    BY <2>1, FS_CardinalityType
  <2> QED BY <1>1, <2>1, <2>2
<1>3. CASE waiters = <<>>
  <2>1. /\ available' = available + 1 /\ waiters' = waiters
        /\ at' = [at EXCEPT ![r] = next]
    BY <1>3 DEF ReturnPermit
  <2>2. Moves(r, next)
    BY <2>1 DEF Moves, TypeOK, Places
  <2>3. {q \in Requests : HoldsPermit(q)'} = Holders \ {r}
    BY <2>1 DEF HoldsPermit, Holders, TypeOK
  <2>4. {q \in Requests : at'[q] = "queued"} = Queued
    BY <1>1, <2>1 DEF Queued, Holders, HoldsPermit, TypeOK
  <2>5. available' \in 0 .. MaxConcurrent
        /\ available' + Cardinality(Holders \ {r}) = MaxConcurrent
    BY <1>1, <1>2, <2>1 DEF TypeOK
  <2>6. PermitsAccounted'
    BY <1>1, <1>3, <2>1, <2>3, <2>4, <2>5 DEF PermitsAccounted
  <2> QED BY <1>1, <2>1, <2>2, <2>5, <2>6 DEF LimiterTypeOK
<1>4. CASE waiters # <<>>
  <2> DEFINE w == Head(waiters)
  <2>1. /\ available' = available /\ waiters' = Tail(waiters)
        /\ at' = [at EXCEPT ![r] = next, ![w] = "calling"]
    BY <1>4 DEF ReturnPermit
  <2>2. /\ w \in ToSet(waiters)
        /\ waiters' \in Seq(Requests) /\ NoRepeats(waiters')
        /\ ToSet(waiters') = ToSet(waiters) \ {w}
    BY <1>1, <1>4, <2>1, Serving
  <2>3. w \in Requests /\ at[w] = "queued" /\ NeedsPermit(kind[w]) /\ w # r
    BY <1>1, <2>2 DEF Queued, Standing, Holders, HoldsPermit
  <2> HIDE DEF w
  <2>4. Moves(r, next)
    BY <2>1, <2>3 DEF Moves, Served, TypeOK, Places, w
  <2>5. {q \in Requests : HoldsPermit(q)'} = (Holders \ {r}) \cup {w}
    BY <2>1, <2>3 DEF HoldsPermit, Holders, TypeOK
  <2>6. {q \in Requests : at'[q] = "queued"} = Queued \ {w}
    BY <1>1, <2>1, <2>3 DEF Queued, Holders, HoldsPermit, TypeOK
  <2>7. w \notin Holders \ {r}
    BY <2>3 DEF Holders, HoldsPermit
  <2>8. Cardinality((Holders \ {r}) \cup {w}) = Cardinality(Holders)
    <3> DEFINE others == Holders \ {r}
    <3>1. Cardinality(others \cup {w}) = Cardinality(others) + 1
      <4> HIDE DEF others
      <4> QED BY <1>2, <2>7, FS_AddElement DEF others
    <3> QED BY <1>1, <1>2, <3>1
  <2>9. IsInjective(waiters')
    BY <2>2, InjectiveMeansNoRepeats
  <2>10. available' + Cardinality({q \in Requests : HoldsPermit(q)'}) = MaxConcurrent
    BY <1>1, <2>1, <2>5, <2>8
  <2>11. PermitsAccounted'
    BY <1>1, <1>4, <2>1, <2>2, <2>6, <2>9, <2>10 DEF PermitsAccounted
  <2> QED BY <2>1, <2>2, <2>4, <2>11 DEF LimiterTypeOK, TypeOK
<1> QED BY <1>3, <1>4

\* Dropped wherever it stands.
LEMMA VacatingKeepsPermits ==
  ASSUME TypeOK, PermitsAccounted, \A q \in Requests : Standing(q),
         NEW r \in Requests, NEW next \in {"idle", "gone"},
         Vacate(r, next), kind' = kind
  PROVE  Moves(r, next) /\ LimiterTypeOK' /\ PermitsAccounted'
<1>1. CASE HoldsPermit(r)
  BY <1>1, ReturningKeepsPermits DEF Vacate
<1>2. CASE ~HoldsPermit(r)
  <2>1. /\ available' = available /\ waiters' = RemoveFirst(waiters, r)
        /\ at' = [at EXCEPT ![r] = next]
    BY <1>2 DEF Vacate
  <2>2. Moves(r, next)
    BY <2>1 DEF Moves, TypeOK, Places
  <2>3. {q \in Requests : HoldsPermit(q)'} = {q \in Requests : HoldsPermit(q)}
    BY <1>2, <2>1 DEF HoldsPermit, TypeOK
  <2>4. {q \in Requests : at'[q] = "queued"} = Queued \ {r}
    BY <2>1 DEF Queued, TypeOK
  <2>5. waiters \in Seq(Requests) /\ NoRepeats(waiters)
    BY InjectiveMeansNoRepeats DEF TypeOK, PermitsAccounted
  <2>6. /\ waiters' \in Seq(Requests) /\ NoRepeats(waiters')
        /\ ToSet(waiters') = ToSet(waiters) \ {r}
    BY <2>1, <2>5, Leaving
  <2>7. IsInjective(waiters')
    BY <2>6, InjectiveMeansNoRepeats
  <2>8. waiters' # <<>> => available' = 0
    <3>1. waiters = <<>> => waiters' = <<>>
      BY <2>1, RemoveFirstAbsent
    <3> QED BY <2>1, <3>1 DEF PermitsAccounted
  <2>9. PermitsAccounted'
    BY <2>1, <2>3, <2>4, <2>6, <2>7, <2>8 DEF PermitsAccounted, Queued
  <2> QED BY <2>1, <2>2, <2>6, <2>9 DEF LimiterTypeOK, TypeOK
<1> QED BY <1>1, <1>2

-----------------------------------------------------------------------------
(***************************************************************************)
(* The steps.                                                              *)
(***************************************************************************)

\* try_reserve, reconcile and release on the running total.
LEMMA GuardStaysTyped ==
  ASSUME GuardTypeOK
  PROVE  /\ \A e \in Estimates : TryReserveOk(e) \/ TryReserveRefused(e) => GuardTypeOK'
         /\ \A e \in Nat, a \in Nat : Reconcile(e, a) => GuardTypeOK'
         /\ \A e \in Nat : Release(e) => GuardTypeOK'
         /\ GuardTick => GuardTypeOK'
         /\ UNCHANGED guard_vars => GuardTypeOK'
<1> USE CapAssumption, WindowAssumption DEF GuardTypeOK
<1>1. SpentNow \in Nat
  BY DEF SpentNow
<1>2. \A e \in Estimates : TryReserveOk(e) \/ TryReserveRefused(e) => GuardTypeOK'
  BY <1>1 DEF TryReserveOk, TryReserveRefused, OpenWindow, WindowExpired
<1>3. \A e \in Nat, a \in Nat : Reconcile(e, a) => GuardTypeOK'
  BY DEF Reconcile, Adjusted
<1>4. \A e \in Nat : Release(e) => GuardTypeOK'
  BY <1>3 DEF Release
<1>5. GuardTick => GuardTypeOK'
  BY DEF GuardTick, WindowExpired
<1>6. UNCHANGED guard_vars => GuardTypeOK'
  BY DEF guard_vars
<1> QED BY <1>2, <1>3, <1>4, <1>5, <1>6

\* What a step of r leaves alone.
Others(r) ==
  \A q \in Requests \ {r} :
    kind'[q] = kind[q] /\ est'[q] = est[q] /\ audit'[q] = audit[q]

\* The rest of the type invariant.
RecordsTypeOK ==
  /\ kind \in [Requests -> Kinds]
  /\ est \in [Requests -> Estimates \cup {NotHeld}]
  /\ audit \in [Requests -> Audits]
  /\ billed \subseteq Requests

\* A step of r keeps the invariant if r's own place, reservation and audit
\* task fit together after it: whoever gets its permit goes from one place
\* with a reservation to another.
LEMMA StepOf ==
  ASSUME IInv, NEW r \in Requests, NEW next,
         Moves(r, next), LimiterTypeOK', PermitsAccounted', GuardTypeOK',
         RecordsTypeOK', Others(r), Standing(r)'
  PROVE  IInv'
<1>1. ASSUME NEW q \in Requests PROVE Standing(q)'
  <2>1. CASE q = r
    BY <2>1
  <2>2. CASE q # r
    <3>1. /\ kind'[q] = kind[q] /\ est'[q] = est[q] /\ audit'[q] = audit[q]
          /\ at'[q] = at[q] \/ (at[q] = "queued" /\ at'[q] = "calling")
          /\ Standing(q)
      BY <2>2 DEF Others, Moves, Served, IInv
    <3> QED BY <3>1 DEF Standing, NeedsPermit
  <2> QED BY <2>1, <2>2
<1>2. TypeOK'
  BY DEF TypeOK, RecordsTypeOK, Moves, LimiterTypeOK
<1> QED BY <1>1, <1>2 DEF IInv

\* A request or a shadow is reserved for.
LEMMA AdmittingKeepsIInv ==
  ASSUME IInv, NEW r \in Requests, NEW k \in Kinds, NEW e \in Estimates,
         at[r] \in {"idle", "spawned"}, Admit(r, k, e)
  PROVE  IInv'
<1>1. TypeOK /\ PermitsAccounted /\ Standing(r)
  BY DEF IInv
<1>2. Moves(r, "reserved") /\ LimiterTypeOK' /\ PermitsAccounted'
  <2>1. HoldsPermit(r)' <=> HoldsPermit(r)
    BY <1>1 DEF Admit, MoveTo, HoldsPermit, TypeOK
  <2>2. MoveTo(r, "reserved") /\ kind' = [kind EXCEPT ![r] = k]
    BY DEF Admit
  <2> QED BY <1>1, <2>1, <2>2, MovingKeepsPermits DEF TypeOK, Places
<1>3. GuardTypeOK'
  BY <1>1, GuardStaysTyped DEF Admit, TypeOK
<1>4. RecordsTypeOK' /\ Others(r)
  BY <1>1 DEF Admit, RecordsTypeOK, Others, TypeOK
<1>5. Standing(r)'
  <2>1. audit[r] = "none"
    BY <1>1 DEF Standing, TypeOK, Audits
  <2>2. at'[r] = "reserved" /\ est'[r] = e /\ audit'[r] = "none" /\ e # NotHeld
    BY <1>1, <2>1 DEF Admit, MoveTo, TypeOK
  <2> QED BY <2>2 DEF Standing
<1> QED BY <1>2, <1>3, <1>4, <1>5, StepOf

\* A step of r that takes no permit and gives none back.
LEMMA MovingKeepsIInv ==
  ASSUME IInv, NEW r \in Requests, NEW next \in Places \ {"queued"},
         at[r] # "queued", MoveTo(r, next), kind' = kind,
         HoldsPermit(r)' <=> HoldsPermit(r),
         NEW h \in Estimates \cup {NotHeld}, est' = [est EXCEPT ![r] = h],
         NEW a \in Audits, audit' = [audit EXCEPT ![r] = a],
         billed' \subseteq Requests, GuardTypeOK', Standing(r)'
  PROVE  IInv'
<1>1. TypeOK /\ PermitsAccounted
  BY DEF IInv
<1>2. Moves(r, next) /\ LimiterTypeOK' /\ PermitsAccounted'
  BY <1>1, MovingKeepsPermits DEF TypeOK
<1>3. RecordsTypeOK' /\ Others(r)
  BY <1>1 DEF RecordsTypeOK, Others, TypeOK
<1> QED BY <1>2, <1>3, StepOf

\* What the settling of a reservation at place `next` comes to.
LEMMA SettlingKeepsIInv ==
  ASSUME IInv, NEW r \in Requests, NEW next \in {"idle", "returning"},
         at[r] \in {"reserved", "calling", "reading"}, audit[r] = "none",
         MoveTo(r, next), Done(r), HoldsPermit(r) <=> next = "returning",
         GuardTypeOK'
  PROVE  IInv'
<1>1. TypeOK /\ Standing(r)
  BY DEF IInv
<1>2. /\ kind' = kind /\ est' = [est EXCEPT ![r] = NotHeld]
      /\ audit' = [audit EXCEPT ![r] = "none"]
      /\ billed' \subseteq Requests
  BY <1>1 DEF Done, TypeOK
<1>3. at'[r] = next /\ est'[r] = NotHeld /\ audit'[r] = "none" /\ kind'[r] = kind[r]
  BY <1>1, <1>2 DEF MoveTo, TypeOK
<1>4. HoldsPermit(r)' <=> HoldsPermit(r)
  BY <1>3 DEF HoldsPermit
<1>5. Standing(r)'
  BY <1>3 DEF Standing, HoldsPermit
<1>6. "none" \in Audits /\ next \in Places \ {"queued"}
  BY DEF Audits, Places
<1> QED BY <1>2, <1>4, <1>5, <1>6, MovingKeepsIInv

\* From a reservation to the provider and back, by the request's own handler.
LEMMA HandlerStepKeepsIInv ==
  ASSUME IInv, NEW r \in Requests,
         \/ ShadowUnroutable(r) \/ Unroutable(r) \/ SendNatively(r) \/ SpawnAudit(r)
         \/ Answer(r) \/ StreamEnds(r) \/ CallFails(r) \/ NativeFails(r)
         \/ \E e \in Estimates : ShadowRefused(r, e)
         \/ \E actual \in Actuals : CallOk(r, actual) \/ NativeEnds(r, actual)
  PROVE  IInv'
<1>1. TypeOK /\ Standing(r) /\ GuardTypeOK
  BY DEF IInv, TypeOK
<1> DEFINE k == kind[r]
<1>2. est[r] # NotHeld => est[r] \in Nat
  BY <1>1 DEF TypeOK
<1>3. CASE ShadowUnroutable(r) \/ \E e \in Estimates : ShadowRefused(r, e)
  <2>1. /\ at[r] = "spawned" /\ MoveTo(r, "idle")
        /\ kind' = kind /\ est' = est /\ audit' = audit /\ billed' = billed
    BY <1>3 DEF ShadowUnroutable, ShadowRefused
  <2>2. GuardTypeOK'
    BY <1>1, <1>3, GuardStaysTyped DEF ShadowUnroutable, ShadowRefused
  <2>3. at'[r] = "idle" /\ audit[r] = "none" /\ est[r] = NotHeld
    BY <1>1, <2>1 DEF MoveTo, Standing, TypeOK, Audits
  <2>4. Standing(r)' /\ (HoldsPermit(r)' <=> HoldsPermit(r))
    BY <2>1, <2>3 DEF Standing, HoldsPermit
  <2> QED BY <1>1, <2>1, <2>2, <2>4, MovingKeepsIInv DEF TypeOK, Places
<1>4. CASE Unroutable(r)
  <2>1. /\ at[r] = "reserved" /\ MoveTo(r, "idle") /\ Done(r) /\ Release(est[r])
        /\ audit[r] = "none" /\ est[r] # NotHeld
    BY <1>1, <1>4 DEF Unroutable, Standing, TypeOK, Audits
  <2>2. GuardTypeOK'
    BY <1>1, <1>2, <2>1, GuardStaysTyped
  <2> QED BY <2>1, <2>2, SettlingKeepsIInv DEF HoldsPermit
<1>5. CASE CallFails(r) \/ \E actual \in Actuals : CallOk(r, actual)
  <2>1. /\ at[r] \in {"calling", "reading"} /\ k \in {"chat", "shadow"}
        /\ MoveTo(r, "returning") /\ Done(r)
        /\ audit[r] = "none" /\ est[r] # NotHeld
    BY <1>1, <1>5 DEF CallFails, CallOk, Standing, TypeOK, Audits
  <2>2. GuardTypeOK'
    BY <1>1, <1>2, <1>5, <2>1, GuardStaysTyped DEF CallFails, CallOk
  <2> QED BY <2>1, <2>2, SettlingKeepsIInv DEF HoldsPermit, NeedsPermit
<1>6. CASE NativeFails(r) \/ \E actual \in Actuals : NativeEnds(r, actual)
  <2>1. /\ at[r] \in {"calling", "reading"} /\ ~NeedsPermit(k)
        /\ MoveTo(r, "idle") /\ Done(r)
        /\ audit[r] = "none" /\ est[r] # NotHeld
    BY <1>1, <1>6 DEF NativeFails, NativeEnds, Standing, TypeOK, Audits, NeedsPermit
  <2>2. GuardTypeOK'
    BY <1>1, <1>2, <1>6, <2>1, GuardStaysTyped DEF NativeFails, NativeEnds
  <2> QED BY <2>1, <2>2, SettlingKeepsIInv DEF HoldsPermit
<1>7. CASE SendNatively(r) \/ Answer(r)
  <2>1. PICK next \in {"calling", "reading"} :
          /\ MoveTo(r, next) /\ kind' = kind /\ est' = est /\ audit' = audit
          /\ billed' \subseteq Requests /\ UNCHANGED guard_vars
          /\ \/ at[r] = "reserved" /\ ~NeedsPermit(k)
             \/ at[r] = "calling" /\ next = "reading"
    BY <1>1, <1>7 DEF SendNatively, Answer, TypeOK
  <2>2. GuardTypeOK'
    BY <1>1, <2>1, GuardStaysTyped
  <2>3. at'[r] = next
    BY <1>1, <2>1 DEF MoveTo, TypeOK
  <2>4. Standing(r)' /\ (HoldsPermit(r)' <=> HoldsPermit(r))
    BY <1>1, <2>1, <2>3 DEF Standing, HoldsPermit, NeedsPermit
  <2> QED BY <1>1, <2>1, <2>2, <2>4, MovingKeepsIInv DEF TypeOK, Places
<1>8. CASE SpawnAudit(r)
  <2>1. /\ at[r] = "reserved" /\ k = "stream" /\ MoveTo(r, "preparing")
        /\ kind' = kind /\ est' = est /\ audit' = [audit EXCEPT ![r] = "waiting"]
        /\ billed' = billed /\ UNCHANGED guard_vars
    BY <1>8 DEF SpawnAudit
  <2>2. GuardTypeOK'
    BY <1>1, <2>1, GuardStaysTyped
  <2>3. at'[r] = "preparing" /\ audit'[r] = "waiting"
    BY <1>1, <2>1 DEF MoveTo, TypeOK
  <2>4. Standing(r)' /\ (HoldsPermit(r)' <=> HoldsPermit(r))
    BY <1>1, <2>1, <2>3 DEF Standing, HoldsPermit
  <2> QED BY <1>1, <2>1, <2>2, <2>4, MovingKeepsIInv DEF TypeOK, Places, Audits
<1>9. CASE StreamEnds(r)
  <2>1. /\ at[r] = "reading" /\ k = "stream" /\ MoveTo(r, "returning")
        /\ kind' = kind /\ est' = est /\ audit' = [audit EXCEPT ![r] = "payload"]
        /\ billed' = billed /\ UNCHANGED guard_vars
    BY <1>9 DEF StreamEnds
  <2>2. GuardTypeOK'
    BY <1>1, <2>1, GuardStaysTyped
  <2>3. at'[r] = "returning" /\ audit'[r] = "payload"
    BY <1>1, <2>1 DEF MoveTo, TypeOK
  <2>4. Standing(r)' /\ (HoldsPermit(r)' <=> HoldsPermit(r))
    BY <1>1, <2>1, <2>3 DEF Standing, HoldsPermit, NeedsPermit
  <2> QED BY <1>1, <2>1, <2>2, <2>4, MovingKeepsIInv DEF TypeOK, Places, Audits
<1> QED BY <1>3, <1>4, <1>5, <1>6, <1>7, <1>8, <1>9

\* The handler or generator asks for its permit.
LEMMA AcquiringKeepsIInv ==
  ASSUME IInv, NEW r \in Requests, Enqueue(r) \/ StartStream(r)
  PROVE  IInv'
<1>1. TypeOK /\ PermitsAccounted /\ Standing(r)
  BY DEF IInv
<1>2. /\ Acquire(r) /\ at[r] \in {"reserved", "preparing"} /\ NeedsPermit(kind[r])
      /\ kind' = kind /\ est' = est /\ audit' = audit /\ billed' = billed
      /\ UNCHANGED guard_vars
  BY <1>1 DEF Enqueue, StartStream, Standing, NeedsPermit
<1>3. PICK next \in {"queued", "calling"} :
        Moves(r, next) /\ LimiterTypeOK' /\ PermitsAccounted'
  BY <1>1, <1>2, AcquiringKeepsPermits
<1>4. RecordsTypeOK' /\ Others(r) /\ GuardTypeOK'
  BY <1>1, <1>2, GuardStaysTyped DEF RecordsTypeOK, Others, TypeOK
<1>5. kind[r] = "stream" => at[r] = "preparing" /\ audit[r] = "waiting"
  BY <1>1, <1>2 DEF Enqueue, StartStream, Standing
<1>6. Standing(r)'
  <2>1. at'[r] = next
    BY <1>3 DEF Moves
  <2> QED BY <1>1, <1>2, <1>5, <2>1 DEF Standing, NeedsPermit
<1> QED BY <1>3, <1>4, <1>6, StepOf

\* A call returns, or a handler or generator is dropped where it stands.
LEMMA VacatingKeepsIInv ==
  ASSUME IInv, NEW r \in Requests, NEW next \in {"idle", "gone"},
         Vacate(r, next), kind' = kind,
         RecordsTypeOK', GuardTypeOK', Others(r), at'[r] = next => Standing(r)'
  PROVE  IInv'
<1>1. TypeOK /\ PermitsAccounted /\ \A q \in Requests : Standing(q)
  BY DEF IInv
<1>2. Moves(r, next) /\ LimiterTypeOK' /\ PermitsAccounted'
  BY <1>1, VacatingKeepsPermits
<1>3. Standing(r)'
  BY <1>2 DEF Moves
<1> QED BY <1>2, <1>3, StepOf

LEMMA ReturningKeepsIInv ==
  ASSUME IInv, NEW r \in Requests, Return(r)
  PROVE  IInv'
<1>1. TypeOK /\ Standing(r)
  BY DEF IInv
<1>2. /\ Vacate(r, "idle") /\ at[r] = "returning" /\ kind[r] \in {"chat", "shadow"}
      /\ kind' = kind /\ est' = est /\ audit' = audit /\ billed' = billed
      /\ UNCHANGED guard_vars
  BY DEF Return
<1>3. RecordsTypeOK' /\ GuardTypeOK' /\ Others(r)
  BY <1>1, <1>2, GuardStaysTyped DEF RecordsTypeOK, Others, TypeOK
<1>4. at'[r] = "idle" => Standing(r)'
  BY <1>1, <1>2 DEF Standing
<1> QED BY <1>2, <1>3, <1>4, VacatingKeepsIInv

LEMMA HandlerDroppedKeepsIInv ==
  ASSUME IInv, NEW r \in Requests, HandlerDropped(r)
  PROVE  IInv'
<1>1. TypeOK /\ Standing(r)
  BY DEF IInv
<1>2. /\ Vacate(r, "idle") /\ kind[r] \in {"chat", "messages", "messages_stream"}
      /\ kind' = kind /\ est' = [est EXCEPT ![r] = NotHeld] /\ audit' = audit
      /\ billed' = billed \ {r} /\ UNCHANGED guard_vars
  BY DEF HandlerDropped, Done
<1>3. RecordsTypeOK' /\ GuardTypeOK' /\ Others(r)
  BY <1>1, <1>2, GuardStaysTyped DEF RecordsTypeOK, Others, TypeOK
<1>4. est'[r] = NotHeld /\ audit'[r] = "none"
  BY <1>1, <1>2 DEF Standing, TypeOK
<1>5. at'[r] = "idle" => Standing(r)'
  BY <1>4 DEF Standing
<1> QED BY <1>2, <1>3, <1>5, VacatingKeepsIInv

LEMMA GeneratorLeavingKeepsIInv ==
  ASSUME IInv, NEW r \in Requests, StreamLeaves(r) \/ GeneratorDropped(r)
  PROVE  IInv'
<1>1. TypeOK /\ Standing(r)
  BY DEF IInv
<1> DEFINE next == IF audit[r] = "none" THEN "idle" ELSE "gone"
           left == IF audit[r] = "waiting" THEN "closed" ELSE audit[r]
<1>2. /\ Vacate(r, next) /\ InGenerator(r)
      /\ kind' = kind /\ est' = est /\ audit' = [audit EXCEPT ![r] = left]
      /\ billed' = billed /\ UNCHANGED guard_vars
  BY DEF StreamLeaves, GeneratorDropped, DropGenerator
<1>3. RecordsTypeOK' /\ GuardTypeOK' /\ Others(r)
  BY <1>1, <1>2, GuardStaysTyped DEF RecordsTypeOK, Others, TypeOK, Audits
<1>4. audit'[r] = left /\ est'[r] = est[r] /\ kind'[r] = "stream"
  BY <1>1, <1>2 DEF TypeOK, InGenerator
<1>5. audit[r] = "none" => est[r] = NotHeld
  BY <1>1, <1>2 DEF Standing, InGenerator
<1>6. at'[r] = next => Standing(r)'
  BY <1>1, <1>4, <1>5 DEF Standing, TypeOK, Audits
<1>7. next \in {"idle", "gone"}
  OBVIOUS
<1> HIDE DEF next
<1> QED BY <1>2, <1>3, <1>6, <1>7, VacatingKeepsIInv

\* The audit task settles what its stream reserved.
LEMMA AuditKeepsIInv ==
  ASSUME IInv, NEW r \in Requests, AuditStep(r)
  PROVE  IInv'
<1>1. TypeOK /\ Standing(r) /\ GuardTypeOK
  BY DEF IInv, TypeOK
<1> DEFINE next == IF at[r] = "gone" THEN "idle" ELSE at[r]
<1>2. /\ audit[r] \in {"payload", "closed"} /\ AuditDone(r)
      /\ \/ \E actual \in Actuals : Reconcile(est[r], actual)
         \/ Release(est[r])
  BY DEF AuditStep, AuditReconciles, AuditReleases
<1>3. at[r] \in {"returning", "gone"} /\ est[r] \in Nat
  BY <1>1, <1>2 DEF Standing, TypeOK
<1>4. GuardTypeOK'
  BY <1>1, <1>2, <1>3, GuardStaysTyped
<1>5. /\ MoveTo(r, next) /\ kind' = kind
      /\ est' = [est EXCEPT ![r] = NotHeld] /\ audit' = [audit EXCEPT ![r] = "none"]
      /\ billed' \subseteq Requests
  BY <1>1, <1>2 DEF AuditDone, MoveTo, TypeOK
<1>6. /\ at'[r] = next /\ est'[r] = NotHeld /\ audit'[r] = "none" /\ kind'[r] = kind[r]
  BY <1>1, <1>5 DEF MoveTo, TypeOK
<1>7. Standing(r)' /\ (HoldsPermit(r)' <=> HoldsPermit(r))
  BY <1>1, <1>3, <1>6 DEF Standing, HoldsPermit
<1>8. next \in Places \ {"queued"} /\ at[r] # "queued" /\ "none" \in Audits
  BY <1>3 DEF Places, Audits
<1> HIDE DEF next
<1> QED BY <1>4, <1>5, <1>7, <1>8, MovingKeepsIInv

\* A chat request that spawns a shadow: the one step of two requests.
LEMMA SpawningKeepsIInv ==
  ASSUME IInv, NEW r \in Requests, NEW s \in Requests, NEW actual \in Actuals,
         CallOkWithShadow(r, s, actual)
  PROVE  IInv'
<1>1. TypeOK /\ PermitsAccounted /\ Standing(r) /\ Standing(s) /\ GuardTypeOK
  BY DEF IInv, TypeOK
<1>2. /\ at[r] = "reading" /\ kind[r] = "chat" /\ at[s] = "idle" /\ r # s
      /\ at' = [at EXCEPT ![r] = "returning", ![s] = "spawned"]
      /\ kind' = [kind EXCEPT ![s] = "shadow"] /\ est' = [est EXCEPT ![r] = NotHeld]
      /\ billed' = billed \ {r} /\ audit' = audit
      /\ available' = available /\ waiters' = waiters
      /\ Reconcile(est[r], actual)
  BY DEF CallOkWithShadow, limiter_vars
<1>3. audit[r] = "none" /\ audit[s] = "none" /\ est[s] = NotHeld /\ est[r] \in Nat
  BY <1>1, <1>2 DEF Standing, TypeOK, Audits
<1>4. GuardTypeOK'
  BY <1>1, <1>2, <1>3, GuardStaysTyped
<1>5. TypeOK'
  BY <1>1, <1>2, <1>4 DEF TypeOK, Places, Kinds
<1>6. ASSUME NEW q \in Requests PROVE Standing(q)'
  <2>1. CASE q = r
    BY <1>1, <1>2, <1>3, <2>1 DEF Standing, TypeOK, NeedsPermit
  <2>2. CASE q = s
    BY <1>1, <1>2, <1>3, <2>2 DEF Standing, TypeOK
  <2>3. CASE q # r /\ q # s
    <3>1. /\ at'[q] = at[q] /\ kind'[q] = kind[q] /\ est'[q] = est[q]
          /\ audit'[q] = audit[q] /\ Standing(q)
      BY <1>1, <1>2, <2>3 DEF TypeOK, IInv
    <3> QED BY <3>1 DEF Standing, NeedsPermit
  <2> QED BY <2>1, <2>2, <2>3
<1>7. {q \in Requests : HoldsPermit(q)'} = {q \in Requests : HoldsPermit(q)}
  BY <1>1, <1>2 DEF HoldsPermit, NeedsPermit, TypeOK
<1>8. {q \in Requests : at'[q] = "queued"} = {q \in Requests : at[q] = "queued"}
  BY <1>1, <1>2 DEF TypeOK
<1>9. PermitsAccounted'
  BY <1>1, <1>2, <1>7, <1>8 DEF PermitsAccounted
<1> QED BY <1>5, <1>6, <1>9 DEF IInv

\* Nothing happens to requests: a refusal, the passing of time, a stutter.
LEMMA IdlingKeepsIInv ==
  ASSUME IInv, UNCHANGED gateway_vars, GuardTypeOK'
  PROVE  IInv'
<1>1. TypeOK' /\ PermitsAccounted'
  BY DEF IInv, TypeOK, PermitsAccounted, gateway_vars, HoldsPermit
<1>2. \A q \in Requests : Standing(q)'
  BY DEF IInv, Standing, gateway_vars
<1> QED BY <1>1, <1>2 DEF IInv

LEMMA InitIInv == Init => IInv
<1> SUFFICES ASSUME Init PROVE IInv
  OBVIOUS
<1>1. TypeOK
  BY CapAssumption, WindowAssumption DEF Init, TypeOK, GuardInit, GuardTypeOK, Kinds, Places, Audits
<1>2. {r \in Requests : HoldsPermit(r)} = {} /\ {r \in Requests : at[r] = "queued"} = {}
  BY DEF Init, HoldsPermit
<1>3. ToSet(<<>>) = {} /\ IsInjective(<<>>) /\ <<>> \in Seq(Requests)
  <2>1. <<>> \in Seq(Requests)
    OBVIOUS
  <2> QED BY <2>1, EmptyQueue, InjectiveMeansNoRepeats
<1>4. MaxConcurrent + Cardinality({}) = MaxConcurrent
  BY FS_EmptySet
<1>5. PermitsAccounted
  BY <1>2, <1>3, <1>4 DEF Init, PermitsAccounted
<1>6. \A r \in Requests : Standing(r)
  BY DEF Init, Standing
<1> QED BY <1>1, <1>5, <1>6 DEF IInv

LEMMA NextIInv == IInv /\ [Next]_vars => IInv'
<1> SUFFICES ASSUME IInv, [Next]_vars PROVE IInv'
  OBVIOUS
<1>1. GuardTypeOK
  BY DEF IInv, TypeOK
<1>2. ASSUME NEW r \in Requests, Traffic(r) PROVE IInv'
  <2>1. ASSUME NEW e \in Estimates, NEW k \in Kinds, Arrive(r, k, e) PROVE IInv'
    BY <2>1, AdmittingKeepsIInv DEF Arrive
  <2>2. ASSUME NEW e \in Estimates, Refuse(r, e) PROVE IInv'
    BY <1>1, <2>2, GuardStaysTyped, IdlingKeepsIInv DEF Refuse
  <2> QED BY <1>2, <2>1, <2>2 DEF Traffic
<1>3. ASSUME NEW r \in Requests, HandlerStep(r) PROVE IInv'
  <2>1. ASSUME NEW e \in Estimates, ShadowReserves(r, e) PROVE IInv'
    BY <2>1, AdmittingKeepsIInv DEF ShadowReserves, Kinds
  <2>2. ASSUME NEW s \in Requests, NEW actual \in Actuals, CallOkWithShadow(r, s, actual)
        PROVE IInv'
    BY <2>2, SpawningKeepsIInv
  <2> QED
    BY <1>3, <2>1, <2>2, HandlerStepKeepsIInv, AcquiringKeepsIInv, ReturningKeepsIInv,
       GeneratorLeavingKeepsIInv DEF HandlerStep
<1>4. ASSUME NEW r \in Requests, AuditStep(r) PROVE IInv'
  BY <1>4, AuditKeepsIInv
<1>5. ASSUME NEW r \in Requests, Dropped(r) PROVE IInv'
  BY <1>5, HandlerDroppedKeepsIInv, GeneratorLeavingKeepsIInv DEF Dropped
<1>6. CASE Tick
  BY <1>1, <1>6, GuardStaysTyped, IdlingKeepsIInv DEF Tick
<1>7. CASE UNCHANGED vars
  BY <1>1, <1>7, GuardStaysTyped, IdlingKeepsIInv DEF vars
<1> QED BY <1>2, <1>3, <1>4, <1>5, <1>6, <1>7 DEF Next

\* The inductive invariant holds in every reachable state.
THEOREM IInvHolds == Spec => []IInv
  BY InitIInv, NextIInv, PTL DEF Spec

\* Every variable keeps its type: in particular no more permits are ever out
\* than there are, and the running total never falls below zero.
THEOREM TypeCorrect == Spec => []TypeOK
<1>1. IInv => TypeOK BY DEF IInv
<1> QED BY <1>1, IInvHolds, PTL

\* Whatever is dropped wherever, for any number of requests: permits are
\* neither lost nor forged, and the queue holds exactly those who wait.
THEOREM PermitsHold == Spec => []PermitsAccounted
<1>1. IInv => PermitsAccounted BY DEF IInv
<1> QED BY <1>1, IInvHolds, PTL

-----------------------------------------------------------------------------
(***************************************************************************)
(* Who is served, what is settled, and the ledger.                         *)
(***************************************************************************)

\* A step that gets r out of the queue is r's own, or serves the first.
LEMMA OnlyTheFirstIsServed ==
  ASSUME IInv, Next, NEW r \in Requests, at[r] = "queued", at'[r] = "calling"
  PROVE  r = Head(waiters)
<1>1. TypeOK /\ PermitsAccounted /\ \A p \in Requests : Standing(p)
  BY DEF IInv
<1>2. ASSUME NEW q \in Requests, NEW next \in Places \ {"calling"}, Moves(q, next)
      PROVE  r = Head(waiters)
  BY <1>2 DEF Moves, Served
<1>3. ASSUME NEW q \in Requests, Enqueue(q) \/ StartStream(q)
      PROVE  r = Head(waiters)
  <2>1. at[q] # "queued" /\ \E next \in Places : at' = [at EXCEPT ![q] = next]
    BY <1>3 DEF Enqueue, StartStream, Acquire, Places
  <2> QED BY <1>1, <2>1 DEF TypeOK
<1>4. ASSUME NEW q \in Requests, NEW next \in {"idle", "gone"}, Vacate(q, next), kind' = kind
      PROVE  r = Head(waiters)
  BY <1>1, <1>2, <1>4, VacatingKeepsPermits DEF Places
<1>5. ASSUME NEW q \in Requests, NEW next, at[q] # "queued", at' = [at EXCEPT ![q] = next]
      PROVE  r = Head(waiters)
  BY <1>1, <1>5 DEF TypeOK
<1>6. ASSUME at' = at PROVE r = Head(waiters)
  BY <1>6
<1>7. ASSUME NEW q \in Requests, HandlerStep(q) PROVE r = Head(waiters)
  <2>1. CASE \E e \in Estimates : ShadowReserves(q, e) \/ ShadowRefused(q, e)
    BY <1>5, <2>1 DEF ShadowReserves, ShadowRefused, Admit, MoveTo
  <2>2. CASE \/ ShadowUnroutable(q) \/ Unroutable(q) \/ SendNatively(q) \/ SpawnAudit(q)
             \/ Answer(q) \/ CallFails(q) \/ NativeFails(q) \/ StreamEnds(q)
    BY <1>5, <2>2 DEF ShadowUnroutable, Unroutable, SendNatively, SpawnAudit, Answer,
                      CallFails, NativeFails, StreamEnds, MoveTo
  <2>3. CASE \E actual \in Actuals : CallOk(q, actual) \/ NativeEnds(q, actual)
    BY <1>5, <2>3 DEF CallOk, NativeEnds, MoveTo
  <2>4. ASSUME NEW s \in Requests, NEW actual \in Actuals, CallOkWithShadow(q, s, actual)
        PROVE  r = Head(waiters)
    <3>1. at[q] = "reading" /\ at[s] = "idle"
          /\ at' = [at EXCEPT ![q] = "returning", ![s] = "spawned"]
      BY <2>4 DEF CallOkWithShadow
    <3> QED BY <1>1, <3>1 DEF TypeOK
  <2>5. CASE Return(q) \/ StreamLeaves(q)
    BY <1>4, <2>5 DEF Return, StreamLeaves, DropGenerator
  <2> QED BY <1>3, <1>7, <2>1, <2>2, <2>3, <2>4, <2>5 DEF HandlerStep
<1>8. ASSUME NEW q \in Requests, AuditStep(q) PROVE r = Head(waiters)
  <2>1. at[q] # "queued"
    BY <1>1, <1>8 DEF AuditStep, AuditReconciles, AuditReleases, Standing
  <2>2. \E next : at' = [at EXCEPT ![q] = next]
    BY <1>8 DEF AuditStep, AuditReconciles, AuditReleases, AuditDone
  <2> QED BY <1>5, <2>1, <2>2
<1>9. ASSUME NEW q \in Requests, Dropped(q) PROVE r = Head(waiters)
  BY <1>4, <1>9 DEF Dropped, HandlerDropped, GeneratorDropped, DropGenerator, Done
<1>10. ASSUME NEW q \in Requests, Traffic(q) PROVE r = Head(waiters)
  <2>1. CASE \E e \in Estimates, k \in Kinds : Arrive(q, k, e)
    BY <1>5, <2>1 DEF Arrive, Admit, MoveTo
  <2>2. CASE \E e \in Estimates : Refuse(q, e)
    BY <1>6, <2>2 DEF Refuse, gateway_vars
  <2> QED BY <1>10, <2>1, <2>2 DEF Traffic
<1> QED BY <1>6, <1>7, <1>8, <1>9, <1>10 DEF Next, Tick, gateway_vars

\* Requests are served in the order they queued in, whoever leaves the queue.
THEOREM ServiceInOrder == Spec => ServedInOrder
<1>1. IInv /\ [Next]_vars
        => [\A r \in Requests : at[r] = "queued" /\ at'[r] = "calling" => r = Head(waiters)]_vars
  BY OnlyTheFirstIsServed
<1> QED BY <1>1, IInvHolds, PTL DEF Spec, ServedInOrder

\* What becomes of a reservation in one step.
LEMMA ReservationSteps ==
  ASSUME IInv, Next
  PROVE  \/ est' = est /\ UNCHANGED guard_vars
         \/ est' = est /\ GuardTick
         \/ \E r \in Requests, e \in Estimates :
              /\ est[r] = NotHeld
              /\ \/ TryReserveOk(e) /\ est' = [est EXCEPT ![r] = e]
                 \/ TryReserveRefused(e) /\ est' = est
         \/ \E r \in Requests :
              /\ est[r] # NotHeld /\ est' = [est EXCEPT ![r] = NotHeld]
              /\ \/ \E actual \in Actuals : Reconcile(est[r], actual)
                 \/ Release(est[r])
                 \/ UNCHANGED guard_vars /\ kind[r] \notin {"stream", "shadow"}
<1>1. ASSUME NEW r \in Requests PROVE Standing(r) /\ TypeOK
  BY DEF IInv
<1>2. ASSUME NEW r \in Requests, NEW e \in Estimates, NEW k \in Kinds,
             Arrive(r, k, e) \/ ShadowReserves(r, e)
      PROVE  est[r] = NotHeld /\ TryReserveOk(e) /\ est' = [est EXCEPT ![r] = e]
  BY <1>1, <1>2 DEF Arrive, ShadowReserves, Admit, Standing, TypeOK, Audits
<1>3. ASSUME NEW r \in Requests, NEW e \in Estimates, Refuse(r, e) \/ ShadowRefused(r, e)
      PROVE  est[r] = NotHeld /\ TryReserveRefused(e) /\ est' = est
  BY <1>1, <1>3 DEF Refuse, ShadowRefused, Standing, TypeOK, Audits, gateway_vars
<1>4. ASSUME NEW r \in Requests,
             \/ ShadowUnroutable(r) \/ Enqueue(r) \/ SendNatively(r) \/ SpawnAudit(r)
             \/ StartStream(r) \/ Answer(r) \/ Return(r) \/ StreamEnds(r)
             \/ StreamLeaves(r) \/ GeneratorDropped(r)
      PROVE  est' = est /\ UNCHANGED guard_vars
  BY <1>4 DEF ShadowUnroutable, Enqueue, SendNatively, SpawnAudit, StartStream, Answer,
              Return, StreamEnds, StreamLeaves, GeneratorDropped, DropGenerator
<1>5. ASSUME NEW r \in Requests,
             \/ Unroutable(r) \/ CallFails(r) \/ NativeFails(r) \/ AuditStep(r)
             \/ \E actual \in Actuals :
                  \/ CallOk(r, actual) \/ NativeEnds(r, actual)
                  \/ \E s \in Requests : CallOkWithShadow(r, s, actual)
      PROVE  /\ est[r] # NotHeld /\ est' = [est EXCEPT ![r] = NotHeld]
             /\ (\E actual \in Actuals : Reconcile(est[r], actual)) \/ Release(est[r])
  <2>1. est[r] # NotHeld
    BY <1>1, <1>5 DEF Standing, Unroutable, CallFails, NativeFails, CallOk, NativeEnds,
                      CallOkWithShadow, AuditStep, AuditReconciles, AuditReleases
  <2> QED BY <1>5, <2>1 DEF Unroutable, CallFails, NativeFails, CallOk, NativeEnds, Done,
                            CallOkWithShadow, AuditStep, AuditReconciles, AuditReleases, AuditDone
<1>6. ASSUME NEW r \in Requests, HandlerDropped(r)
      PROVE  /\ est[r] # NotHeld /\ est' = [est EXCEPT ![r] = NotHeld]
             /\ UNCHANGED guard_vars /\ kind[r] \notin {"stream", "shadow"}
  BY <1>1, <1>6 DEF HandlerDropped, Done, Standing
<1>7. ASSUME NEW r \in Requests, HandlerStep(r) PROVE
         \/ est' = est /\ UNCHANGED guard_vars
         \/ \E e \in Estimates :
              /\ est[r] = NotHeld
              /\ \/ TryReserveOk(e) /\ est' = [est EXCEPT ![r] = e]
                 \/ TryReserveRefused(e) /\ est' = est
         \/ /\ est[r] # NotHeld /\ est' = [est EXCEPT ![r] = NotHeld]
            /\ (\E actual \in Actuals : Reconcile(est[r], actual)) \/ Release(est[r])
  BY <1>2, <1>3, <1>4, <1>5, <1>7 DEF HandlerStep, Kinds
<1>8. ASSUME NEW r \in Requests, Traffic(r) PROVE
         \E e \in Estimates :
              /\ est[r] = NotHeld
              /\ \/ TryReserveOk(e) /\ est' = [est EXCEPT ![r] = e]
                 \/ TryReserveRefused(e) /\ est' = est
  BY <1>2, <1>3, <1>8 DEF Traffic
<1>9. CASE Tick
  BY <1>9 DEF Tick, gateway_vars
<1>10. CASE \E r \in Requests : Traffic(r)
  BY <1>8, <1>10
<1>11. CASE \E r \in Requests : HandlerStep(r)
  BY <1>7, <1>11
<1>12. CASE \E r \in Requests : AuditStep(r)
  BY <1>5, <1>12
<1>13. CASE \E r \in Requests : Dropped(r)
  BY <1>4, <1>6, <1>13 DEF Dropped
<1> QED BY <1>9, <1>10, <1>11, <1>12, <1>13 DEF Next

\* Every handler, generator and task, dropped or not, reserves before the
\* provider is called and settles at most once, with what it reserved.
THEOREM LedgerImplemented == Spec => ImplementsLedger
<1>1. Init => Ledger!LedgerInit
  BY DEF Init, Ledger!LedgerInit, GuardInit, Ledger!GuardInit
<1>2. IInv /\ [Next]_vars => [Ledger!LedgerNext]_(Ledger!ledger_vars)
  <2> SUFFICES ASSUME IInv, [Next]_vars
               PROVE  Ledger!LedgerNext \/ UNCHANGED Ledger!ledger_vars
    OBVIOUS
  <2> USE DEF Ledger!ledger_vars, Ledger!guard_vars, guard_vars
  <2>1. CASE UNCHANGED vars
    BY <2>1 DEF vars, gateway_vars
  <2>2. CASE est' = est /\ UNCHANGED guard_vars
    BY <2>2
  <2>3. CASE est' = est /\ GuardTick
    BY <2>3 DEF Ledger!LedgerNext, Ledger!LedgerTick, Ledger!GuardTick, GuardTick,
                WindowExpired, Ledger!WindowExpired
  <2>4. ASSUME NEW r \in Requests, NEW e \in Estimates, est[r] = NotHeld,
               TryReserveOk(e), est' = [est EXCEPT ![r] = e]
        PROVE  Ledger!LedgerNext
    <3>1. Ledger!Reserve(r, e)
      BY <2>4 DEF Ledger!Reserve, Ledger!TryReserveOk, TryReserveOk, FitsCap, Ledger!FitsCap,
                  OpenWindow, Ledger!OpenWindow, SpentNow, Ledger!SpentNow,
                  WindowExpired, Ledger!WindowExpired
    <3> QED BY <3>1 DEF Ledger!LedgerNext
  <2>5. ASSUME NEW r \in Requests, NEW e \in Estimates, est[r] = NotHeld,
               TryReserveRefused(e), est' = est
        PROVE  Ledger!LedgerNext
    <3>1. Ledger!Refuse(r, e)
      BY <2>5 DEF Ledger!Refuse, Ledger!TryReserveRefused, TryReserveRefused, FitsCap,
                  Ledger!FitsCap, OpenWindow, Ledger!OpenWindow, SpentNow, Ledger!SpentNow,
                  WindowExpired, Ledger!WindowExpired
    <3> QED BY <3>1 DEF Ledger!LedgerNext
  <2>6. ASSUME NEW r \in Requests, est[r] # NotHeld, est' = [est EXCEPT ![r] = NotHeld],
               \/ \E actual \in Actuals : Reconcile(est[r], actual)
               \/ Release(est[r])
               \/ UNCHANGED guard_vars
        PROVE  Ledger!LedgerNext
    <3>1. \/ \E actual \in Actuals : Ledger!Settle(r, actual)
          \/ Ledger!GiveBack(r)
          \/ Ledger!Abandon(r)
      BY <2>6 DEF Ledger!Settle, Ledger!GiveBack, Ledger!Abandon, Ledger!Reconcile, Reconcile,
                  Ledger!Release, Release, Ledger!Adjusted, Adjusted
    <3> QED BY <3>1 DEF Ledger!LedgerNext
  <2>7. CASE Next
    BY <2>2, <2>3, <2>4, <2>5, <2>6, <2>7, ReservationSteps
  <2> QED BY <2>1, <2>7
<1> QED BY <1>1, <1>2, IInvHolds, PTL DEF Spec, ImplementsLedger, Ledger!LedgerSpec

\* Whenever the reservation of a stream or a shadow ends, the running total
\* has been adjusted for it, though the client may have gone at any point.
THEOREM StreamsSettle == Spec => StreamsAndShadowsSettle
<1>1. ASSUME IInv, Next, NEW r \in Requests,
             kind[r] \in {"stream", "shadow"}, est[r] # NotHeld, est'[r] = NotHeld
      PROVE  \E actual \in Actuals \cup {0} : spent' = Adjusted(est[r], actual)
  <2>1. est \in [Requests -> Estimates \cup {NotHeld}]
    BY <1>1 DEF IInv, TypeOK
  <2>2. \/ \E actual \in Actuals : Reconcile(est[r], actual)
        \/ Release(est[r])
    BY <1>1, <2>1, ReservationSteps
  <2> QED BY <2>2 DEF Reconcile, Release
<1>2. IInv /\ [Next]_vars =>
        [\A r \in Requests :
           /\ kind[r] \in {"stream", "shadow"}
           /\ est[r] # NotHeld
           /\ est'[r] = NotHeld
           => \E actual \in Actuals \cup {0} : spent' = Adjusted(est[r], actual)]_vars
  BY <1>1
<1> QED BY <1>2, IInvHolds, PTL DEF Spec, StreamsAndShadowsSettle
=============================================================================
