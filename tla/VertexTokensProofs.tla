------------------------- MODULE VertexTokensProofs -------------------------
(***************************************************************************)
(* For every number of requests and connections, any lifetimes, margin and *)
(* size of the cache: a caller gets its own account's token, fresh enough, *)
(* a new one after a 401, and nobody fetches what somebody is fetching.    *)
(***************************************************************************)
EXTENDS VertexTokens, SharedLemmas

USE NobodyAssumption, NumbersAssumption, ConnectionsAssumption DEF CacheKey, Key

InQueue == {"locking", "posting", "issued"}
InAuth == {"sizing", "evicting", "entering"} \cup InQueue

\* A slot belongs to the connection of the caller that made it.
MapInOrder ==
  \A k \in DOMAIN tokens : conn[tokens[k][1]] = k /\ pc[tokens[k][1]] # "idle"

\* What a slot holds was fetched for that connection, and is not thought to
\* last longer than it does.
SlotsInOrder ==
  \A s \in Slots : cached[s] # Nobody =>
    /\ cached[s].token.account = conn[s[1]].account /\ pc[s[1]] # "idle"
    /\ cached[s].expires_at <= cached[s].token.from + cached[s].token.life

\* The queue of a slot holds the callers that wait for it or have it.
QueuesInOrder ==
  \A s \in Slots :
    /\ NoRepeats(lock[s])
    /\ ToSet(lock[s]) = {r \in Requests : pc[r] \in InQueue /\ slot[r] = s}

\* What a caller has where it stands.
CallInOrder(r) ==
  /\ pc[r] = "idle" => r \notin retrying \cup streams /\ bearer[r] = Nobody
  /\ pc[r] \in InAuth => conn[r] \in Connections
  /\ pc[r] \in InQueue => conn[r] \in DOMAIN tokens /\ slot[r] = tokens[conn[r]]
  /\ pc[r] \in {"posting", "issued"} => HasLock(r)
  /\ pc[r] = "posting" => asked[r] <= clock
  /\ pc[r] = "issued" =>
       /\ bearer[r] \in Token /\ bearer[r].account = conn[r].account
       /\ asked[r] <= bearer[r].from
  /\ bearer[r] # Nobody => bearer[r].account = conn[r].account
  /\ rejected[r] <= issued
  /\ r \in retrying /\ bearer[r] # Nobody => bearer[r].serial > rejected[r]

\* The inductive invariant.  OneFetch follows from the queues; whose token a
\* caller gets, from whose slot it waits at, and that from who made the slot.
IInv ==
  /\ TypeOK
  /\ MapInOrder
  /\ SlotsInOrder
  /\ QueuesInOrder
  /\ \A r \in Requests : CallInOrder(r)

\* The type of the map, by its keys.
Slotted(map) == DOMAIN map \subseteq Connections /\ map \in [DOMAIN map -> Slots]

LEMMA TokensTyped ==
  ASSUME NEW map
  PROVE  Slotted(map) <=> map \in UNION {[K -> Slots] : K \in SUBSET CacheKeys}
<1>1. CacheKeys = Connections
  BY DEF CacheKeys
<1> QED BY <1>1 DEF Slotted

LEMMA SlotOf ==
  ASSUME NEW r \in Requests, NEW b, b \in BOOLEAN
  PROVE  <<r, b>> \in Slots
BY DEF Slots

LEMMA SlotMade ==
  ASSUME NEW s \in Slots
  PROVE  s[1] \in Requests
BY DEF Slots

-----------------------------------------------------------------------------
\* What every step leaves to the callers it is not of.
Elsewhere(r) ==
  \A q \in Requests \ {r} :
    /\ pc'[q] = pc[q] /\ conn'[q] = conn[q] /\ slot'[q] = slot[q]
    /\ asked'[q] = asked[q] /\ bearer'[q] = bearer[q] /\ rejected'[q] = rejected[q]
    /\ (q \in retrying' <=> q \in retrying) /\ (q \in streams' <=> q \in streams)
    /\ HasLock(q) => HasLock(q)'

\* Time and history only grow, slots are only added, and callers that have
\* begun keep their connections.
Growing ==
  /\ clock <= clock' /\ issued <= issued'
  /\ \A k \in DOMAIN tokens : k \in DOMAIN tokens' /\ tokens'[k] = tokens[k]
  /\ \A q \in Requests : pc[q] # "idle" => pc'[q] # "idle" /\ conn'[q] = conn[q]

\* A step of r keeps the invariant if the maps are in order after it and r is.
LEMMA StepOf ==
  ASSUME IInv, NEW r \in Requests, Growing, Elsewhere(r), TypeOK', QueuesInOrder',
         CallInOrder(r)',
         \A k \in DOMAIN tokens' \ DOMAIN tokens :
           conn'[tokens'[k][1]] = k /\ pc'[tokens'[k][1]] # "idle",
         \A s \in Slots : cached'[s] = cached[s] \/ cached'[s] = Nobody \/
           /\ cached'[s].token.account = conn'[s[1]].account /\ pc'[s[1]] # "idle"
           /\ cached'[s].expires_at <= cached'[s].token.from + cached'[s].token.life
  PROVE  IInv'
<1>1. TypeOK /\ MapInOrder /\ SlotsInOrder /\ Slotted(tokens) /\ Slotted(tokens')
  BY TokensTyped DEF IInv, TypeOK
<1>2. MapInOrder'
  <2> SUFFICES ASSUME NEW k \in DOMAIN tokens'
               PROVE  conn'[tokens'[k][1]] = k /\ pc'[tokens'[k][1]] # "idle"
    BY DEF MapInOrder
  <2>1. CASE k \in DOMAIN tokens
    <3>1. tokens'[k] = tokens[k] /\ tokens[k] \in Slots
      BY <1>1, <2>1 DEF Growing, Slotted
    <3>2. conn[tokens[k][1]] = k /\ pc[tokens[k][1]] # "idle"
      BY <1>1, <2>1 DEF MapInOrder
    <3>3. tokens[k][1] \in Requests
      BY <3>1, SlotMade
    <3> QED BY <3>1, <3>2, <3>3 DEF Growing
  <2> QED BY <2>1
<1>3. SlotsInOrder'
  <2> SUFFICES ASSUME NEW s \in Slots, cached'[s] # Nobody
               PROVE  /\ cached'[s].token.account = conn'[s[1]].account /\ pc'[s[1]] # "idle"
                      /\ cached'[s].expires_at <= cached'[s].token.from + cached'[s].token.life
    BY DEF SlotsInOrder
  <2>1. CASE cached'[s] = cached[s]
    <3>1. /\ cached[s].token.account = conn[s[1]].account /\ pc[s[1]] # "idle"
          /\ cached[s].expires_at <= cached[s].token.from + cached[s].token.life
      BY <1>1, <2>1 DEF SlotsInOrder
    <3>2. pc'[s[1]] # "idle" /\ conn'[s[1]] = conn[s[1]]
      BY <3>1, SlotMade DEF Growing
    <3> QED BY <2>1, <3>1, <3>2
  <2> QED BY <2>1
<1>4. ASSUME NEW q \in Requests \ {r} PROVE CallInOrder(q)'
  <2>1. CallInOrder(q)
    BY DEF IInv
  <2>2. /\ pc'[q] = pc[q] /\ conn'[q] = conn[q] /\ slot'[q] = slot[q]
        /\ asked'[q] = asked[q] /\ bearer'[q] = bearer[q] /\ rejected'[q] = rejected[q]
        /\ (q \in retrying' <=> q \in retrying) /\ (q \in streams' <=> q \in streams)
        /\ HasLock(q) => HasLock(q)'
    BY DEF Elsewhere
  <2>3. /\ asked[q] \in Nat /\ clock \in Nat /\ clock' \in Nat /\ issued \in Nat
        /\ issued' \in Nat /\ rejected[q] \in Nat
    BY <1>1 DEF TypeOK
  <2>4. pc[q] \in InQueue => conn[q] \in DOMAIN tokens' /\ slot[q] = tokens'[conn[q]]
    BY <2>1 DEF CallInOrder, Growing
  <2>5. pc[q] = "posting" => asked[q] <= clock'
    BY <2>1, <2>3 DEF CallInOrder, Growing
  <2>6. rejected[q] <= issued'
    BY <2>1, <2>3 DEF CallInOrder, Growing
  <2>7. pc[q] \in {"posting", "issued"} => HasLock(q)'
    BY <2>1, <2>2 DEF CallInOrder
  <2>8. /\ pc'[q] = "idle" => q \notin retrying' \cup streams' /\ bearer'[q] = Nobody
        /\ pc'[q] \in InAuth => conn'[q] \in Connections
        /\ pc'[q] = "issued" =>
             /\ bearer'[q] \in Token /\ bearer'[q].account = conn'[q].account
             /\ asked'[q] <= bearer'[q].from
        /\ bearer'[q] # Nobody => bearer'[q].account = conn'[q].account
        /\ q \in retrying' /\ bearer'[q] # Nobody => bearer'[q].serial > rejected'[q]
    BY <2>1, <2>2 DEF CallInOrder
  <2> QED BY <2>2, <2>4, <2>5, <2>6, <2>7, <2>8 DEF CallInOrder
<1> QED BY <1>2, <1>3, <1>4 DEF IInv

\* The queues, when nobody joins or leaves one.
LEMMA QueuesUntouched ==
  ASSUME IInv, NEW r \in Requests, lock' = lock, Elsewhere(r),
         pc'[r] \in InQueue <=> pc[r] \in InQueue,
         pc[r] \in InQueue => slot'[r] = slot[r]
  PROVE  QueuesInOrder'
<1> SUFFICES ASSUME NEW s \in Slots
             PROVE  /\ NoRepeats(lock'[s])
                    /\ ToSet(lock'[s]) = {q \in Requests : pc'[q] \in InQueue /\ slot'[q] = s}
  BY DEF QueuesInOrder
<1>1. /\ NoRepeats(lock[s])
      /\ ToSet(lock[s]) = {q \in Requests : pc[q] \in InQueue /\ slot[q] = s}
  BY DEF IInv, QueuesInOrder
<1>2. \A q \in Requests : pc'[q] \in InQueue /\ slot'[q] = s <=> pc[q] \in InQueue /\ slot[q] = s
  BY DEF Elsewhere
<1> QED BY <1>1, <1>2

\* A caller leaves the queue of its slot: those before and behind it stay.
LEMMA UnlockingKeepsQueues ==
  ASSUME IInv, NEW r \in Requests, lock' = Unlocked(r), pc'[r] \notin InQueue,
         \A q \in Requests \ {r} : pc'[q] = pc[q] /\ slot'[q] = slot[q]
  PROVE  /\ QueuesInOrder'
         /\ lock' \in [Slots -> Seq(Requests)]
         /\ \A q \in Requests \ {r} : HasLock(q) => HasLock(q)'
<1>1. /\ lock \in [Slots -> Seq(Requests)] /\ slot \in [Requests -> Slots]
      /\ \A s \in Slots : NoRepeats(lock[s])
      /\ \A s \in Slots : ToSet(lock[s]) = {q \in Requests : pc[q] \in InQueue /\ slot[q] = s}
  BY DEF IInv, TypeOK, QueuesInOrder
<1>2. \A s \in Slots : lock'[s] = IF s = slot[r] THEN RemoveFirst(lock[s], r) ELSE lock[s]
  BY <1>1 DEF Unlocked
<1>3. /\ RemoveFirst(lock[slot[r]], r) \in Seq(Requests)
      /\ NoRepeats(RemoveFirst(lock[slot[r]], r))
      /\ ToSet(RemoveFirst(lock[slot[r]], r)) = ToSet(lock[slot[r]]) \ {r}
  BY <1>1, Leaving
<1>4. lock' \in [Slots -> Seq(Requests)]
  BY <1>1, <1>3 DEF Unlocked
<1>5. QueuesInOrder'
  <2> SUFFICES ASSUME NEW s \in Slots
               PROVE  /\ NoRepeats(lock'[s])
                      /\ ToSet(lock'[s]) = {q \in Requests : pc'[q] \in InQueue /\ slot'[q] = s}
    BY DEF QueuesInOrder
  <2>1. {q \in Requests : pc'[q] \in InQueue /\ slot'[q] = s}
          = {q \in Requests : pc[q] \in InQueue /\ slot[q] = s} \ {r}
    OBVIOUS
  <2>2. CASE s = slot[r]
    BY <1>1, <1>2, <1>3, <2>1, <2>2
  <2>3. CASE s # slot[r]
    BY <1>1, <1>2, <2>1, <2>3
  <2> QED BY <2>2, <2>3
<1>6. ASSUME NEW q \in Requests \ {r}, HasLock(q) PROVE HasLock(q)'
  <2>1. lock[slot[q]] # <<>> /\ Head(lock[slot[q]]) = q /\ slot[q] \in Slots
    BY <1>1, <1>6 DEF HasLock
  <2>2. CASE slot[q] = slot[r]
    <3>1. /\ RemoveFirst(lock[slot[q]], r) # <<>>
          /\ Head(RemoveFirst(lock[slot[q]], r)) = Head(lock[slot[q]])
      BY <1>1, <2>1, LeavingKeepsHead
    <3> QED BY <1>2, <2>1, <2>2, <3>1 DEF HasLock
  <2>3. CASE slot[q] # slot[r]
    BY <1>2, <2>1, <2>3 DEF HasLock
  <2> QED BY <2>2, <2>3
<1> QED BY <1>4, <1>5, <1>6

-----------------------------------------------------------------------------
(***************************************************************************)
(* The steps of auth.                                                      *)
(***************************************************************************)

\* The other callers' locals.
Others(r) ==
  \A q \in Requests \ {r} :
    /\ pc'[q] = pc[q] /\ conn'[q] = conn[q] /\ slot'[q] = slot[q]
    /\ asked'[q] = asked[q] /\ bearer'[q] = bearer[q] /\ rejected'[q] = rejected[q]
    /\ (q \in retrying' <=> q \in retrying) /\ (q \in streams' <=> q \in streams)

\* A step of r that touches neither map nor queues.
LEMMA CallStep ==
  ASSUME IInv, NEW r \in Requests, TypeOK', Others(r),
         tokens' = tokens, cached' = cached, lock' = lock, clock' = clock, slot' = slot,
         issued' = issued \/ issued' = issued + 1,
         pc[r] # "idle" => conn'[r] = conn[r], pc'[r] # "idle",
         pc'[r] \in InQueue <=> pc[r] \in InQueue,
         CallInOrder(r)'
  PROVE  IInv'
<1>1. Elsewhere(r)
  BY DEF Elsewhere, Others, HasLock
<1>2. QueuesInOrder'
  BY <1>1, QueuesUntouched
<1>3. clock \in Nat /\ issued \in Nat
  BY DEF IInv, TypeOK
<1>4. Growing
  BY <1>3 DEF Growing, Others
<1> QED BY <1>1, <1>2, <1>4, StepOf

LEMMA BeginKeepsIInv ==
  ASSUME IInv, NEW r \in Requests, NEW c \in Connections \cup {ApiKeyConnection},
         NEW streaming \in BOOLEAN, Begin(r, c, streaming)
  PROVE  IInv'
<1>1. TypeOK /\ CallInOrder(r)
  BY DEF IInv
<1>2. pc[r] = "idle" /\ r \notin retrying /\ bearer[r] = Nobody
  BY <1>1 DEF Begin, CallInOrder
<1>3. /\ conn' = [conn EXCEPT ![r] = c]
      /\ streams' = IF streaming THEN streams \cup {r} ELSE streams
      /\ pc' = [pc EXCEPT ![r] = IF c = ApiKeyConnection THEN "ready" ELSE "sizing"]
      /\ tokens' = tokens /\ cached' = cached /\ lock' = lock /\ clock' = clock
      /\ slot' = slot /\ issued' = issued
      /\ UNCHANGED <<reading, asked, bearer, retrying, rejected>>
  BY DEF Begin, Goto, map_vars, history
<1>4. CallInOrder(r)' /\ pc'[r] # "idle" /\ (pc'[r] \in InQueue <=> pc[r] \in InQueue)
  BY <1>1, <1>2, <1>3 DEF CallInOrder, TypeOK, InAuth, InQueue
<1>5. TypeOK'
  BY <1>1, <1>2, <1>3 DEF TypeOK, Places, Ended
<1>6. Others(r)
  BY <1>1, <1>3 DEF Others, TypeOK
<1> QED BY <1>2, <1>3, <1>4, <1>5, <1>6, CallStep

\* From place to place in auth, and to the provider.
LEMMA GoingKeepsIInv ==
  ASSUME IInv, NEW r \in Requests,
         \/ Roomy(r) \/ (\E k \in DOMAIN tokens : PickVictim(r, k)) \/ Send(r)
  PROVE  IInv'
<1>1. TypeOK /\ CallInOrder(r) /\ Slotted(tokens)
  BY TokensTyped DEF IInv, TypeOK
<1>2. PICK next \in {"entering", "evicting", "sent"} :
        /\ pc' = [pc EXCEPT ![r] = next]
        /\ next # "sent" => pc[r] = "sizing"
        /\ pc[r] \in {"sizing", "ready"}
  BY DEF Roomy, PickVictim, Send, Goto
<1>3. /\ tokens' = tokens /\ cached' = cached /\ lock' = lock /\ clock' = clock
      /\ slot' = slot /\ issued' = issued /\ conn' = conn
      /\ UNCHANGED <<streams, asked, bearer, retrying, rejected>>
  BY DEF Roomy, PickVictim, Send, map_vars, call_vars, history
<1>4. reading' \in [Requests -> {ShardOf(k) : k \in CacheKeys} \cup {Nobody}]
  <2>1. \A k \in DOMAIN tokens : k \in CacheKeys
    BY <1>1 DEF Slotted, CacheKeys
  <2> QED BY <1>1, <2>1 DEF Roomy, PickVictim, Send, TypeOK, map_vars
<1>5. pc'[r] = next /\ pc' \in [Requests -> Places]
  BY <1>1, <1>2 DEF TypeOK, Places, Ended
<1>6. TypeOK'
  BY <1>1, <1>3, <1>4, <1>5 DEF TypeOK
<1>7. CallInOrder(r)' /\ pc'[r] # "idle" /\ (pc'[r] \in InQueue <=> pc[r] \in InQueue)
  BY <1>1, <1>2, <1>3, <1>5 DEF CallInOrder, InAuth, InQueue
<1>8. Others(r)
  BY <1>1, <1>2, <1>3 DEF Others, TypeOK
<1> QED BY <1>3, <1>6, <1>7, <1>8, CallStep

\* A token is being fetched: the POST, and Google's answer on the way.
LEMMA FetchingKeepsIInv ==
  ASSUME IInv, NEW r \in Requests,
         Post(r) \/ \E life \in Lifetimes : Issue(r, life)
  PROVE  IInv'
<1>1. TypeOK /\ CallInOrder(r) /\ clock \in Nat /\ issued \in Nat
  BY DEF IInv, TypeOK
<1>2. CASE Post(r)
  <2>1. /\ pc[r] = "locking" /\ HasLock(r)
        /\ asked' = [asked EXCEPT ![r] = clock] /\ pc' = [pc EXCEPT ![r] = "posting"]
        /\ tokens' = tokens /\ cached' = cached /\ lock' = lock /\ clock' = clock
        /\ slot' = slot /\ issued' = issued /\ conn' = conn
        /\ UNCHANGED <<reading, streams, bearer, retrying, rejected>>
    BY <1>2 DEF Post, Goto, map_vars, history
  <2>2. asked'[r] = clock /\ pc'[r] = "posting"
    BY <1>1, <2>1 DEF TypeOK
  <2>3. TypeOK'
    BY <1>1, <2>1 DEF TypeOK, Places, Ended
  <2>4. CallInOrder(r)'
    BY <1>1, <2>1, <2>2 DEF CallInOrder, InAuth, InQueue, HasLock
  <2>5. Others(r)
    BY <1>1, <2>1 DEF Others, TypeOK
  <2>6. pc'[r] # "idle" /\ (pc'[r] \in InQueue <=> pc[r] \in InQueue)
    BY <2>1, <2>2 DEF InQueue
  <2> QED BY <2>1, <2>3, <2>4, <2>5, <2>6, CallStep
<1>3. ASSUME NEW life \in Lifetimes, Issue(r, life) PROVE IInv'
  <2> DEFINE token == [account |-> conn[r].account, serial |-> issued + 1, from |-> clock,
                       life |-> life]
  <2>1. /\ pc[r] = "posting" /\ conn[r] \in Connections /\ asked[r] <= clock
        /\ bearer' = [bearer EXCEPT ![r] = token] /\ issued' = issued + 1
        /\ pc' = [pc EXCEPT ![r] = "issued"]
        /\ tokens' = tokens /\ cached' = cached /\ lock' = lock /\ clock' = clock
        /\ slot' = slot /\ conn' = conn
        /\ UNCHANGED <<reading, streams, asked, retrying, rejected>>
    BY <1>1, <1>3 DEF Issue, Goto, map_vars, CallInOrder, InAuth, InQueue
  <2>2. /\ token \in Token /\ token.account = conn[r].account
        /\ token.serial = issued + 1 /\ token.from = clock
    BY <1>1, <2>1 DEF Token
  <2> HIDE DEF token
  <2>3. bearer'[r] = token /\ pc'[r] = "issued"
    BY <1>1, <2>1 DEF TypeOK
  <2>4. rejected[r] <= issued /\ rejected[r] \in Nat
    BY <1>1 DEF CallInOrder, TypeOK
  <2>5. rejected[r] <= issued' /\ token.serial > rejected[r]
    BY <1>1, <2>1, <2>2, <2>4
  <2>6. HasLock(r)' /\ conn[r] \in DOMAIN tokens /\ slot[r] = tokens[conn[r]]
    BY <1>1, <2>1 DEF CallInOrder, HasLock, InQueue
  <2>7. CallInOrder(r)'
    BY <2>1, <2>2, <2>3, <2>5, <2>6 DEF CallInOrder
  <2>8. TypeOK'
    BY <1>1, <2>1, <2>2 DEF TypeOK, Places, Ended
  <2>9. Others(r)
    BY <1>1, <2>1 DEF Others, TypeOK
  <2>10. pc'[r] # "idle" /\ (pc'[r] \in InQueue <=> pc[r] \in InQueue)
    BY <2>1, <2>3 DEF InQueue
  <2> QED BY <2>1, <2>7, <2>8, <2>9, <2>10, CallStep
<1> QED BY <1>2, <1>3

\* The 401 that complete tries again after.
LEMMA RetryKeepsIInv ==
  ASSUME IInv, NEW r \in Requests, Retry(r)
  PROVE  IInv'
<1>1. TypeOK /\ CallInOrder(r) /\ issued \in Nat
  BY DEF IInv, TypeOK
<1>2. /\ pc[r] = "sent" /\ conn[r] \in Connections /\ r \notin streams
      /\ retrying' = retrying \cup {r}
      /\ rejected' = [rejected EXCEPT ![r] = issued]
      /\ bearer' = [bearer EXCEPT ![r] = Nobody]
      /\ pc' = [pc EXCEPT ![r] = "sizing"]
      /\ tokens' = tokens /\ cached' = cached /\ lock' = lock /\ clock' = clock
      /\ slot' = slot /\ issued' = issued /\ conn' = conn
      /\ UNCHANGED <<reading, streams, asked>>
  BY <1>1 DEF Retry, TriesAgain, Goto, map_vars, TypeOK
<1>3. rejected'[r] = issued /\ bearer'[r] = Nobody /\ pc'[r] = "sizing"
  BY <1>1, <1>2 DEF TypeOK
<1>4. CallInOrder(r)' /\ pc'[r] # "idle" /\ (pc'[r] \in InQueue <=> pc[r] \in InQueue)
  BY <1>1, <1>2, <1>3 DEF CallInOrder, InQueue
<1>5. TypeOK'
  BY <1>1, <1>2 DEF TypeOK, Places, Ended
<1>6. Others(r)
  BY <1>1, <1>2 DEF Others, TypeOK
<1> QED BY <1>2, <1>4, <1>5, <1>6, CallStep

\* The slot is found or made, and the caller joins its queue.
LEMMA EnterKeepsIInv ==
  ASSUME IInv, NEW r \in Requests, Enter(r)
  PROVE  IInv'
<1>1. TypeOK /\ CallInOrder(r) /\ Slotted(tokens)
  BY TokensTyped DEF IInv, TypeOK
<1> DEFINE map == Entered(r)
           own == map[conn[r]]
<1>2. /\ pc[r] = "entering" /\ conn[r] \in Connections
      /\ tokens' = map
      /\ slot' = [slot EXCEPT ![r] = own]
      /\ lock' = [lock EXCEPT ![slot'[r]] = Append(@, r)]
      /\ pc' = [pc EXCEPT ![r] = "locking"]
      /\ cached' = cached /\ clock' = clock /\ issued' = issued /\ conn' = conn
      /\ UNCHANGED <<reading, streams, asked, bearer, retrying, rejected>>
  BY <1>1 DEF Enter, Goto, history, CallInOrder, InAuth
<1>3. /\ Slotted(map) /\ own \in Slots /\ conn[r] \in DOMAIN map
      /\ \A k \in DOMAIN tokens : k \in DOMAIN map /\ map[k] = tokens[k]
      /\ \A k \in DOMAIN map \ DOMAIN tokens : k = conn[r] /\ map[k] = ThisCall(r)
  <2>1. ThisCall(r) \in Slots
    <3> DEFINE again == r \in retrying
    <3>1. again \in BOOLEAN
      OBVIOUS
    <3> HIDE DEF again
    <3>2. <<r, again>> \in Slots
      BY <3>1, SlotOf
    <3> QED BY <3>2 DEF again, ThisCall
  <2>2. CASE conn[r] \in DOMAIN tokens
    BY <1>1, <2>2 DEF Entered, Slotted
  <2>3. CASE conn[r] \notin DOMAIN tokens
    <3>1. map = [k \in DOMAIN tokens \cup {conn[r]} |->
                   IF k = conn[r] THEN ThisCall(r) ELSE tokens[k]]
      BY <2>3 DEF Entered
    <3> HIDE DEF map
    <3> QED BY <1>1, <1>2, <2>1, <2>3, <3>1 DEF Slotted
  <2> QED BY <2>2, <2>3
<1> HIDE DEF map
<1>4. /\ pc'[r] = "locking" /\ slot'[r] = own
      /\ \A q \in Requests \ {r} : pc'[q] = pc[q] /\ slot'[q] = slot[q]
  BY <1>1, <1>2 DEF TypeOK
<1>5. /\ lock[own] \in Seq(Requests) /\ NoRepeats(lock[own]) /\ r \notin ToSet(lock[own])
  <2>1. lock[own] \in Seq(Requests)
    BY <1>1, <1>3 DEF TypeOK
  <2>2. /\ NoRepeats(lock[own])
        /\ ToSet(lock[own]) = {q \in Requests : pc[q] \in InQueue /\ slot[q] = own}
    BY <1>3 DEF IInv, QueuesInOrder
  <2>3. pc[r] \notin InQueue
    BY <1>2 DEF InQueue
  <2> QED BY <2>1, <2>2, <2>3
<1>6. /\ Append(lock[own], r) \in Seq(Requests)
      /\ NoRepeats(Append(lock[own], r))
      /\ Append(lock[own], r) # <<>>
      /\ ToSet(Append(lock[own], r)) = ToSet(lock[own]) \cup {r}
      /\ Head(Append(lock[own], r)) = IF lock[own] = <<>> THEN r ELSE Head(lock[own])
  BY <1>5, Joining
<1>7. \A s \in Slots : lock'[s] = IF s = own THEN Append(lock[s], r) ELSE lock[s]
  BY <1>1, <1>2, <1>4 DEF TypeOK
<1>8. TypeOK'
  <2>1. lock' \in [Slots -> Seq(Requests)]
    BY <1>1, <1>2, <1>4, <1>6 DEF TypeOK
  <2>2. tokens' \in UNION {[K -> Slots] : K \in SUBSET CacheKeys}'
    BY <1>2, <1>3, TokensTyped DEF CacheKeys
  <2>3. slot' \in [Requests -> Slots] /\ pc' \in [Requests -> Places]
    BY <1>1, <1>2, <1>3 DEF TypeOK, Places
  <2> QED BY <1>1, <1>2, <2>1, <2>2, <2>3 DEF TypeOK
<1>9. QueuesInOrder'
  <2> SUFFICES ASSUME NEW s \in Slots
               PROVE  /\ NoRepeats(lock'[s])
                      /\ ToSet(lock'[s]) = {q \in Requests : pc'[q] \in InQueue /\ slot'[q] = s}
    BY DEF QueuesInOrder
  <2>1. /\ NoRepeats(lock[s])
        /\ ToSet(lock[s]) = {q \in Requests : pc[q] \in InQueue /\ slot[q] = s}
    BY DEF IInv, QueuesInOrder
  <2>2. pc[r] \notin InQueue /\ pc'[r] \in InQueue
    BY <1>2, <1>4 DEF InQueue
  <2>3. CASE s = own
    BY <1>4, <1>6, <1>7, <2>1, <2>2, <2>3
  <2>4. CASE s # own
    BY <1>4, <1>7, <2>1, <2>2, <2>4
  <2> QED BY <2>3, <2>4
<1>10. Elsewhere(r)
  <2>1. ASSUME NEW q \in Requests \ {r}, HasLock(q) PROVE HasLock(q)'
    <3>1. slot[q] \in Slots /\ lock[slot[q]] # <<>> /\ Head(lock[slot[q]]) = q
      BY <1>1, <2>1 DEF TypeOK, HasLock
    <3> QED BY <1>4, <1>6, <1>7, <3>1 DEF HasLock
  <2> QED BY <1>1, <1>2, <1>4, <2>1 DEF Elsewhere, TypeOK
<1>11. CallInOrder(r)'
  BY <1>1, <1>2, <1>3, <1>4 DEF CallInOrder
<1>12. Growing
  BY <1>1, <1>2, <1>3, <1>4 DEF Growing, TypeOK
<1>13. \A k \in DOMAIN tokens' \ DOMAIN tokens :
         conn'[tokens'[k][1]] = k /\ pc'[tokens'[k][1]] # "idle"
  BY <1>2, <1>3, <1>4 DEF ThisCall
<1> QED BY <1>2, <1>8, <1>9, <1>10, <1>11, <1>12, <1>13, StepOf

\* A caller that leaves its queue or was in none.
LEMMA UnlockingStep ==
  ASSUME IInv, NEW r \in Requests, lock' = Unlocked(r), Others(r), pc'[r] \notin InQueue,
         pc'[r] # "idle", tokens' = tokens, clock' = clock, issued' = issued, conn' = conn,
         lock' \in [Slots -> Seq(Requests)] => TypeOK',
         CallInOrder(r)',
         \A s \in Slots : cached'[s] = cached[s] \/ cached'[s] = Nobody \/
           /\ cached'[s].token.account = conn'[s[1]].account /\ pc'[s[1]] # "idle"
           /\ cached'[s].expires_at <= cached'[s].token.from + cached'[s].token.life
  PROVE  IInv'
<1>1. /\ QueuesInOrder'
      /\ lock' \in [Slots -> Seq(Requests)]
      /\ \A q \in Requests \ {r} : HasLock(q) => HasLock(q)'
  BY UnlockingKeepsQueues DEF Others
<1>2. Elsewhere(r)
  BY <1>1 DEF Elsewhere, Others
<1>3. Growing
  BY DEF Growing, Others, IInv, TypeOK
<1> QED BY <1>1, <1>2, <1>3, StepOf

\* What a caller sees in its slot.
LEMMA OwnSlot ==
  ASSUME IInv, NEW r \in Requests, pc[r] \in InQueue
  PROVE  /\ slot[r] \in Slots /\ conn[slot[r][1]] = conn[r] /\ pc[slot[r][1]] # "idle"
         /\ cached[slot[r]] # Nobody =>
              /\ cached[slot[r]].token \in Token
              /\ cached[slot[r]].token.account = conn[r].account
              /\ cached[slot[r]].expires_at \in Nat
              /\ cached[slot[r]].expires_at <=
                   cached[slot[r]].token.from + cached[slot[r]].token.life
<1>1. slot[r] \in Slots /\ cached \in [Slots -> Entry \cup {Nobody}]
  BY DEF IInv, TypeOK
<1>2. conn[r] \in DOMAIN tokens /\ slot[r] = tokens[conn[r]]
  BY DEF IInv, CallInOrder
<1>3. conn[slot[r][1]] = conn[r] /\ pc[slot[r][1]] # "idle"
  BY <1>2 DEF IInv, MapInOrder
<1>4. cached[slot[r]] # Nobody =>
        /\ cached[slot[r]].token.account = conn[slot[r][1]].account
        /\ cached[slot[r]].expires_at <= cached[slot[r]].token.from + cached[slot[r]].token.life
  BY <1>1 DEF IInv, SlotsInOrder
<1> QED BY <1>1, <1>3, <1>4 DEF Entry

LEMMA ReuseKeepsIInv ==
  ASSUME IInv, NEW r \in Requests, Reuse(r)
  PROVE  IInv'
<1>1. TypeOK /\ CallInOrder(r)
  BY DEF IInv
<1> DEFINE token == cached[slot[r]].token
<1>2. /\ pc[r] = "locking" /\ r \notin retrying /\ cached[slot[r]] # Nobody
      /\ bearer' = [bearer EXCEPT ![r] = token]
      /\ lock' = Unlocked(r)
      /\ pc' = [pc EXCEPT ![r] = "ready"]
      /\ tokens' = tokens /\ cached' = cached /\ clock' = clock /\ conn' = conn
      /\ slot' = slot /\ issued' = issued
      /\ UNCHANGED <<reading, streams, asked, retrying, rejected>>
  BY DEF Reuse, Reusable, Fresh, Goto, history
<1>3. token \in Token /\ token.account = conn[r].account
  BY <1>2, OwnSlot DEF InQueue
<1> HIDE DEF token
<1>4. bearer'[r] = token /\ pc'[r] = "ready"
  BY <1>1, <1>2 DEF TypeOK
<1>5. lock' \in [Slots -> Seq(Requests)] => TypeOK'
  BY <1>1, <1>2, <1>3 DEF TypeOK, Places
<1>6. CallInOrder(r)'
  BY <1>1, <1>2, <1>3, <1>4 DEF CallInOrder, InAuth, InQueue
<1>7. Others(r)
  BY <1>1, <1>2 DEF Others, TypeOK
<1>8. pc'[r] \notin InQueue /\ pc'[r] # "idle"
  BY <1>4 DEF InQueue
<1> QED BY <1>2, <1>5, <1>6, <1>7, <1>8, UnlockingStep

LEMMA StoreKeepsIInv ==
  ASSUME IInv, NEW r \in Requests, Store(r)
  PROVE  IInv'
<1>1. TypeOK /\ CallInOrder(r)
  BY DEF IInv
<1> DEFINE entry == [token |-> bearer[r], expires_at |-> ExpiresAt(r)]
<1>2. /\ pc[r] = "issued"
      /\ cached' = [cached EXCEPT ![slot[r]] = entry]
      /\ lock' = Unlocked(r)
      /\ asked' = [asked EXCEPT ![r] = 0]
      /\ pc' = [pc EXCEPT ![r] = "ready"]
      /\ tokens' = tokens /\ clock' = clock /\ conn' = conn
      /\ slot' = slot /\ issued' = issued
      /\ UNCHANGED <<reading, streams, bearer, retrying, rejected>>
  BY DEF Store, Goto, history
<1>3. /\ bearer[r] \in Token /\ bearer[r].account = conn[r].account
      /\ asked[r] <= bearer[r].from /\ asked[r] \in Nat
  BY <1>1, <1>2 DEF CallInOrder, TypeOK
<1>4. bearer[r].from \in Nat /\ bearer[r].life \in Nat
  BY <1>3 DEF Token
<1>5. /\ entry \in Entry /\ entry.token = bearer[r]
      /\ entry.expires_at <= bearer[r].from + bearer[r].life
  BY <1>3, <1>4 DEF Entry, ExpiresAt
<1> HIDE DEF entry
<1>6. slot[r] \in Slots /\ conn[slot[r][1]] = conn[r] /\ pc[slot[r][1]] # "idle"
  BY <1>2, OwnSlot DEF InQueue
<1>7. pc'[r] = "ready" /\ \A q \in Requests : pc[q] # "idle" => pc'[q] # "idle"
  BY <1>1, <1>2 DEF TypeOK
<1>8. \A s \in Slots : cached'[s] = cached[s] \/ cached'[s] = Nobody \/
        /\ cached'[s].token.account = conn'[s[1]].account /\ pc'[s[1]] # "idle"
        /\ cached'[s].expires_at <= cached'[s].token.from + cached'[s].token.life
  <2> SUFFICES ASSUME NEW s \in Slots, cached'[s] # cached[s]
               PROVE  /\ cached'[s].token.account = conn'[s[1]].account /\ pc'[s[1]] # "idle"
                      /\ cached'[s].expires_at <= cached'[s].token.from + cached'[s].token.life
    OBVIOUS
  <2>1. s = slot[r] /\ cached'[s] = entry
    BY <1>1, <1>2 DEF TypeOK
  <2>2. slot[r][1] \in Requests
    BY <1>6, SlotMade
  <2> QED BY <1>2, <1>3, <1>5, <1>6, <1>7, <2>1, <2>2
<1>9. lock' \in [Slots -> Seq(Requests)] => TypeOK'
  BY <1>1, <1>2, <1>5 DEF TypeOK, Places
<1>10. CallInOrder(r)'
  BY <1>1, <1>2, <1>7 DEF CallInOrder, InAuth, InQueue
<1>11. Others(r)
  BY <1>1, <1>2 DEF Others, TypeOK
<1>12. pc'[r] \notin InQueue /\ pc'[r] # "idle"
  BY <1>7 DEF InQueue
<1> QED BY <1>2, <1>8, <1>9, <1>10, <1>11, <1>12, UnlockingStep

\* The call is over.
LEMMA Ending ==
  ASSUME IInv, NEW r \in Requests, NEW how \in Ended, End(r, how), lock' = Unlocked(r),
         tokens' = tokens, cached' = cached, reading' = reading, clock' = clock
  PROVE  IInv'
<1>1. TypeOK /\ CallInOrder(r) /\ issued \in Nat
  BY DEF IInv, TypeOK
<1>2. /\ pc' = [pc EXCEPT ![r] = how]
      /\ slot' = [slot EXCEPT ![r] = <<r, FALSE>>]
      /\ asked' = [asked EXCEPT ![r] = 0]
      /\ bearer' = [bearer EXCEPT ![r] = Nobody]
      /\ rejected' = [rejected EXCEPT ![r] = 0]
      /\ conn' = conn /\ issued' = issued
      /\ UNCHANGED <<streams, retrying>>
  BY DEF End
<1>3. pc'[r] = how /\ bearer'[r] = Nobody /\ rejected'[r] = 0
  BY <1>1, <1>2 DEF TypeOK
<1>4. pc'[r] \notin InAuth /\ pc'[r] \notin InQueue /\ pc'[r] # "idle"
  BY <1>3 DEF Ended, InAuth, InQueue
<1>5. CallInOrder(r)'
  BY <1>1, <1>2, <1>3, <1>4 DEF CallInOrder, InQueue
<1>6. lock' \in [Slots -> Seq(Requests)] => TypeOK'
  <2>1. <<r, FALSE>> \in Slots
    BY SlotOf
  <2>2. pc' \in [Requests -> Places]
    BY <1>1, <1>2 DEF TypeOK, Places, Ended
  <2> QED BY <1>1, <1>2, <2>1, <2>2 DEF TypeOK
<1>7. Others(r)
  BY <1>1, <1>2 DEF Others, TypeOK
<1> QED BY <1>2, <1>4, <1>5, <1>6, <1>7, UnlockingStep

\* Who is in no queue leaves none.
LEMMA NotQueued ==
  ASSUME IInv, NEW r \in Requests, pc[r] \notin InQueue
  PROVE  Unlocked(r) = lock
<1>1. lock \in [Slots -> Seq(Requests)] /\ slot[r] \in Slots
  BY DEF IInv, TypeOK
<1>2. r \notin ToSet(lock[slot[r]])
  BY <1>1 DEF IInv, QueuesInOrder
<1>3. ~ \E i \in 1 .. Len(lock[slot[r]]) : lock[slot[r]][i] = r
  BY <1>2 DEF ToSet
<1>4. RemoveFirst(lock[slot[r]], r) = lock[slot[r]]
  BY <1>3, RemoveFirstAbsent
<1> QED BY <1>1, <1>4 DEF Unlocked

LEMMA EndsKeepIInv ==
  ASSUME IInv, NEW r \in Requests, FetchFails(r) \/ Refuse(r) \/ Answer(r) \/ Drop(r)
  PROVE  IInv'
<1>1. CASE FetchFails(r) \/ Drop(r)
  <2>1. /\ End(r, "failed") /\ lock' = Unlocked(r)
        /\ tokens' = tokens /\ cached' = cached /\ reading' = reading /\ clock' = clock
    BY <1>1 DEF FetchFails, Drop
  <2> QED BY <2>1, Ending DEF Ended
<1>2. CASE Refuse(r) \/ Answer(r)
  <2>1. PICK how \in Ended : End(r, how)
    BY <1>2 DEF Refuse, Answer, Ended
  <2>2. /\ pc[r] = "sent" /\ lock' = lock
        /\ tokens' = tokens /\ cached' = cached /\ reading' = reading /\ clock' = clock
    BY <1>2 DEF Refuse, Answer, map_vars
  <2>3. Unlocked(r) = lock
    BY <2>2, NotQueued DEF InQueue
  <2> QED BY <2>1, <2>2, <2>3, Ending
<1> QED BY <1>1, <1>2

-----------------------------------------------------------------------------
(***************************************************************************)
(* The invariant, and what follows from it.                                *)
(***************************************************************************)

LEMMA TickKeepsIInv ==
  ASSUME IInv, Tick
  PROVE  IInv'
<1>1. TypeOK /\ clock' = clock + 1 /\ clock \in Nat
      /\ UNCHANGED <<map_vars, pc, call_vars, history>>
  BY DEF IInv, Tick, TypeOK
<1>2. TypeOK'
  BY <1>1 DEF TypeOK, map_vars, call_vars, history
<1>3. MapInOrder' /\ SlotsInOrder' /\ QueuesInOrder'
  BY <1>1 DEF IInv, MapInOrder, SlotsInOrder, QueuesInOrder, map_vars, call_vars
<1>4. ASSUME NEW r \in Requests PROVE CallInOrder(r)'
  <2>1. CallInOrder(r) /\ asked[r] \in Nat
    BY <1>1 DEF IInv, TypeOK
  <2>2. pc'[r] = "posting" => asked'[r] <= clock'
    BY <1>1, <2>1 DEF CallInOrder, call_vars
  <2> QED BY <1>1, <2>1, <2>2 DEF CallInOrder, HasLock, map_vars, call_vars, history
<1> QED BY <1>2, <1>3, <1>4 DEF IInv

LEMMA InitIInv == Init => IInv
<1> SUFFICES ASSUME Init PROVE IInv
  OBVIOUS
<1>1. TypeOK
  <2>1. tokens \in UNION {[K -> Slots] : K \in SUBSET CacheKeys}
    <3>1. Slotted(tokens)
      BY DEF Init, Slotted
    <3> QED BY <3>1, TokensTyped
  <2>2. slot \in [Requests -> Slots]
    BY SlotOf DEF Init
  <2>3. cached \in [Slots -> Entry \cup {Nobody}] /\ lock \in [Slots -> Seq(Requests)]
    BY DEF Init
  <2>4. pc \in [Requests -> Places]
    BY DEF Init, Places
  <2> QED BY <2>1, <2>2, <2>3, <2>4 DEF Init, TypeOK
<1>2. MapInOrder /\ SlotsInOrder
  BY DEF Init, MapInOrder, SlotsInOrder
<1>3. QueuesInOrder
  BY EmptyQueue DEF Init, QueuesInOrder, InQueue
<1>4. \A r \in Requests : CallInOrder(r)
  BY DEF Init, CallInOrder, InQueue, InAuth
<1> QED BY <1>1, <1>2, <1>3, <1>4 DEF IInv

LEMMA NextIInv == IInv /\ [Next]_vars => IInv'
<1> SUFFICES ASSUME IInv, [Next]_vars PROVE IInv'
  OBVIOUS
<1>1. ASSUME NEW r \in Requests, NEW c \in Connections \cup {ApiKeyConnection},
             NEW s \in BOOLEAN, Begin(r, c, s)
      PROVE  IInv'
  BY <1>1, BeginKeepsIInv
<1>2. ASSUME NEW r \in Requests, AuthStep(r) PROVE IInv'
  BY <1>2, GoingKeepsIInv, EnterKeepsIInv DEF AuthStep
<1>3. ASSUME NEW r \in Requests, LockedStep(r) PROVE IInv'
  BY <1>3, ReuseKeepsIInv, FetchingKeepsIInv, StoreKeepsIInv, EndsKeepIInv DEF LockedStep
<1>4. ASSUME NEW r \in Requests, CallerStep(r) \/ Drop(r) PROVE IInv'
  BY <1>4, GoingKeepsIInv, RetryKeepsIInv, EndsKeepIInv DEF CallerStep
<1>5. ASSUME NEW r \in Requests, NEW life \in Lifetimes, Issue(r, life) PROVE IInv'
  BY <1>5, FetchingKeepsIInv
<1>6. CASE Tick
  BY <1>6, TickKeepsIInv
<1>7. CASE UNCHANGED vars
  BY <1>7 DEF IInv, TypeOK, MapInOrder, SlotsInOrder, QueuesInOrder, CallInOrder, HasLock,
              vars, map_vars, call_vars, history
<1> QED BY <1>1, <1>2, <1>3, <1>4, <1>5, <1>6, <1>7 DEF Next

\* The invariant is inductive.
THEOREM IInvHolds == Spec => []IInv
<1> QED BY InitIInv, NextIInv, PTL DEF Spec

\* The types, for every number of requests, connections and tokens.
THEOREM TypeCorrect == Spec => []TypeOK
<1>1. IInv => TypeOK
  BY DEF IInv
<1> QED BY <1>1, IInvHolds, PTL

\* No caller is ever given a token of another's service account, whoever
\* fetched it and whatever was evicted (auth in src/vertex.rs).
THEOREM OwnTokenHolds == Spec => []OwnToken
<1>1. IInv => OwnToken
  BY DEF IInv, CallInOrder, OwnToken
<1> QED BY <1>1, IInvHolds, PTL

\* Callers of one connection are at one slot, whose queue has one head: the
\* mutex held across the POST keeps a connection to one fetch at a time.
THEOREM OneFetchHolds == Spec => []OneFetch
<1>1. ASSUME IInv PROVE OneFetch
  <2> SUFFICES ASSUME NEW q \in Requests, NEW r \in Requests,
                      pc[q] \in {"posting", "issued"}, pc[r] \in {"posting", "issued"},
                      conn[q] = conn[r]
               PROVE  q = r
    BY DEF OneFetch
  <2>1. CallInOrder(q) /\ CallInOrder(r)
    BY <1>1 DEF IInv
  <2>2. slot[q] = slot[r] /\ HasLock(q) /\ HasLock(r)
    BY <2>1 DEF CallInOrder, InQueue
  <2> QED BY <2>2 DEF HasLock
<1> QED BY <1>1, IInvHolds, PTL

\* After a 401 complete goes out with a token that did not exist when the
\* first was turned down (force_refresh in auth).
THEOREM RetryGetsNew == Spec => []RetryIsNew
<1>1. IInv => RetryIsNew
  BY DEF IInv, CallInOrder, RetryIsNew, TypeOK
<1> QED BY <1>1, IInvHolds, PTL

\* A token from the cache has more than the margin left when it is served:
\* its lifetime was counted from before Google issued it.
THEOREM ServedFreshHolds == Spec => ServedFresh
<1> DEFINE Fair ==
      \A r \in Requests :
        pc[r] = "locking" /\ pc'[r] = "ready"
          => bearer'[r].from + bearer'[r].life > clock + Skew
<1>1. ASSUME IInv, [Next]_vars PROVE [Fair]_vars
  <2> SUFFICES ASSUME NEW r \in Requests, pc[r] = "locking", pc'[r] = "ready"
               PROVE  bearer'[r].from + bearer'[r].life > clock + Skew
    OBVIOUS
  <2>1. TypeOK
    BY <1>1 DEF IInv
  <2>2. Reuse(r)
    <3>1. ASSUME NEW q \in Requests, NEW place, pc[q] # "locking" \/ place # "ready",
                 Goto(q, place)
          PROVE  FALSE
      BY <2>1, <3>1 DEF Goto, TypeOK
    <3>2. ASSUME NEW q \in Requests, NEW how \in Ended, End(q, how)
          PROVE  FALSE
      BY <2>1, <3>2 DEF End, Ended, TypeOK
    <3>3. pc' # pc
      OBVIOUS
    <3>4. PICK q \in Requests : Reuse(q)
      BY <1>1, <3>1, <3>2, <3>3 DEF Next, Begin, AuthStep, Roomy, PickVictim, Enter, LockedStep,
           Post, Store, FetchFails, CallerStep, Send, Retry, Refuse, Answer, Drop, Issue, Tick,
           Ended, vars
    <3> QED BY <2>1, <3>4 DEF Reuse, Goto, TypeOK
  <2>3. /\ cached[slot[r]] # Nobody
        /\ cached[slot[r]].expires_at > clock + Skew
        /\ bearer'[r] = cached[slot[r]].token
    BY <2>1, <2>2 DEF Reuse, Reusable, Fresh, TypeOK
  <2>4. /\ cached[slot[r]].token \in Token /\ cached[slot[r]].expires_at \in Nat
        /\ cached[slot[r]].expires_at <= cached[slot[r]].token.from + cached[slot[r]].token.life
    BY <1>1, <2>3, OwnSlot DEF InQueue
  <2>5. /\ cached[slot[r]].token.from \in Nat /\ cached[slot[r]].token.life \in Nat
        /\ clock \in Nat
    BY <2>1, <2>4 DEF Token, TypeOK
  <2> QED BY <2>3, <2>4, <2>5
<1> QED BY <1>1, IInvHolds, PTL DEF Spec, ServedFresh
=============================================================================
