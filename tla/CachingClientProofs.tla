------------------------ MODULE CachingClientProofs ------------------------
(***************************************************************************)
(* Proofs about CachingClient, for every set of callers and paths, every   *)
(* TTL and every timeout; the last part shows that it implements           *)
(* CacheContract.                                                          *)
(***************************************************************************)
EXTENDS CachingClient, TLAPS

\* Every key names one of the resources.
LEMMA KeyResource == ASSUME NEW k \in Keys PROVE Resource(k) \in Resources
  BY DEF Keys, Resource, Resources

\* What the inductive invariant says of the initial state.
LEMMA InitIInv == Init => IInv
<1> SUFFICES ASSUME Init PROVE IInv
  OBVIOUS
<1>1. <<"listmounts", MountTable>> \in Keys
  BY DEF Keys
<1>2. TypeOK
  <2>1. history \in [Resources -> Seq(Nat)]
    BY DEF Init
  <2>2. store \in [Keys -> Entries]
    BY DEF Init, Entries
  <2>3. call \in [Callers -> Calls]
    BY <1>1 DEF Init, Calls, Outcomes, Sources
  <2> QED
    BY <2>1, <2>2, <2>3 DEF Init, TypeOK
<1>3. PendingCalls /\ AnswersCurrent
  BY DEF Init, PendingCalls, AnswersCurrent
<1>4. ExpiryInTTL
  BY BoundsAssumption DEF Init, ExpiryInTTL, NoEntry
<1>5. StoreBoundedAge
  BY DEF Init, StoreBoundedAge, CacheKey
<1> QED
  BY <1>2, <1>3, <1>4, <1>5 DEF IInv

\* Time passes.
LEMMA TickIInv == IInv /\ Tick => IInv'
<1> SUFFICES ASSUME IInv, Tick PROVE IInv'
  OBVIOUS
<1> USE BoundsAssumption
<1>1. now \in Nat /\ now' = now + 1 /\ UNCHANGED <<history, store, call>>
  BY DEF IInv, TypeOK, Tick
<1>2. TypeOK'
  BY <1>1 DEF IInv, TypeOK
<1>3. PendingCalls'
  <2> SUFFICES ASSUME NEW p \in Callers, call[p].pc \in {"calling", "replied"}
               PROVE  /\ call[p].began <= now + 1
                      /\ now + 1 <= call[p].began + CallTimeout
                      /\ call[p].floor <= Current(Resource(call[p].key))
                      /\ call[p].from = "none"
    BY <1>1 DEF PendingCalls, Current
  <2>1. call[p].began \in Nat
    BY DEF IInv, TypeOK, Calls
  <2>2. /\ call[p].began <= now /\ call[p].floor <= Current(Resource(call[p].key))
        /\ call[p].from = "none"
    BY DEF IInv, PendingCalls
  <2>3. now < call[p].began + CallTimeout
    BY DEF Tick
  <2> QED
    BY <1>1, <2>1, <2>2, <2>3
<1>4. AnswersCurrent'
  BY <1>1 DEF IInv, AnswersCurrent, WasCurrentSince, Current
<1>5. ExpiryInTTL'
  <2>1. \A k \in Keys : store[k].expiresAt \in Nat
    BY DEF IInv, TypeOK, Entries, NoEntry
  <2> QED
    BY <1>1, <2>1 DEF IInv, ExpiryInTTL
<1>6. StoreBoundedAge'
  BY <1>1 DEF IInv, StoreBoundedAge, Current, CacheKey
<1> QED
  BY <1>2, <1>3, <1>4, <1>5, <1>6 DEF IInv

\* Appending to the history of one resource keeps every version that was
\* current since t, for t not later than now.
LEMMA RotateKeeps ==
  ASSUME IInv, NEW r \in Resources, Rotate(r),
         NEW q \in Resources, NEW v \in 1 .. Current(q)
  PROVE  /\ Current(q) <= Current(q)'
         /\ v \in 1 .. Current(q)'
         /\ v # Current(q) => v # Current(q)' /\ history'[q][v + 1] = history[q][v + 1]
         /\ v = Current(q) => v = Current(q)' \/ history'[q][v + 1] = now
<1>1. history[q] \in Seq(Nat) /\ now \in Nat
  BY DEF IInv, TypeOK
<1>2. history'[q] = IF q = r THEN Append(history[q], now) ELSE history[q]
  BY DEF IInv, TypeOK, Rotate
<1>3. CASE q = r
  BY <1>1, <1>2, <1>3 DEF Current
<1>4. CASE q # r
  BY <1>1, <1>2, <1>4 DEF Current
<1> QED
  BY <1>3, <1>4

\* A resource gets a new version.
LEMMA RotateIInv == ASSUME IInv, NEW r \in Resources, Rotate(r) PROVE IInv'
<1> USE BoundsAssumption
<1>1. now \in Nat /\ UNCHANGED <<now, store, call>>
  BY DEF IInv, TypeOK, Rotate
<1>2. TypeOK'
  <2>1. history' \in [Resources -> Seq(Nat)]
    BY DEF IInv, TypeOK, Rotate
  <2>2. ASSUME NEW q \in Resources PROVE history'[q] # <<>>
    <3>1. history[q] \in Seq(Nat) /\ history[q] # <<>> /\ now \in Nat
      BY DEF IInv, TypeOK
    <3>2. history'[q] = IF q = r THEN Append(history[q], now) ELSE history[q]
      BY DEF IInv, TypeOK, Rotate
    <3>3. Len(Append(history[q], now)) # 0
      BY <3>1
    <3> QED
      BY <3>1, <3>2, <3>3
  <2> QED
    BY <1>1, <2>1, <2>2 DEF IInv, TypeOK
<1>3. ASSUME NEW q \in Resources PROVE Current(q) \in Nat /\ Current(q)' \in Nat
  BY <1>2 DEF IInv, TypeOK, Current
<1>4. ASSUME NEW q \in Resources PROVE Current(q) <= Current(q)'
  <2>1. history[q] \in Seq(Nat) /\ now \in Nat
    BY DEF IInv, TypeOK
  <2>2. history'[q] = IF q = r THEN Append(history[q], now) ELSE history[q]
    BY DEF IInv, TypeOK, Rotate
  <2>3. CASE q = r
    BY <2>1, <2>2, <2>3 DEF Current
  <2>4. CASE q # r
    BY <2>1, <2>2, <2>4 DEF Current
  <2> QED
    BY <2>3, <2>4
<1>5. \A p \in Callers : call[p].key \in Keys /\ Resource(call[p].key) \in Resources
  BY KeyResource DEF IInv, TypeOK, Calls
<1>6. PendingCalls'
  <2> SUFFICES ASSUME NEW p \in Callers, call[p].pc \in {"calling", "replied"}
               PROVE  /\ call[p].began <= now
                      /\ now <= call[p].began + CallTimeout
                      /\ call[p].floor <= Current(Resource(call[p].key))'
                      /\ call[p].from = "none"
    BY <1>1 DEF PendingCalls, Current, Resource
  <2>1. PICK q \in Resources : q = Resource(call[p].key)
    BY <1>5
  <2>2. Current(q) <= Current(q)' /\ Current(q) \in Nat /\ Current(q)' \in Nat
    BY <1>3, <1>4
  <2>3. /\ call[p].began <= now /\ now <= call[p].began + CallTimeout
        /\ call[p].floor <= Current(q) /\ call[p].from = "none"
    BY <2>1 DEF IInv, PendingCalls
  <2>4. call[p].floor \in Nat
    BY DEF IInv, TypeOK, Calls
  <2>5. Current(Resource(call[p].key))' = Current(q)'
    BY <1>1, <2>1 DEF Resource, Current
  <2> QED
    BY <2>2, <2>3, <2>4, <2>5
<1>7. AnswersCurrent'
  <2> SUFFICES ASSUME NEW p \in Callers, call[p].pc = "replied", call[p].outcome = "ok"
               PROVE  /\ WasCurrentSince(Resource(call[p].key), call[p].ver, call[p].began)'
                      /\ call[p].floor <= call[p].ver
    BY <1>1 DEF AnswersCurrent, WasCurrentSince, Resource
  <2>1. PICK q \in Resources : q = Resource(call[p].key)
    BY <1>5
  <2>2. WasCurrentSince(q, call[p].ver, call[p].began) /\ call[p].floor <= call[p].ver
    BY <2>1 DEF IInv, AnswersCurrent
  <2>3. call[p].began <= now
    BY DEF IInv, PendingCalls
  <2>4. WasCurrentSince(q, call[p].ver, call[p].began)'
    BY <1>1, <2>2, <2>3, RotateKeeps DEF WasCurrentSince
  <2> QED
    BY <1>1, <2>1, <2>2, <2>4 DEF WasCurrentSince, Current
<1>8. ExpiryInTTL'
  BY <1>1 DEF IInv, ExpiryInTTL
<1>9. StoreBoundedAge'
  <2> SUFFICES ASSUME NEW k \in Keys, store[k] # NoEntry
               PROVE  /\ store[k].ver \in 1 .. Current(Resource(k))'
                      /\ \/ store[k].ver = Current(Resource(k))'
                         \/ history'[Resource(k)][store[k].ver + 1] + TTL + CallTimeout
                              >= store[k].expiresAt
    BY <1>1 DEF StoreBoundedAge, CacheKey, Current, Resource
  <2>1. Resource(k) \in Resources
    BY KeyResource
  <2>2. /\ store[k].ver \in 1 .. Current(Resource(k))
        /\ \/ store[k].ver = Current(Resource(k))
           \/ history[Resource(k)][store[k].ver + 1] + TTL + CallTimeout >= store[k].expiresAt
    BY DEF IInv, StoreBoundedAge, CacheKey
  <2>3. store[k].expiresAt <= now + TTL /\ store[k].expiresAt \in Nat
    BY DEF IInv, ExpiryInTTL, TypeOK, Entries
  <2>4. now + TTL + CallTimeout >= store[k].expiresAt
    BY <1>1, <2>3
  <2> QED
    BY <2>1, <2>2, <2>4, RotateKeeps
<1> QED
  BY <1>2, <1>6, <1>7, <1>8, <1>9 DEF IInv

\* A step that replaces one caller's record keeps the conjuncts of the
\* invariant about calls when the new record meets them.
LEMMA CallStep ==
  ASSUME IInv, NEW p \in Callers, NEW c \in Calls,
         now' = now, history' = history, call' = [call EXCEPT ![p] = c],
         c.pc \in {"calling", "replied"} =>
            /\ c.began <= now
            /\ now <= c.began + CallTimeout
            /\ c.floor <= Current(Resource(c.key))
            /\ c.from = "none",
         (c.pc = "replied" /\ c.outcome = "ok") =>
            /\ WasCurrentSince(Resource(c.key), c.ver, c.began)
            /\ c.floor <= c.ver
  PROVE  call' \in [Callers -> Calls] /\ PendingCalls' /\ AnswersCurrent'
<1>1. call \in [Callers -> Calls]
  BY DEF IInv, TypeOK
<1>2. \A q \in Callers : call'[q] = IF q = p THEN c ELSE call[q]
  BY <1>1
<1>3. PendingCalls'
  BY <1>2 DEF IInv, PendingCalls, Current
<1>4. AnswersCurrent'
  BY <1>2 DEF IInv, AnswersCurrent, WasCurrentSince, Current
<1> QED
  BY <1>1, <1>3, <1>4

\* A step that leaves the store alone keeps the conjuncts about it.
LEMMA StoreKept ==
  ASSUME IInv, now' = now, history' = history, store' = store
  PROVE  ExpiryInTTL' /\ StoreBoundedAge' /\ store' \in [Keys -> Entries]
         /\ now' \in Nat /\ history' \in [Resources -> Seq(Nat)]
         /\ \A r \in Resources : history'[r] # <<>>
  BY DEF IInv, TypeOK, ExpiryInTTL, StoreBoundedAge, Current, CacheKey

\* The versions in the store exist.
LEMMA StoredVersion ==
  ASSUME IInv, NEW k \in Keys
  PROVE  /\ store[k].ver \in Nat
         /\ store[k].expiresAt \in Nat
         /\ store[k].ver <= Current(Resource(k))
<1>1. Current(Resource(k)) \in Nat
  BY KeyResource DEF IInv, TypeOK, Current
<1>2. store[k] \in Entries
  BY DEF IInv, TypeOK
<1>3. CASE store[k] = NoEntry
  BY <1>1, <1>3 DEF NoEntry
<1>4. CASE store[k] # NoEntry
  <2>1. store[k].ver \in 1 .. Current(Resource(k))
    BY <1>4 DEF IInv, StoreBoundedAge, CacheKey
  <2> QED
    BY <1>1, <1>2, <1>4, <2>1 DEF Entries
<1> QED
  BY <1>3, <1>4

\* A call is entered.
LEMMA BeginIInv ==
  ASSUME IInv, NEW p \in Callers, NEW k \in Requests, Begin(p, k) PROVE IInv'
<1> DEFINE c == [pc |-> "calling", key |-> k, began |-> now, outcome |-> "none",
                 ver |-> 0, from |-> "none", floor |-> store[CacheKey(k)].ver]
<1>1. k \in Keys
  BY RequestsAssumption
<1>2. now \in Nat
  BY DEF IInv, TypeOK
<1>3. store[k].ver \in Nat /\ store[k].ver <= Current(Resource(k))
  BY <1>1, StoredVersion
<1>4. c \in Calls
  BY <1>1, <1>2, <1>3 DEF Calls, Outcomes, Sources, CacheKey
<1>5. call' = [call EXCEPT ![p] = c] /\ UNCHANGED <<now, history, store>>
  BY DEF Begin
<1>6. call' \in [Callers -> Calls] /\ PendingCalls' /\ AnswersCurrent'
  <2>1. PICK d \in Calls : d = c
    BY <1>4
  <2>2. call' = [call EXCEPT ![p] = d] /\ now' = now /\ history' = history
    BY <1>5, <2>1
  <2>3. d.pc = "calling" /\ d.began = now /\ d.key = k /\ d.floor = store[k].ver
        /\ d.from = "none"
    BY <2>1 DEF CacheKey
  <2>4. now <= now + CallTimeout
    BY <1>2, BoundsAssumption
  <2>5. d.floor <= Current(Resource(d.key))
    BY <1>3, <2>3
  <2>6. d.began <= now /\ now <= d.began + CallTimeout
    BY <1>2, <2>3, <2>4
  <2>7. d.pc # "replied"
    BY <2>3
  <2> HIDE DEF c
  <2> QED
    BY <2>2, <2>3, <2>5, <2>6, <2>7, CallStep
<1> QED
  BY <1>5, <1>6, StoreKept DEF IInv, TypeOK

\* The inner client answers with what Vault holds now.
LEMMA RespondIInv == ASSUME IInv, NEW p \in Callers, Respond(p) PROVE IInv'
<1> DEFINE k == call[p].key
           v == Current(Resource(k))
           c == [call[p] EXCEPT !.pc = "replied", !.outcome = OutcomeOf(k, v), !.ver = v]
<1>1. call[p] \in Calls /\ k \in Keys /\ now \in Nat
  BY DEF IInv, TypeOK, Calls
<1>2. v \in Nat /\ history[Resource(k)] \in Seq(Nat)
  BY <1>1, KeyResource DEF IInv, TypeOK, Current
<1>3. c \in Calls
  BY <1>1, <1>2 DEF Calls, Outcomes, OutcomeOf
<1>4. call' = [call EXCEPT ![p] = c] /\ UNCHANGED <<now, history, store>>
  BY DEF Respond
<1>5. call[p].pc = "calling"
  BY DEF Respond
<1>6. /\ call[p].began <= now /\ now <= call[p].began + CallTimeout
      /\ call[p].floor <= v /\ call[p].from = "none"
  BY <1>5 DEF IInv, PendingCalls
<1>7. c.began = call[p].began /\ c.floor = call[p].floor /\ c.key = k /\ c.ver = v
      /\ c.from = call[p].from
  BY <1>1 DEF Calls
<1>8. WasCurrentSince(Resource(k), v, c.began)
  <2>1. history[Resource(k)] # <<>>
    BY <1>1, KeyResource DEF IInv, TypeOK
  <2>2. v >= 1
    BY <1>2, <2>1 DEF Current
  <2> QED
    BY <1>2, <2>2 DEF WasCurrentSince
<1>9. call' \in [Callers -> Calls] /\ PendingCalls' /\ AnswersCurrent'
  <2> HIDE DEF c
  <2> QED
    BY <1>3, <1>4, <1>6, <1>7, <1>8, CallStep
<1> QED
  BY <1>4, <1>9, StoreKept DEF IInv, TypeOK

\* The inner client reports an error.
LEMMA ErrorIInv == ASSUME IInv, NEW p \in Callers, Refuse(p) \/ Drop(p) PROVE IInv'
<1>1. PICK o \in {"refused", "unreachable"} :
         call' = [call EXCEPT ![p] = [@ EXCEPT !.pc = "replied", !.outcome = o]]
  BY DEF Refuse, Drop
<1>2. call[p] \in Calls /\ call[p].pc = "calling" /\ UNCHANGED <<now, history, store>>
  BY DEF IInv, TypeOK, Refuse, Drop
<1>3. PICK d \in Calls : d = [call[p] EXCEPT !.pc = "replied", !.outcome = o]
  BY <1>2 DEF Calls, Outcomes
<1>4. d.began = call[p].began /\ d.floor = call[p].floor /\ d.key = call[p].key
      /\ d.outcome # "ok" /\ d.from = call[p].from
  BY <1>2, <1>3 DEF Calls
<1>5. d.began <= now /\ now <= d.began + CallTimeout /\ d.floor <= Current(Resource(d.key))
      /\ d.from = "none"
  BY <1>2, <1>4 DEF IInv, PendingCalls
<1>6. call' = [call EXCEPT ![p] = d]
  BY <1>1, <1>3
<1>7. call' \in [Callers -> Calls] /\ PendingCalls' /\ AnswersCurrent'
  BY <1>2, <1>4, <1>5, <1>6, CallStep
<1> QED
  BY <1>2, <1>7, StoreKept DEF IInv, TypeOK

\* A call returns to its goroutine.
LEMMA ReturnKeeps ==
  ASSUME IInv, NEW p \in Callers, NEW f \in Sources, NEW v \in Nat,
         Return(p, f, v), now' = now, history' = history
  PROVE  call' \in [Callers -> Calls] /\ PendingCalls' /\ AnswersCurrent'
<1>1. call[p] \in Calls
  BY DEF IInv, TypeOK
<1>2. PICK d \in Calls : d = [call[p] EXCEPT !.pc = "returned", !.from = f, !.ver = v,
                                             !.began = 0, !.floor = 0]
  BY <1>1 DEF Calls
<1>3. d.pc = "returned"
  BY <1>1, <1>2 DEF Calls
<1>4. call' = [call EXCEPT ![p] = d]
  BY <1>2 DEF Return
<1> QED
  BY <1>3, <1>4, CallStep

\* The answer of the inner client goes into the store.
LEMMA RefreshIInv == ASSUME IInv, NEW p \in Callers, Refresh(p) PROVE IInv'
<1> DEFINE k == call[p].key
           e == [ver |-> call[p].ver, expiresAt |-> now + TTL]
<1>1. /\ call[p].pc = "replied" /\ call[p].outcome = "ok"
      /\ store' = [store EXCEPT ![k] = e]
      /\ Return(p, "backend", call[p].ver)
      /\ UNCHANGED <<now, history>>
  BY DEF Refresh, CacheKey
<1>2. call[p] \in Calls /\ k \in Keys /\ Resource(k) \in Resources /\ now \in Nat
      /\ call[p].ver \in Nat /\ call[p].began \in Nat
  BY KeyResource DEF IInv, TypeOK, Calls
<1>3. history[Resource(k)] \in Seq(Nat) /\ Current(Resource(k)) \in Nat
  BY <1>2 DEF IInv, TypeOK, Current
<1>4. /\ call[p].ver \in 1 .. Current(Resource(k))
      /\ \/ call[p].ver = Current(Resource(k))
         \/ history[Resource(k)][call[p].ver + 1] >= call[p].began
  BY <1>1 DEF IInv, AnswersCurrent, WasCurrentSince
<1>5. now <= call[p].began + CallTimeout
  BY <1>1 DEF IInv, PendingCalls
<1>6. call' \in [Callers -> Calls] /\ PendingCalls' /\ AnswersCurrent'
  BY <1>1, <1>2, ReturnKeeps DEF Sources
<1>7. e \in Entries
  BY <1>2, <1>3, <1>4, BoundsAssumption DEF Entries
<1>8. store \in [Keys -> Entries]
  BY DEF IInv, TypeOK
<1>9. \A q \in Keys : store'[q] = IF q = k THEN e ELSE store[q]
  BY <1>1, <1>8
<1>10. store' \in [Keys -> Entries]
  BY <1>1, <1>7, <1>8
<1>11. ExpiryInTTL'
  BY <1>1, <1>2, <1>9, BoundsAssumption DEF IInv, ExpiryInTTL
<1>12. \/ e.ver = Current(Resource(k))
       \/ history[Resource(k)][e.ver + 1] + TTL + CallTimeout >= e.expiresAt
  <2>1. CASE call[p].ver = Current(Resource(k))
    BY <2>1
  <2>2. CASE call[p].ver # Current(Resource(k))
    <3>1. history[Resource(k)][call[p].ver + 1] \in Nat
      BY <1>3, <1>4, <2>2 DEF Current
    <3> QED
      BY <1>2, <1>4, <1>5, <2>2, <3>1, BoundsAssumption
  <2> QED
    BY <2>1, <2>2
<1>13. StoreBoundedAge'
  <2> SUFFICES ASSUME NEW q \in Keys, store'[q] # NoEntry
               PROVE  /\ store'[q].ver \in 1 .. Current(Resource(q))
                      /\ \/ store'[q].ver = Current(Resource(q))
                         \/ history[Resource(q)][store'[q].ver + 1] + TTL + CallTimeout
                              >= store'[q].expiresAt
    BY <1>1 DEF StoreBoundedAge, CacheKey, Current, Resource
  <2>1. CASE q = k
    BY <1>4, <1>9, <1>12, <2>1
  <2>2. CASE q # k
    <3>1. store'[q] = store[q]
      BY <1>9, <2>2
    <3> QED
      BY <3>1 DEF IInv, StoreBoundedAge, CacheKey
  <2> QED
    BY <2>1, <2>2
<1> QED
  BY <1>1, <1>2, <1>6, <1>10, <1>11, <1>13 DEF IInv, TypeOK

\* The store answers, or there is nothing to answer with.
LEMMA FallbackIInv ==
  ASSUME IInv, NEW p \in Callers, ServeStale(p) \/ Fail(p) PROVE IInv'
<1>1. call[p].key \in Keys
  BY DEF IInv, TypeOK, Calls
<1>2. UNCHANGED <<now, history, store>>
  BY DEF ServeStale, Fail
<1>3. store[call[p].key].ver \in Nat
  BY <1>1, StoredVersion
<1>4. PICK f \in Sources, v \in Nat : Return(p, f, v)
  BY <1>3 DEF ServeStale, Fail, Sources, CacheKey
<1>5. call' \in [Callers -> Calls] /\ PendingCalls' /\ AnswersCurrent'
  BY <1>2, <1>4, ReturnKeeps
<1> QED
  BY <1>2, <1>5, StoreKept DEF IInv, TypeOK

\* Nothing changes.
LEMMA StutterIInv == IInv /\ UNCHANGED vars => IInv'
  BY DEF vars, IInv, TypeOK, PendingCalls, AnswersCurrent, WasCurrentSince, ExpiryInTTL,
         StoreBoundedAge, CacheKey, Current

\* The invariant is inductive.
LEMMA NextIInv == IInv /\ [Next]_vars => IInv'
<1> SUFFICES ASSUME IInv, [Next]_vars PROVE IInv'
  OBVIOUS
<1>1. CASE Tick
  BY <1>1, TickIInv
<1>2. ASSUME NEW r \in Requested, Rotate(r) PROVE IInv'
  <2>1. r \in Resources
    BY RequestsAssumption, KeyResource DEF Requested
  <2> QED
    BY <1>2, <2>1, RotateIInv
<1>3. ASSUME NEW p \in Callers, NEW k \in Requests, Begin(p, k) PROVE IInv'
  BY <1>3, BeginIInv
<1>4. ASSUME NEW p \in Callers, Respond(p) PROVE IInv'
  BY <1>4, RespondIInv
<1>5. ASSUME NEW p \in Callers, Refuse(p) \/ Drop(p) PROVE IInv'
  BY <1>5, ErrorIInv
<1>6. ASSUME NEW p \in Callers, Refresh(p) PROVE IInv'
  BY <1>6, RefreshIInv
<1>7. ASSUME NEW p \in Callers, ServeStale(p) \/ Fail(p) PROVE IInv'
  BY <1>7, FallbackIInv
<1>8. CASE UNCHANGED vars
  BY <1>8, StutterIInv
<1> QED
  BY <1>1, <1>2, <1>3, <1>4, <1>5, <1>6, <1>7, <1>8 DEF Next, Environment, Step

\* Every reachable state satisfies the inductive invariant.
THEOREM InductiveInvariant == Spec => []IInv
  BY InitIInv, NextIInv, PTL DEF Spec

\* The variables of the client keep their types.
THEOREM TypeCorrect == Spec => []TypeOK
<1>1. IInv => TypeOK
  BY DEF IInv
<1> QED
  BY <1>1, InductiveInvariant, PTL

\* No entry of the store is a version that had been replaced more than
\* TTL + CallTimeout before the entry expires, for every number of goroutines.
THEOREM StoreAgeTheorem == Spec => []StoreBoundedAge
<1>1. IInv => StoreBoundedAge
  BY DEF IInv
<1> QED
  BY <1>1, InductiveInvariant, PTL

\* The result a call returns with.
LEMMA ReturnResult ==
  ASSUME IInv, NEW p \in Callers, NEW f, NEW v, Return(p, f, v)
  PROVE  call'[p].from = f /\ call'[p].ver = v
  BY DEF Return, IInv, TypeOK, Calls

\* A call that waits for its result gets one by reading or writing the store.
LEMMA RepliedStep ==
  ASSUME IInv, [Next]_vars, NEW p \in Callers,
         call[p].pc = "replied", call'[p].from # "none"
  PROVE  Refresh(p) \/ ServeStale(p) \/ Fail(p)
<1>1. call \in [Callers -> Calls] /\ call[p].from = "none"
  BY DEF IInv, TypeOK, PendingCalls
<1>2. call' # call
  BY <1>1
<1>3. PICK q \in Callers : (\E k \in Requests : Begin(q, k)) \/ Step(q)
  BY <1>2 DEF Next, Environment, vars, Tick, Rotate
<1>4. \A r \in Callers : r # q => call'[r] = call[r]
  BY <1>1, <1>3 DEF Begin, Step, Respond, Refuse, Drop, Refresh, ServeStale, Fail, Return
<1>5. q = p
  BY <1>1, <1>4
<1> QED
  BY <1>3, <1>5 DEF Begin, Step, Respond, Refuse, Drop

\* Which of the three it was shows in the result.
LEMMA ResultTellsStep ==
  ASSUME IInv, [Next]_vars, NEW p \in Callers, call[p].pc = "replied"
  PROVE  /\ call'[p].from = "cache" => ServeStale(p)
         /\ call'[p].from = "backend" => Refresh(p)
<1>1. Refresh(p) => call'[p].from = "backend"
  BY ReturnResult DEF Refresh
<1>2. ServeStale(p) => call'[p].from = "cache"
  BY ReturnResult DEF ServeStale
<1>3. Fail(p) => call'[p].from = "error"
  BY ReturnResult DEF Fail
<1> QED
  BY <1>1, <1>2, <1>3, RepliedStep

\* A fallback is bounded by TTL + CallTimeout, whatever the interleaving.
THEOREM ServedAgeTheorem == Spec => ServedNotTooOld
<1> DEFINE P(p) ==
             (call[p].pc = "replied" /\ call'[p].from = "cache") =>
                LET r == Resource(call[p].key)
                    v == call'[p].ver
                IN  /\ v \in 1 .. Current(r)
                    /\ v = Current(r) \/ history[r][v + 1] + TTL + CallTimeout >= now
<1>1. IInv /\ [Next]_vars => \A p \in Callers : P(p)
  <2> SUFFICES ASSUME IInv, [Next]_vars, NEW p \in Callers,
                      call[p].pc = "replied", call'[p].from = "cache"
               PROVE  P(p)
    OBVIOUS
  <2> DEFINE k == call[p].key
  <2>1. ServeStale(p)
    BY ResultTellsStep
  <2>2. k \in Keys /\ now \in Nat
    BY DEF IInv, TypeOK, Calls
  <2>3. store[k] # NoEntry /\ ~(now > store[k].expiresAt) /\ call'[p].ver = store[k].ver
    BY <2>1, ReturnResult DEF ServeStale, Unexpired, CacheKey
  <2>4. /\ store[k].ver \in 1 .. Current(Resource(k))
        /\ \/ store[k].ver = Current(Resource(k))
           \/ history[Resource(k)][store[k].ver + 1] + TTL + CallTimeout >= store[k].expiresAt
    BY <2>2, <2>3 DEF IInv, StoreBoundedAge, CacheKey
  <2>5. history[Resource(k)] \in Seq(Nat) /\ store[k].expiresAt \in Nat
    BY <2>2, KeyResource, StoredVersion DEF IInv, TypeOK
  <2>6. CASE store[k].ver = Current(Resource(k))
    BY <2>3, <2>4, <2>6
  <2>7. CASE store[k].ver # Current(Resource(k))
    <3>1. store[k].ver + 1 \in 1 .. Len(history[Resource(k)])
      BY <2>4, <2>5, <2>7 DEF Current
    <3>2. history[Resource(k)][store[k].ver + 1] \in Nat
      BY <2>5, <3>1
    <3>3. now <= store[k].expiresAt
      BY <2>2, <2>3, <2>5
    <3>4. PICK h \in Nat : h = history[Resource(k)][store[k].ver + 1]
      BY <3>2
    <3>5. h + TTL + CallTimeout >= store[k].expiresAt
      BY <2>4, <2>7, <3>4
    <3>6. h + TTL + CallTimeout >= now
      BY <2>2, <2>5, <3>3, <3>5, BoundsAssumption
    <3> QED
      BY <2>3, <2>4, <3>4, <3>6
  <2> QED
    BY <2>6, <2>7
<1>2. IInv /\ [Next]_vars => [\A p \in Callers : P(p)]_vars
  BY <1>1
<1> QED
  BY <1>2, InductiveInvariant, PTL DEF Spec, ServedNotTooOld

\* A call never puts into the store a version older than the one that was there
\* when the call began.
THEOREM NoRegressionTheorem == Spec => NoRegressionPastBegin
<1> DEFINE P(p) == (call[p].pc = "replied" /\ call'[p].from = "backend")
                      => store'[CacheKey(call[p].key)].ver >= call[p].floor
<1>1. IInv /\ [Next]_vars => \A p \in Callers : P(p)
  <2> SUFFICES ASSUME IInv, [Next]_vars, NEW p \in Callers,
                      call[p].pc = "replied", call'[p].from = "backend"
               PROVE  P(p)
    OBVIOUS
  <2>1. Refresh(p)
    BY ResultTellsStep
  <2>2. call[p].key \in Keys /\ store \in [Keys -> Entries]
    BY DEF IInv, TypeOK, Calls
  <2>3. store'[call[p].key].ver = call[p].ver /\ call[p].outcome = "ok"
    BY <2>1, <2>2 DEF Refresh, CacheKey
  <2>4. call[p].floor <= call[p].ver /\ call[p].floor \in Nat /\ call[p].ver \in Nat
    BY <2>3 DEF IInv, TypeOK, AnswersCurrent, Calls
  <2> QED
    BY <2>3, <2>4 DEF CacheKey
<1>2. IInv /\ [Next]_vars => [\A p \in Callers : P(p)]_vars
  BY <1>1
<1> QED
  BY <1>2, InductiveInvariant, PTL DEF Spec, NoRegressionPastBegin

-----------------------------------------------------------------------------
(* CachingClient implements CacheContract. *)

\* What a returning call shows.
LEMMA ReturnVisible ==
  ASSUME IInv, NEW p \in Callers, NEW f, NEW v,
         call[p].pc = "replied", Return(p, f, v), now' = now, history' = history
  PROVE  Contract!Return(p, f, v)
<1>1. call \in [Callers -> Calls] /\ call[p] \in Calls
  BY DEF IInv, TypeOK
<1>2. VisibleOps[p].phase = "busy" /\ VisibleOps[p].key = call[p].key
  BY DEF VisibleOps, OpOf
<1>3. \A q \in Callers : q # p => VisibleOps'[q] = VisibleOps[q]
  BY <1>1 DEF Return, VisibleOps, OpOf
<1>4. VisibleOps'[p] = Contract!Done(VisibleOps[p].key, f, v)
  <2>1. call'[p] = [call[p] EXCEPT !.pc = "returned", !.from = f, !.ver = v,
                                   !.began = 0, !.floor = 0]
    BY <1>1 DEF Return
  <2>2. /\ call'[p].pc = "returned" /\ call'[p].from = f /\ call'[p].ver = v
        /\ call'[p].began = 0 /\ call'[p].key = call[p].key
    BY <1>1, <2>1 DEF Calls
  <2>3. OpOf(call'[p]) = Contract!Done(call[p].key, f, v)
    BY <2>2 DEF OpOf, Contract!Done
  <2> QED
    BY <1>2, <2>3 DEF VisibleOps, OpOf
<1>5. VisibleOps' = [VisibleOps EXCEPT ![p] = Contract!Done(@.key, f, v)]
  BY <1>3, <1>4 DEF VisibleOps
<1> QED
  BY <1>2, <1>5 DEF Contract!Return

\* The initial states.
LEMMA InitContract == Init => Contract!Init
<1> SUFFICES ASSUME Init PROVE Contract!Init
  OBVIOUS
<1>1. GoodUntil = [k \in Keys |-> Contract!NotRead]
  BY DEF Init, GoodUntil, Contract!NotRead, NoEntry
<1>2. <<"listmounts", MountTable>> \in Keys
  BY DEF Keys
<1>3. \A p \in Callers : VisibleOps[p] = Contract!Done(<<"listmounts", MountTable>>, "none", 0)
  BY DEF Init, VisibleOps, OpOf, Contract!Done
<1>4. VisibleOps \in [Callers -> {Contract!Done(k, "none", 0) : k \in Keys}]
  BY <1>2, <1>3 DEF VisibleOps
<1> QED
  BY <1>1, <1>4 DEF Init, Contract!Init

\* Time and rotations are the same in both.
LEMMA EnvironmentContract ==
  ASSUME IInv, Environment PROVE Contract!Next
<1>1. CASE Tick
  BY <1>1 DEF Tick, Contract!Next, Contract!PassTime, GoodUntil, VisibleOps
<1>2. ASSUME NEW r \in Requested, Rotate(r) PROVE Contract!Next
  <2>1. r \in Resources
    BY RequestsAssumption, KeyResource DEF Requested
  <2>2. Contract!Change(r)
    BY <1>2 DEF Rotate, Contract!Change, GoodUntil, VisibleOps
  <2> QED
    BY <2>1, <2>2 DEF Contract!Next
<1> QED
  BY <1>1, <1>2 DEF Environment

\* Entering a call is Invoke.
LEMMA BeginContract ==
  ASSUME IInv, NEW p \in Callers, NEW k \in Requests, Begin(p, k)
  PROVE  Contract!Invoke(p, k)
<1>1. call \in [Callers -> Calls] /\ VisibleOps[p].phase = "idle"
  BY DEF IInv, TypeOK, Begin, VisibleOps, OpOf
<1>2. \A q \in Callers :
         VisibleOps'[q] = IF q = p
                          THEN [phase |-> "busy", key |-> k, began |-> now,
                                from |-> "none", ver |-> 0]
                          ELSE VisibleOps[q]
  BY <1>1 DEF VisibleOps, OpOf, Begin
<1>3. VisibleOps' = [VisibleOps EXCEPT ![p] = [phase |-> "busy", key |-> k, began |-> now,
                                               from |-> "none", ver |-> 0]]
  BY <1>2 DEF VisibleOps
<1> QED
  BY <1>1, <1>3 DEF Begin, Contract!Invoke, GoodUntil

\* The outcome of the inner call is not visible.
LEMMA OutcomeContract ==
  ASSUME IInv, NEW p \in Callers, Respond(p) \/ Refuse(p) \/ Drop(p)
  PROVE  UNCHANGED Contract!vars
<1>1. call \in [Callers -> Calls]
  BY DEF IInv, TypeOK
<1>2. \A q \in Callers : VisibleOps'[q] = VisibleOps[q]
  <2>1. \A q \in Callers : q # p => call'[q] = call[q]
    BY <1>1 DEF Respond, Refuse, Drop
  <2>2. call[p] \in Calls /\ call[p].pc = "calling"
    BY <1>1 DEF Respond, Refuse, Drop
  <2>3. /\ call'[p].pc = "replied" /\ call'[p].key = call[p].key
        /\ call'[p].began = call[p].began /\ call'[p].from = call[p].from
    <3>1. CASE Respond(p)
      BY <1>1, <2>2, <3>1, SMTT(20) DEF Respond, Calls
    <3>2. CASE Refuse(p)
      BY <1>1, <2>2, <3>2, SMTT(20) DEF Refuse, Calls
    <3>3. CASE Drop(p)
      BY <1>1, <2>2, <3>3, SMTT(20) DEF Drop, Calls
    <3> QED
      BY <3>1, <3>2, <3>3
  <2>4. \A q \in Callers : OpOf(call'[q]) = OpOf(call[q])
    BY <2>1, <2>2, <2>3 DEF OpOf
  <2> QED
    BY <2>4 DEF VisibleOps, OpOf
<1>3. VisibleOps' = VisibleOps
  BY <1>2 DEF VisibleOps
<1>4. UNCHANGED <<now, history, store>>
  BY DEF Respond, Refuse, Drop
<1> QED
  BY <1>3, <1>4 DEF Contract!vars, GoodUntil

\* A refresh is a live return.
LEMMA RefreshContract ==
  ASSUME IInv, NEW p \in Callers, Refresh(p) PROVE Contract!ReturnLive(p)
<1> DEFINE k == call[p].key
<1>1. /\ call[p].pc = "replied" /\ call[p].outcome = "ok"
      /\ store' = [store EXCEPT ![k] = [ver |-> call[p].ver, expiresAt |-> now + TTL]]
      /\ Return(p, "backend", call[p].ver)
      /\ UNCHANGED <<now, history>>
  BY DEF Refresh, CacheKey
<1>2. k \in Keys /\ store \in [Keys -> Entries]
  BY DEF IInv, TypeOK, Calls
<1>3. Contract!Return(p, "backend", call[p].ver)
  BY <1>1, ReturnVisible
<1>4. WasCurrentSince(Resource(k), call[p].ver, call[p].began)
  BY <1>1 DEF IInv, AnswersCurrent
<1>5. VisibleOps[p].key = k /\ VisibleOps[p].began = call[p].began
      /\ ResourceOfKey[k] = Resource(k)
  BY <1>2 DEF VisibleOps, OpOf, ResourceOfKey
<1>6. /\ call[p].ver \in 1 .. Len(history[Resource(k)])
      /\ Contract!CurrentSince(ResourceOfKey[VisibleOps[p].key], call[p].ver,
                               VisibleOps[p].began)
  BY <1>4, <1>5 DEF WasCurrentSince, Current, Contract!CurrentSince
<1>7. GoodUntil' = [GoodUntil EXCEPT ![k] = [read |-> TRUE, until |-> now + TTL]]
  <2>1. [ver |-> call[p].ver, expiresAt |-> now + TTL] # NoEntry
    BY <1>4 DEF NoEntry, WasCurrentSince
  <2>2. \A q \in Keys : GoodUntil'[q] = IF q = k THEN [read |-> TRUE, until |-> now + TTL]
                                        ELSE GoodUntil[q]
    BY <1>1, <1>2, <2>1 DEF GoodUntil
  <2> QED
    BY <1>2, <2>2 DEF GoodUntil
<1> QED
  BY <1>3, <1>5, <1>6, <1>7 DEF Contract!ReturnLive

\* A fallback is a stale return.
LEMMA ServeStaleContract ==
  ASSUME IInv, [Next]_vars, NEW p \in Callers, ServeStale(p) PROVE Contract!ReturnStale(p)
<1> DEFINE k == call[p].key
<1>1. /\ call[p].pc = "replied" /\ Unexpired(k)
      /\ Return(p, "cache", store[k].ver)
      /\ UNCHANGED <<now, history, store>>
  BY DEF ServeStale, CacheKey
<1>2. k \in Keys /\ store \in [Keys -> Entries] /\ now \in Nat
  BY DEF IInv, TypeOK, Calls
<1>3. Contract!Return(p, "cache", store[k].ver)
  BY <1>1, ReturnVisible
<1>4. VisibleOps[p].key = k /\ ResourceOfKey[k] = Resource(k)
  BY <1>2 DEF VisibleOps, OpOf, ResourceOfKey
<1>5. store[k] # NoEntry /\ store[k].expiresAt \in Nat /\ now <= store[k].expiresAt
  BY <1>1, <1>2, StoredVersion DEF Unexpired, CacheKey
<1>6. Contract!InTTL(k)
  BY <1>2, <1>5 DEF Contract!InTTL, GoodUntil
<1>7. /\ store[k].ver \in 1 .. Current(Resource(k))
      /\ store[k].ver = Current(Resource(k))
           \/ history[Resource(k)][store[k].ver + 1] + TTL + CallTimeout >= store[k].expiresAt
  BY <1>2, <1>5 DEF IInv, StoreBoundedAge, CacheKey
<1>8. history[Resource(k)] \in Seq(Nat)
  BY <1>2, KeyResource DEF IInv, TypeOK
<1>9. \/ store[k].ver = Current(Resource(k))
      \/ history[Resource(k)][store[k].ver + 1] + (TTL + CallTimeout) >= now
  <2>1. CASE store[k].ver # Current(Resource(k))
    <3>1. store[k].ver + 1 \in 1 .. Len(history[Resource(k)])
      BY <1>7, <1>8, <2>1 DEF Current
    <3>2. PICK h \in Nat : h = history[Resource(k)][store[k].ver + 1]
      BY <1>8, <3>1
    <3>3. h + TTL + CallTimeout >= store[k].expiresAt
      BY <1>7, <2>1, <3>2
    <3>4. h + (TTL + CallTimeout) >= now
      BY <1>2, <1>5, <3>3, BoundsAssumption
    <3> QED
      BY <3>2, <3>4
  <2> QED
    BY <2>1
<1>10. /\ store[k].ver \in 1 .. Len(history[ResourceOfKey[VisibleOps[p].key]])
       /\ Contract!CurrentWithin(ResourceOfKey[VisibleOps[p].key], store[k].ver,
                                 TTL + CallTimeout)
  BY <1>4, <1>7, <1>9 DEF Current, Contract!CurrentWithin
<1>11. GoodUntil' = GoodUntil
  BY <1>1 DEF GoodUntil
<1> QED
  BY <1>3, <1>4, <1>6, <1>10, <1>11 DEF Contract!ReturnStale

\* An error is one that the contract allows.
LEMMA FailContract ==
  ASSUME IInv, NEW p \in Callers, Fail(p) PROVE Contract!ReturnError(p)
<1> DEFINE k == call[p].key
<1>1. /\ call[p].pc = "replied" /\ ~Unexpired(k) /\ Return(p, "error", 0)
      /\ UNCHANGED <<now, history, store>>
  BY DEF Fail
<1>2. k \in Keys /\ now \in Nat
  BY DEF IInv, TypeOK, Calls
<1>3. Contract!Return(p, "error", 0)
  BY <1>1, ReturnVisible
<1>4. VisibleOps[p].key = k
  BY DEF VisibleOps, OpOf
<1>5. store[k].expiresAt \in Nat
  BY <1>2, StoredVersion
<1>6. ~Contract!InTTL(k)
  <2>1. store[k] = NoEntry \/ now > store[k].expiresAt
    BY <1>1 DEF Unexpired, CacheKey
  <2>2. /\ GoodUntil[k].read <=> store[k] # NoEntry
        /\ GoodUntil[k].until = store[k].expiresAt
    BY <1>2 DEF GoodUntil
  <2> QED
    BY <1>2, <1>5, <2>1, <2>2 DEF Contract!InTTL
<1> QED
  BY <1>1, <1>3, <1>4, <1>6 DEF Contract!ReturnError, GoodUntil

\* Every behaviour of the caching client keeps the promises of CacheContract:
\* live answers were current during the call, fallbacks are at most
\* TTL + CallTimeout out of date, errors come only after a TTL without success.
THEOREM Implements == Spec => ContractSpec
<1>1. IInv /\ [Next]_vars => [Contract!Next]_(Contract!vars)
  <2> SUFFICES ASSUME IInv, [Next]_vars PROVE Contract!Next \/ UNCHANGED Contract!vars
    OBVIOUS
  <2>1. CASE Environment
    BY <2>1, EnvironmentContract
  <2>2. ASSUME NEW p \in Callers, NEW k \in Requests, Begin(p, k) PROVE Contract!Next
    BY <2>2, BeginContract DEF Contract!Next
  <2>3. ASSUME NEW p \in Callers, Respond(p) \/ Refuse(p) \/ Drop(p)
        PROVE  UNCHANGED Contract!vars
    BY <2>3, OutcomeContract
  <2>4. ASSUME NEW p \in Callers, Refresh(p) PROVE Contract!Next
    BY <2>4, RefreshContract DEF Contract!Next
  <2>5. ASSUME NEW p \in Callers, ServeStale(p) PROVE Contract!Next
    BY <2>5, ServeStaleContract DEF Contract!Next
  <2>6. ASSUME NEW p \in Callers, Fail(p) PROVE Contract!Next
    BY <2>6, FailContract DEF Contract!Next
  <2>7. CASE UNCHANGED vars
    BY <2>7 DEF vars, Contract!vars, GoodUntil, VisibleOps
  <2> QED
    BY <2>1, <2>2, <2>3, <2>4, <2>5, <2>6, <2>7 DEF Next, Step
<1> QED
  BY <1>1, InitContract, InductiveInvariant, PTL DEF Spec, ContractSpec, Contract!Spec
=============================================================================
