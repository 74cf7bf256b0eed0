--------------------------- MODULE CachingClient ---------------------------
(***************************************************************************)
(* pkg/vault/cache.go: the CachingClient that -cache puts in front of the  *)
(* Vault client.  Filesystem worker threads (Callers) call it at the same  *)
(* time.  A call asks the inner client first; a success is written into    *)
(* the store under a write lock, an error is answered from the store when  *)
(* an unexpired entry is there.                                            *)
(*                                                                         *)
(* The three steps of a call are separate actions because nothing is       *)
(* locked between them: the inner call goes out (Begin), its outcome comes *)
(* back (Respond, Refuse, Drop), and the store is written or read          *)
(* (Refresh, ServeStale, Fail).                                            *)
(*                                                                         *)
(* The data is abstracted to version numbers: history[r][v] is the instant *)
(* at which version v of resource r became current in Vault, so Len is the *)
(* current version.                                                        *)
(***************************************************************************)
EXTENDS Naturals, Sequences

CONSTANTS
    Callers,      \* goroutines of the filesystem that call the client
    Paths,        \* secret paths
    MountTable,   \* the resource ListMounts reads
    Requests,     \* the cache keys that callers ask for
    Tombstones,   \* versions in which the secret does not exist
    TTL,          \* c.ttl
    CallTimeout,  \* longest an inner call takes, from request to c.set/c.get
    MaxVersion,   \* bound: versions per resource
    MaxTime       \* bound: the clock

Resources == Paths \cup {MountTable}

\* "list:"+path, "read:"+path, "pathexists:"+path, "listmounts"
Keys == ({"list", "read", "pathexists"} \X Paths) \cup {<<"listmounts", MountTable>>}

Resource(k) == k[2]

\* Only resources that are read are worth rotating.
Requested == {Resource(k) : k \in Requests}

ASSUME RequestsAssumption == Requests \subseteq Keys
ASSUME BoundsAssumption ==
    /\ TTL \in Nat
    /\ CallTimeout \in Nat
    /\ MaxVersion \in Nat
    /\ MaxTime \in Nat
    /\ Tombstones \subseteq Nat

VARIABLES
    now,      \* the clock
    history,  \* what Vault holds, see above
    store,    \* c.store
    call      \* the call each caller has in progress, or its last one

vars == <<now, history, store, call>>

-----------------------------------------------------------------------------
(* Types *)

NoEntry == [ver |-> 0, expiresAt |-> 0]
Entries == [ver : Nat \ {0}, expiresAt : Nat] \cup {NoEntry}

Outcomes == {"none", "ok", "absent", "refused", "unreachable"}
Sources == {"none", "backend", "cache", "error"}

\* floor is a history field: the version cached for the key when the call began.
Calls == [pc : {"idle", "calling", "replied", "returned"},
          key : Keys, began : Nat, outcome : Outcomes,
          ver : Nat, from : Sources, floor : Nat]

TypeOK ==
    /\ now \in Nat
    /\ history \in [Resources -> Seq(Nat)]
    /\ \A r \in Resources : history[r] # <<>>
    /\ store \in [Keys -> Entries]
    /\ call \in [Callers -> Calls]

Current(r) == Len(history[r])

\* Version v of r was current at some instant not before t.
WasCurrentSince(r, v, t) ==
    /\ v \in 1 .. Current(r)
    /\ v = Current(r) \/ history[r][v + 1] >= t

-----------------------------------------------------------------------------
(* The entry under which a request is stored, and its expiry *)

\* Mutant: a copied key constant.
SharedCacheKey(k) == <<"listmounts", MountTable>>

CacheKey(k) == k

\* Mutant: only the presence of the key is looked at.
PresentOnly(k) == store[CacheKey(k)] # NoEntry

Unexpired(k) ==
    /\ store[CacheKey(k)] # NoEntry
    /\ ~(now > store[CacheKey(k)].expiresAt)

Init ==
    /\ now = 0
    /\ history = [r \in Resources |-> <<0>>]
    /\ store = [k \in Keys |-> NoEntry]
    /\ call = [p \in Callers |->
                 [pc |-> "idle", key |-> <<"listmounts", MountTable>>, began |-> 0,
                  outcome |-> "none", ver |-> 0, from |-> "none", floor |-> 0]]

-----------------------------------------------------------------------------
(* The environment: time and the rotation of secrets *)

\* Time passes, but no inner call outlives the HTTP timeout of the Vault client.
Tick ==
    /\ now < MaxTime
    /\ \A p \in Callers : call[p].pc \in {"calling", "replied"}
                             => now < call[p].began + CallTimeout
    /\ now' = now + 1
    /\ UNCHANGED <<history, store, call>>

\* Another Vault user writes or deletes the resource.
Rotate(r) ==
    /\ Current(r) < MaxVersion
    /\ history' = [history EXCEPT ![r] = Append(@, now)]
    /\ UNCHANGED <<now, store, call>>

-----------------------------------------------------------------------------
(* One call *)

\* List, Read, PathExists or ListMounts is entered and calls the inner client.
Begin(p, k) ==
    /\ call[p].pc \in {"idle", "returned"}
    /\ call' = [call EXCEPT ![p] =
                  [pc |-> "calling", key |-> k, began |-> now, outcome |-> "none",
                   ver |-> 0, from |-> "none", floor |-> store[CacheKey(k)].ver]]
    /\ UNCHANGED <<now, history, store>>

\* At any moment Vault may answer with what it holds, answer with an error, or
\* not be reached: Respond, Refuse and Drop.

\* What the inner client makes of a version: only Read turns a 404 into an
\* error, List turns it into an empty list and PathExists into "no".
OutcomeOf(k, v) == IF k[1] = "read" /\ v \in Tombstones THEN "absent" ELSE "ok"

Respond(p) ==
    /\ call[p].pc = "calling"
    /\ LET k == call[p].key
           v == Current(Resource(k))
       IN  call' = [call EXCEPT ![p] = [@ EXCEPT !.pc = "replied",
                                                 !.outcome = OutcomeOf(k, v),
                                                 !.ver = v]]
    /\ UNCHANGED <<now, history, store>>

\* Vault answers with a status the inner client reports as an error.
Refuse(p) ==
    /\ call[p].pc = "calling"
    /\ call' = [call EXCEPT ![p] = [@ EXCEPT !.pc = "replied", !.outcome = "refused"]]
    /\ UNCHANGED <<now, history, store>>

\* The request or its answer is lost: a transport error.
Drop(p) ==
    /\ call[p].pc = "calling"
    /\ call' = [call EXCEPT ![p] = [@ EXCEPT !.pc = "replied", !.outcome = "unreachable"]]
    /\ UNCHANGED <<now, history, store>>

\* The call returns to the goroutine that made it.
Return(p, from, v) ==
    call' = [call EXCEPT ![p] = [@ EXCEPT !.pc = "returned", !.from = from, !.ver = v,
                                          !.began = 0, !.floor = 0]]

\* Mutant: the result is stored before err is looked at.
RefreshUnchecked(p) ==
    /\ call[p].pc = "replied"
    /\ store' = [store EXCEPT ![CacheKey(call[p].key)] =
                   [ver |-> call[p].ver, expiresAt |-> now + TTL]]
    /\ Return(p, "backend", call[p].ver)
    /\ UNCHANGED <<now, history>>

\* err == nil: c.set(key, result), then the result is returned.
Refresh(p) ==
    /\ call[p].pc = "replied"
    /\ call[p].outcome = "ok"
    /\ store' = [store EXCEPT ![CacheKey(call[p].key)] =
                   [ver |-> call[p].ver, expiresAt |-> now + TTL]]
    /\ Return(p, "backend", call[p].ver)
    /\ UNCHANGED <<now, history>>

\* err # nil and c.get finds an unexpired entry.
ServeStale(p) ==
    /\ call[p].pc = "replied"
    /\ call[p].outcome # "ok"
    /\ Unexpired(call[p].key)
    /\ Return(p, "cache", store[CacheKey(call[p].key)].ver)
    /\ UNCHANGED <<now, history, store>>

\* Mutant: the error is returned without a look at the store.
FailAtOnce(p) ==
    /\ call[p].pc = "replied"
    /\ call[p].outcome # "ok"
    /\ Return(p, "error", 0)
    /\ UNCHANGED <<now, history, store>>

\* err # nil and there is nothing to serve.
Fail(p) ==
    /\ call[p].pc = "replied"
    /\ call[p].outcome # "ok"
    /\ ~Unexpired(call[p].key)
    /\ Return(p, "error", 0)
    /\ UNCHANGED <<now, history, store>>

-----------------------------------------------------------------------------
Environment == Tick \/ \E r \in Requested : Rotate(r)

Step(p) == Respond(p) \/ Refuse(p) \/ Drop(p) \/ Refresh(p) \/ ServeStale(p) \/ Fail(p)

Next ==
    \/ Environment
    \/ \E p \in Callers, k \in Requests : Begin(p, k)
    \/ \E p \in Callers : Step(p)

Spec == Init /\ [][Next]_vars

-----------------------------------------------------------------------------
(* Properties *)

\* What the store may hold: a version of the entry's own resource that was
\* still current TTL + CallTimeout before the entry expires.  The write of the
\* store (cache.go:56-63) happens after the inner call, so the slack over the
\* TTL is the age of the slowest answer, and no more.
StoreBoundedAge ==
    \A k \in Keys :
        LET e == store[CacheKey(k)]
        IN  e # NoEntry =>
              /\ e.ver \in 1 .. Current(Resource(k))
              /\ \/ e.ver = Current(Resource(k))
                 \/ history[Resource(k)][e.ver + 1] + TTL + CallTimeout >= e.expiresAt

\* The fallback of List, Read, PathExists and ListMounts (cache.go:78, 92, 108,
\* 125) never returns a version that was replaced more than TTL + CallTimeout
\* ago, however calls of other goroutines interleave.
ServedNotTooOld ==
    [][\A p \in Callers :
         (call[p].pc = "replied" /\ call'[p].from = "cache") =>
            LET r == Resource(call[p].key)
                v == call'[p].ver
            IN  /\ v \in 1 .. Current(r)
                /\ v = Current(r) \/ history[r][v + 1] + TTL + CallTimeout >= now]_vars

\* c.set does not compare what it writes with what is there, so an older answer
\* can replace a newer one; but only an answer of a call that was already under
\* way when the newer one was written: no version the cache held when a call
\* began is ever replaced by an older one by that call.
NoRegressionPastBegin ==
    [][\A p \in Callers :
         (call[p].pc = "replied" /\ call'[p].from = "backend")
            => store'[CacheKey(call[p].key)].ver >= call[p].floor]_vars

\* The inductive invariant behind them: a call is not older than the HTTP
\* timeout and has no result yet; an answer waiting to be stored was current at some instant since
\* its call began and is not older than what was cached then; no entry outlives
\* a TTL that starts now.
PendingCalls ==
    \A p \in Callers : call[p].pc \in {"calling", "replied"} =>
        /\ call[p].began <= now
        /\ now <= call[p].began + CallTimeout
        /\ call[p].floor <= Current(Resource(call[p].key))
        /\ call[p].from = "none"

AnswersCurrent ==
    \A p \in Callers : (call[p].pc = "replied" /\ call[p].outcome = "ok") =>
        /\ WasCurrentSince(Resource(call[p].key), call[p].ver, call[p].began)
        /\ call[p].floor <= call[p].ver

ExpiryInTTL == \A k \in Keys : store[k].expiresAt <= now + TTL

IInv == TypeOK /\ PendingCalls /\ AnswersCurrent /\ ExpiryInTTL /\ StoreBoundedAge

\* The refinement mapping onto CacheContract: what a user of the client can see
\* of a call, and until when a key that was read can be answered.
OpOf(c) ==
    [phase |-> IF c.pc \in {"calling", "replied"} THEN "busy" ELSE "idle",
     key |-> c.key, began |-> c.began,
     from |-> c.from, ver |-> IF c.pc = "returned" THEN c.ver ELSE 0]

VisibleOps == [p \in Callers |-> OpOf(call[p])]

GoodUntil == [k \in Keys |-> [read |-> store[k] # NoEntry, until |-> store[k].expiresAt]]

ResourceOfKey == [k \in Keys |-> Resource(k)]

Contract == INSTANCE CacheContract WITH
                ResourceOf <- ResourceOfKey, goodUntil <- GoodUntil, op <- VisibleOps

\* Every behaviour of the caching client is one that CacheContract allows.
ContractSpec == Contract!Spec

=============================================================================
