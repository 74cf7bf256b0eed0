--------------------------- MODULE CacheContract ---------------------------
(***************************************************************************)
(* What a user of pkg/vault/cache.go may rely on, without a store:         *)
(*   - a call that reports a live value returns one that was current       *)
(*     while the call ran;                                                 *)
(*   - a call that falls back returns a value that was current not longer  *)
(*     than TTL + CallTimeout ago, and only while a success of the same    *)
(*     key is at most TTL old;                                             *)
(*   - a call returns an error only when no success of its key is that     *)
(*     recent.                                                             *)
(***************************************************************************)
EXTENDS Naturals, Sequences

CONSTANTS
    Callers, Keys, Requests, Resources,
    ResourceOf,   \* the resource a key reads
    TTL, CallTimeout

VARIABLES
    now,
    history,      \* history[r][v] is the instant version v became current
    goodUntil,    \* the keys that were read successfully, with the end of their TTL
    op            \* the operation of each caller

vars == <<now, history, goodUntil, op>>

NotRead == [read |-> FALSE, until |-> 0]

\* An operation that is over, with its result.
Done(k, from, v) == [phase |-> "idle", key |-> k, began |-> 0, from |-> from, ver |-> v]

CurrentSince(r, v, t) ==
    /\ v \in 1 .. Len(history[r])
    /\ v = Len(history[r]) \/ history[r][v + 1] >= t

CurrentWithin(r, v, d) ==
    /\ v \in 1 .. Len(history[r])
    /\ v = Len(history[r]) \/ history[r][v + 1] + d >= now

InTTL(k) == goodUntil[k].read /\ now <= goodUntil[k].until

-----------------------------------------------------------------------------
Init ==
    /\ now = 0
    /\ history = [r \in Resources |-> <<0>>]
    /\ goodUntil = [k \in Keys |-> NotRead]
    /\ op \in [Callers -> {Done(k, "none", 0) : k \in Keys}]

PassTime ==
    /\ now' = now + 1
    /\ UNCHANGED <<history, goodUntil, op>>

Change(r) ==
    /\ history' = [history EXCEPT ![r] = Append(@, now)]
    /\ UNCHANGED <<now, goodUntil, op>>

Invoke(p, k) ==
    /\ op[p].phase = "idle"
    /\ op' = [op EXCEPT ![p] = [phase |-> "busy", key |-> k, began |-> now,
                                from |-> "none", ver |-> 0]]
    /\ UNCHANGED <<now, history, goodUntil>>

Return(p, from, v) ==
    /\ op[p].phase = "busy"
    /\ op' = [op EXCEPT ![p] = Done(@.key, from, v)]
    /\ UNCHANGED <<now, history>>

ReturnLive(p) ==
    /\ \E v \in 1 .. Len(history[ResourceOf[op[p].key]]) :
          /\ CurrentSince(ResourceOf[op[p].key], v, op[p].began)
          /\ Return(p, "backend", v)
    /\ goodUntil' = [goodUntil EXCEPT ![op[p].key] = [read |-> TRUE, until |-> now + TTL]]

ReturnStale(p) ==
    /\ InTTL(op[p].key)
    /\ \E v \in 1 .. Len(history[ResourceOf[op[p].key]]) :
          /\ CurrentWithin(ResourceOf[op[p].key], v, TTL + CallTimeout)
          /\ Return(p, "cache", v)
    /\ UNCHANGED goodUntil

ReturnError(p) ==
    /\ ~InTTL(op[p].key)
    /\ Return(p, "error", 0)
    /\ UNCHANGED goodUntil

Next ==
    \/ PassTime
    \/ \E r \in Resources : Change(r)
    \/ \E p \in Callers, k \in Requests : Invoke(p, k)
    \/ \E p \in Callers : ReturnLive(p) \/ ReturnStale(p) \/ ReturnError(p)

Spec == Init /\ [][Next]_vars
=============================================================================
