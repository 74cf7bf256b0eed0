---------------------------- MODULE TokenRenewal ----------------------------
(***************************************************************************)
(* pkg/auth/authenticator.go: the background renewal of a Vault token.     *)
(*                                                                         *)
(* Controllers are goroutines that call Authenticate, StartRenewal and     *)
(* StopRenewal; in cmd/cli/main.go there is one, it authenticates once,    *)
(* starts once and stops once.  Every start that finds a live token runs a *)
(* renewLoop goroutine, loop i for the i-th start; its stop channel has    *)
(* the same number.  A loop sleeps for half the lease, renews, and looks   *)
(* at a.renewDone again without holding a.mu.                              *)
(*                                                                         *)
(* The Vault side is external: one token, its expiry, and whether requests *)
(* and answers get through.  A lease is a number of clock ticks.  What a   *)
(* goroutine does between two waits takes no time on that clock: it only   *)
(* advances when every goroutine waits for a timer or for the network.     *)
(***************************************************************************)
EXTENDS Naturals, FiniteSets

CONSTANTS
    Controllers,   \* goroutines that use the Authenticator
    Reauth,        \* canReauthenticate(): TRUE for the token method
    Lease,         \* the lease of the token at login
    Grants,        \* the leases that Vault may give it at a renewal
    MinSleep,      \* the 10 second floor of renewLoop
    HttpTimeout,   \* httpClient.Timeout
    MaxStarts,     \* bound: calls of StartRenewal that get past the flag
    MaxTime        \* bound: the clock

ASSUME ParametersAssumption ==
    /\ Reauth \in BOOLEAN
    /\ {Lease, MinSleep, HttpTimeout, MaxStarts, MaxTime} \subseteq Nat
    /\ Lease > 0
    /\ Lease \in Grants /\ Grants \subseteq Nat

Loops == 1 .. MaxStarts

VARIABLES
    now,
    expiry,     \* Vault: the token is valid up to and including this instant
    result,     \* a.result
    renewing,   \* a.renewing
    renewDone,  \* a.renewDone, the number of the channel, 0 for nil
    closed,     \* the channels that are closed
    starts,     \* channels made so far
    ctl,        \* what each controller is doing
    loop,       \* the renewLoop goroutines
    late,       \* history: renewals begun since StopRenewal returned
    lost        \* history: a request about a valid token went unanswered, or a
                \* renewal gave it another lease or made it not renewable

vars == <<now, expiry, result, renewing, renewDone, closed, starts, ctl, loop, late, lost>>

-----------------------------------------------------------------------------
(* Types *)

\* An AuthResult is its lease and its Renewable flag; the token is one token.
Results == [lease : Nat, renewable : BOOLEAN]
NoResult == [lease |-> 0, renewable |-> FALSE]

Live(r) == r.renewable /\ r.lease > 0

\* "top"      before the lock at the head of the loop
\* "arm"      the sleep is computed, a.renewDone not yet read
\* "asleep"   blocked in the select
\* "woken"    the timer won, RenewToken not yet entered
\* "renew"    the renewal request is out       "renewed"  Vault has answered it
\* "failed"   RenewToken returned an error
\* "lookup"   the lookup request is out        "looked"   its outcome is known
LoopStates == {"none", "top", "arm", "asleep", "woken", "renew", "renewed",
               "failed", "lookup", "looked", "done"}

LoopRecords == [pc : LoopStates, ch : 0 .. MaxStarts, wake : Nat, sent : Nat, answer : Results]

ControlRecords == [pc : {"idle", "loggedIn", "starting"}, id : 0 .. MaxStarts, live : BOOLEAN]

TypeOK ==
    /\ now \in Nat
    /\ expiry \in Nat
    /\ result \in Results
    /\ renewing \in BOOLEAN
    /\ renewDone \in 0 .. MaxStarts
    /\ closed \subseteq Loops
    /\ starts \in 0 .. MaxStarts
    /\ ctl \in [Controllers -> ControlRecords]
    /\ loop \in [Loops -> LoopRecords]
    /\ late \in Nat
    /\ lost \in BOOLEAN

NoLoop == [pc |-> "none", ch |-> 0, wake |-> 0, sent |-> 0, answer |-> NoResult]

Init ==
    /\ now = 0
    /\ expiry = 0
    /\ result = NoResult
    /\ renewing = FALSE
    /\ renewDone = 0
    /\ closed = {}
    /\ starts = 0
    /\ ctl = [c \in Controllers |-> [pc |-> "idle", id |-> 0, live |-> FALSE]]
    /\ loop = [i \in Loops |-> NoLoop]
    /\ late = 0
    /\ lost = FALSE

-----------------------------------------------------------------------------
(* Time *)

Waiting(i) ==
    \/ loop[i].pc \in {"none", "done"}
    \/ loop[i].pc = "asleep" /\ now < loop[i].wake
    \/ loop[i].pc \in {"renew", "renewed", "lookup", "looked"} /\ now < loop[i].sent + HttpTimeout

\* The clock starts with the login.
Tick ==
    /\ now < MaxTime
    /\ expiry > 0
    /\ \A i \in Loops : Waiting(i)
    /\ \A c \in Controllers : ctl[c].pc = "idle"
    /\ now' = now + 1
    /\ UNCHANGED <<expiry, result, renewing, renewDone, closed, starts, ctl, loop, late, lost>>

-----------------------------------------------------------------------------
(* The controllers *)

\* Authenticate, before anything else.  With the token method the lookup of the
\* lease may fail; the token is then used as one that cannot be renewed.
Login(c) ==
    /\ ctl[c].pc = "idle"
    /\ expiry = 0
    /\ expiry' = now + Lease
    /\ \/ result' = [lease |-> Lease, renewable |-> TRUE] /\ UNCHANGED lost
       \/ result' = NoResult /\ lost' = TRUE
    /\ ctl' = [ctl EXCEPT ![c].pc = "loggedIn"]
    /\ UNCHANGED <<now, renewing, renewDone, closed, starts, loop, late>>

\* cmd/cli/auth.go starts the renewal at once if the token is renewable.
NoRenewal(c) ==
    /\ ctl[c].pc = "loggedIn"
    /\ ~result.renewable
    /\ ctl' = [ctl EXCEPT ![c].pc = "idle"]
    /\ UNCHANGED <<now, expiry, result, renewing, renewDone, closed, starts, loop, late, lost>>

\* Mutant: a second start is not refused.
StartAgain(c) ==
    /\ ctl[c].pc \in {"idle", "loggedIn"}
    /\ starts < MaxStarts
    /\ starts' = starts + 1
    /\ renewDone' = starts + 1
    /\ renewing' = TRUE
    /\ late' = 0
    /\ ctl' = [ctl EXCEPT ![c] = [pc |-> "starting", id |-> starts + 1, live |-> Live(result)]]
    /\ UNCHANGED <<now, expiry, result, closed, loop, lost>>

\* The first critical section of StartRenewal.  When a.renewing is set the call
\* returns without doing anything (line 573), which is no step.
StartRenewal(c) ==
    /\ ctl[c].pc \in {"idle", "loggedIn"}
    /\ ~renewing
    /\ starts < MaxStarts
    /\ starts' = starts + 1
    /\ renewDone' = starts + 1
    /\ renewing' = TRUE
    /\ late' = 0
    /\ ctl' = [ctl EXCEPT ![c] = [pc |-> "starting", id |-> starts + 1, live |-> Live(result)]]
    /\ UNCHANGED <<now, expiry, result, closed, loop, lost>>

\* The rest of it: run the loop, or take a.mu again to clear the flag.
LaunchLoop(c) ==
    /\ ctl[c].pc = "starting"
    /\ ctl[c].live
    /\ loop' = [loop EXCEPT ![ctl[c].id].pc = "top"]
    /\ ctl' = [ctl EXCEPT ![c].pc = "idle"]
    /\ UNCHANGED <<now, expiry, result, renewing, renewDone, closed, starts, late, lost>>

SkipLoop(c) ==
    /\ ctl[c].pc = "starting"
    /\ ~ctl[c].live
    /\ renewing' = FALSE
    /\ ctl' = [ctl EXCEPT ![c].pc = "idle"]
    /\ UNCHANGED <<now, expiry, result, renewDone, closed, starts, loop, late, lost>>

\* Closing a channel wakes every goroutine blocked on it.
WokenBy(ch) ==
    [i \in Loops |-> IF loop[i].pc = "asleep" /\ loop[i].ch = ch
                     THEN [loop[i] EXCEPT !.pc = "done"] ELSE loop[i]]

StopRenewal(c) ==
    /\ ctl[c].pc = "idle"
    /\ renewing
    /\ closed' = closed \cup {renewDone}
    /\ renewing' = FALSE
    /\ loop' = WokenBy(renewDone)
    /\ UNCHANGED <<now, expiry, result, renewDone, starts, ctl, late, lost>>

-----------------------------------------------------------------------------
(* renewLoop *)

\* Loop i moves to pc and has no answer of Vault in hand any more.
Goto(i, pc) == loop' = [loop EXCEPT ![i].pc = pc, ![i].answer = NoResult]

\* Mutant: the whole lease.
SleepToTheEnd(lease) == IF lease < MinSleep THEN MinSleep ELSE lease

Sleep(lease) == IF lease \div 2 < MinSleep THEN MinSleep ELSE lease \div 2

\* a.result is read under the lock.
Head(i) ==
    /\ loop[i].pc = "top"
    /\ Live(result)
    /\ loop' = [loop EXCEPT ![i].pc = "arm", ![i].wake = now + Sleep(result.lease)]
    /\ UNCHANGED <<now, expiry, result, renewing, renewDone, closed, starts, ctl, late, lost>>

NotRenewable(i) ==
    /\ loop[i].pc = "top"
    /\ ~Live(result)
    /\ Goto(i, "done")
    /\ UNCHANGED <<now, expiry, result, renewing, renewDone, closed, starts, ctl, late, lost>>

\* Mutant: the timer is the only case of the select.
SelectTimerOnly(i) ==
    /\ loop[i].pc = "arm"
    /\ loop' = [loop EXCEPT ![i].pc = "asleep", ![i].ch = renewDone]
    /\ UNCHANGED <<now, expiry, result, renewing, renewDone, closed, starts, ctl, late, lost>>

\* The select reads a.renewDone without the lock: the channel it waits on is the
\* one of the latest StartRenewal, not the one the loop was started with.
EnterSelect(i) ==
    /\ loop[i].pc = "arm"
    /\ loop' = [loop EXCEPT ![i].pc = IF renewDone \in closed THEN "done" ELSE "asleep",
                            ![i].ch = renewDone]
    /\ UNCHANGED <<now, expiry, result, renewing, renewDone, closed, starts, ctl, late, lost>>

TimerFires(i) ==
    /\ loop[i].pc = "asleep"
    /\ now >= loop[i].wake
    /\ Goto(i, "woken")
    /\ UNCHANGED <<now, expiry, result, renewing, renewDone, closed, starts, ctl, late, lost>>

\* RenewToken: a.result is read under the lock, the request is sent without it.
RenewToken(i) ==
    /\ loop[i].pc = "woken"
    /\ IF result.renewable
       THEN loop' = [loop EXCEPT ![i].pc = "renew", ![i].sent = now]
       ELSE Goto(i, "failed")
    /\ late' = IF renewing \/ ~result.renewable THEN late ELSE late + 1
    /\ UNCHANGED <<now, expiry, result, renewing, renewDone, closed, starts, ctl, lost>>

\* Vault gives a token that is still valid a new lease, and says whether it may be
\* renewed again.
VaultRenews(i) ==
    /\ loop[i].pc = "renew"
    /\ now <= expiry
    /\ \E lease \in Grants, renewable \in BOOLEAN :
          /\ expiry' = now + lease
          /\ loop' = [loop EXCEPT ![i].pc = "renewed",
                                  ![i].answer = [lease |-> lease, renewable |-> renewable]]
          /\ lost' = (lost \/ lease # Lease \/ ~renewable)
    /\ UNCHANGED <<now, result, renewing, renewDone, closed, starts, ctl, late>>

\* The second critical section of RenewToken, and the callback.
StoreRenewed(i) ==
    /\ loop[i].pc = "renewed"
    /\ result' = loop[i].answer
    /\ Goto(i, "top")
    /\ UNCHANGED <<now, expiry, renewing, renewDone, closed, starts, ctl, late, lost>>

\* The token has expired, or the request or its answer is lost; in the last case
\* Vault may have extended the lease.
RenewFails(i) ==
    /\ \/ loop[i].pc = "renew" /\ now > expiry /\ UNCHANGED lost
       \/ loop[i].pc \in {"renew", "renewed"} /\ lost' = TRUE
    /\ Goto(i, "failed")
    /\ UNCHANGED <<now, expiry, result, renewing, renewDone, closed, starts, ctl, late>>

\* An interactive method gives up, the token method looks its token up again.
AfterFailure(i) ==
    /\ loop[i].pc = "failed"
    /\ IF Reauth THEN loop' = [loop EXCEPT ![i].pc = "lookup", ![i].sent = now]
                 ELSE Goto(i, "done")
    /\ UNCHANGED <<now, expiry, result, renewing, renewDone, closed, starts, ctl, late, lost>>

\* Mutant: the error of the lookup is not looked at.
LookupUnchecked(i) ==
    /\ loop[i].pc = "lookup"
    /\ loop' = [loop EXCEPT ![i].pc = "looked",
                            ![i].answer = [lease |-> expiry - now, renewable |-> TRUE]]
    /\ UNCHANGED <<now, expiry, result, renewing, renewDone, closed, starts, ctl, late, lost>>

\* Authenticate with the token method succeeds whatever LookupToken says: when
\* the lookup fails, LeaseDuration stays 0 and Renewable stays false.
LookupToken(i) ==
    /\ loop[i].pc = "lookup"
    /\ \/ /\ now <= expiry
          /\ loop' = [loop EXCEPT ![i].pc = "looked",
                                  ![i].answer = [lease |-> expiry - now, renewable |-> TRUE]]
          /\ UNCHANGED lost
       \/ /\ loop' = [loop EXCEPT ![i].pc = "looked", ![i].answer = NoResult]
          /\ lost' = (lost \/ now <= expiry)
    /\ UNCHANGED <<now, expiry, result, renewing, renewDone, closed, starts, ctl, late>>

StoreLookedUp(i) ==
    /\ loop[i].pc = "looked"
    /\ result' = loop[i].answer
    /\ Goto(i, "top")
    /\ UNCHANGED <<now, expiry, renewing, renewDone, closed, starts, ctl, late, lost>>

-----------------------------------------------------------------------------
Control(c) == Login(c) \/ NoRenewal(c) \/ StartRenewal(c) \/ StopRenewal(c)

Continue(c) == LaunchLoop(c) \/ SkipLoop(c)

RenewLoop(i) ==
    \/ Head(i) \/ NotRenewable(i) \/ EnterSelect(i) \/ TimerFires(i)
    \/ RenewToken(i) \/ VaultRenews(i) \/ StoreRenewed(i) \/ RenewFails(i)
    \/ AfterFailure(i) \/ LookupToken(i) \/ StoreLookedUp(i)

Next ==
    \/ Tick
    \/ \E c \in Controllers : Control(c) \/ Continue(c)
    \/ \E i \in Loops : RenewLoop(i)

Spec == Init /\ [][Next]_vars

\* Goroutines that can go on do, and the clock runs; nobody is obliged to call
\* StartRenewal or StopRenewal.
Fairness ==
    /\ WF_vars(Tick)
    /\ \A c \in Controllers : WF_vars(Continue(c))
    /\ \A i \in Loops : WF_vars(RenewLoop(i))

FairSpec == Spec /\ Fairness

-----------------------------------------------------------------------------
(* Properties *)

Alive(i) == loop[i].pc \notin {"none", "done"}

\* No channel is closed twice (StopRenewal would panic), however StartRenewal and
\* StopRenewal of several goroutines interleave with the loops: the flag is only
\* set together with a new channel (authenticator.go:577-578).
OpenWhileRenewing == renewing => renewDone \in Loops \ closed

\* With one controller, a loop that sleeps is one that the next StopRenewal wakes: it
\* waits on the current channel and the flag is set.  It may only sleep for good on
\* a channel that was made for no loop: StartRenewal makes it before it sees that
\* there is no live token, and then clears the flag without closing it
\* (authenticator.go:577-588).  A loop that was not in its select may still find it.
StopReachesSleepers ==
    \A i \in Loops : loop[i].pc = "asleep" =>
        \/ renewing /\ loop[i].ch = renewDone
        \/ loop[loop[i].ch].pc = "none"

\* Started once, as main does it, a loop begins at most one renewal after
\* StopRenewal has returned: the one whose timer had already fired.
AtMostOneLateRenewal == starts <= 1 => late <= 1

\* As long as Vault answers and each renewal gives the same lease again, and if half
\* the lease leaves room for two requests, the token that renewLoop looks after
\* never expires before StopRenewal (authenticator.go:615, 624, 636).
NeverExpires ==
    (starts = 1 /\ renewing /\ ~lost /\ \E i \in Loops : Alive(i)) => now <= expiry

\* StopRenewal ends the loop, whatever the loop was doing, unless a StartRenewal
\* follows (authenticator.go:598, 621).
StopEndsLoop ==
    \A i \in Loops : (i \in closed /\ starts = i) ~> (~Alive(i) \/ starts > i)

\* authenticator.go:593: "StopRenewal stops the background token renewal
\* goroutine", so a stopped loop does not go to sleep until another renewal.  A loop
\* that is anywhere but in its select (between the head and the select, or inside
\* RenewToken) when StopRenewal closes its channel reads a.renewDone only later, and
\* after another StartRenewal that is a new, open channel.
StoppedLoopsDoNotSleep == \A i \in closed : loop[i].pc # "asleep"

=============================================================================
