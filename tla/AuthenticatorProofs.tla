------------------------ MODULE AuthenticatorProofs ------------------------
(***************************************************************************)
(* Proofs about the two modules of the Authenticator.                      *)
(*                                                                         *)
(* TokenRenewal: for every set of controllers, every lease and every       *)
(* number of starts.  OIDCLogin: for any number of flows that share the    *)
(* callback port and a.result, and any number of requests of the browser.  *)
(* The two have no variable in common, and no theorem is about both.       *)
(***************************************************************************)
EXTENDS TokenRenewal, OIDCLogin, TLAPS

-----------------------------------------------------------------------------
(* TokenRenewal *)

\* The state of the flag and of the channels: channels are numbered in the order
\* they are made, only made ones are closed, and the current one is open as long
\* as the flag is set.
ChannelInv ==
    /\ renewing \in BOOLEAN
    /\ starts \in 0 .. MaxStarts
    /\ renewDone \in 0 .. starts
    /\ closed \subseteq 1 .. starts
    /\ renewing => renewDone # 0 /\ renewDone \notin closed

\* Nothing but StartRenewal, SkipLoop and StopRenewal touches the flag, the
\* counter or the channels.
LEMMA OtherSteps ==
  ASSUME [Next]_vars,
         \A c \in Controllers : ~StartRenewal(c) /\ ~SkipLoop(c) /\ ~StopRenewal(c)
  PROVE  UNCHANGED <<renewing, renewDone, closed, starts>>
<1>1. CASE Tick \/ UNCHANGED vars
  BY <1>1 DEF Tick, vars
<1>2. ASSUME NEW c \in Controllers, Login(c) \/ NoRenewal(c) \/ LaunchLoop(c)
      PROVE  UNCHANGED <<renewing, renewDone, closed, starts>>
  BY <1>2 DEF Login, NoRenewal, LaunchLoop
<1>3. ASSUME NEW i \in Loops, RenewLoop(i)
      PROVE  UNCHANGED <<renewing, renewDone, closed, starts>>
  BY <1>3 DEF RenewLoop, Head, NotRenewable, EnterSelect, TimerFires, RenewToken,
              VaultRenews, StoreRenewed, RenewFails, AfterFailure, LookupToken, StoreLookedUp
<1> QED
  BY <1>1, <1>2, <1>3 DEF Next, Control, Continue

\* The channel invariant is inductive.
LEMMA ChannelStep == ChannelInv /\ [Next]_vars => ChannelInv'
<1> SUFFICES ASSUME ChannelInv, [Next]_vars PROVE ChannelInv'
  OBVIOUS
<1> USE ParametersAssumption DEF ChannelInv
<1>1. ASSUME NEW c \in Controllers, StartRenewal(c) PROVE ChannelInv'
  <2>1. /\ starts < MaxStarts /\ starts' = starts + 1 /\ renewDone' = starts + 1
        /\ renewing' = TRUE /\ closed' = closed
    BY <1>1 DEF StartRenewal
  <2>2. starts \in Nat /\ MaxStarts \in Nat
    OBVIOUS
  <2>3. starts + 1 \notin closed
    BY <2>2
  <2>4. closed \subseteq 1 .. (starts + 1)
    BY <2>2
  <2> QED
    BY <2>1, <2>2, <2>3, <2>4
<1>2. ASSUME NEW c \in Controllers, SkipLoop(c) PROVE ChannelInv'
  BY <1>2 DEF SkipLoop
<1>3. ASSUME NEW c \in Controllers, StopRenewal(c) PROVE ChannelInv'
  <2>1. /\ renewing /\ closed' = closed \cup {renewDone} /\ renewing' = FALSE
        /\ UNCHANGED <<renewDone, starts>>
    BY <1>3 DEF StopRenewal
  <2>2. renewDone \in 1 .. starts
    BY <2>1
  <2> QED
    BY <2>1, <2>2
<1>4. CASE \A c \in Controllers : ~StartRenewal(c) /\ ~SkipLoop(c) /\ ~StopRenewal(c)
  <2>1. UNCHANGED <<renewing, renewDone, closed, starts>>
    BY <1>4, OtherSteps
  <2> QED
    BY <2>1
<1> QED
  BY <1>1, <1>2, <1>3, <1>4

LEMMA InitChannel == Init => ChannelInv
<1> SUFFICES ASSUME Init PROVE ChannelInv
  OBVIOUS
<1>1. renewing = FALSE /\ renewDone = 0 /\ closed = {} /\ starts = 0
  BY DEF Init
<1>2. MaxStarts \in Nat
  BY ParametersAssumption
<1>3. renewing \in BOOLEAN /\ ~renewing
  BY <1>1
<1>4. starts \in 0 .. MaxStarts /\ renewDone \in 0 .. starts /\ closed \subseteq 1 .. starts
  BY <1>1, <1>2
<1> QED
  BY <1>3, <1>4 DEF ChannelInv

\* StopRenewal never closes a closed channel, for any number of goroutines that
\* start and stop the renewal at the same time.
THEOREM CloseOnce == Spec => []OpenWhileRenewing
<1>1. ChannelInv => OpenWhileRenewing
  BY ParametersAssumption DEF ChannelInv, OpenWhileRenewing, Loops
<1> QED
  BY <1>1, InitChannel, ChannelStep, PTL DEF Spec

-----------------------------------------------------------------------------
(* Types *)

LEMMA Numbers ==
  /\ Lease \in Nat /\ Lease > 0 /\ MinSleep \in Nat /\ HttpTimeout \in Nat
  /\ MaxStarts \in Nat /\ MaxTime \in Nat /\ Reauth \in BOOLEAN
  BY ParametersAssumption

\* What every loop sleeps is a number.
LEMMA SleepType == ASSUME NEW lease \in Nat PROVE Sleep(lease) \in Nat
  BY Numbers DEF Sleep

LEMMA InitTypes == Init => TypeOK
<1> SUFFICES ASSUME Init PROVE TypeOK
  OBVIOUS
<1>1. ctl \in [Controllers -> ControlRecords]
  BY Numbers DEF Init, ControlRecords
<1>2. loop \in [Loops -> LoopRecords]
  BY Numbers DEF Init, NoLoop, NoResult, Results, LoopRecords, LoopStates
<1>3. result \in Results
  BY DEF Init, Results, NoResult
<1>4. renewing \in BOOLEAN /\ lost \in BOOLEAN
  BY Zenon DEF Init
<1>5. /\ now \in Nat /\ expiry \in Nat /\ late \in Nat
      /\ renewDone \in 0 .. MaxStarts /\ starts \in 0 .. MaxStarts /\ closed \subseteq Loops
  BY Numbers DEF Init
<1> QED
  BY <1>1, <1>2, <1>3, <1>4, <1>5 DEF TypeOK

\* The steps of the controllers keep the types.
LEMMA ControlTypes ==
  ASSUME TypeOK, ChannelInv, NEW c \in Controllers, Control(c) \/ Continue(c)
  PROVE  TypeOK'
<1> USE Numbers DEF TypeOK
<1>1. CASE Login(c)
  <2>1. ctl' \in [Controllers -> ControlRecords]
    BY <1>1 DEF Login, ControlRecords
  <2>2. expiry' \in Nat
    BY <1>1 DEF Login
  <2>3. [lease |-> Lease, renewable |-> TRUE] \in Results /\ NoResult \in Results
    BY DEF Results, NoResult
  <2>4. result' \in Results /\ lost' \in BOOLEAN
    BY <1>1, <2>3, Zenon DEF Login
  <2> QED
    BY <1>1, <2>1, <2>2, <2>4 DEF Login
<1>2. CASE NoRenewal(c)
  <2>1. ctl' \in [Controllers -> ControlRecords]
    BY <1>2 DEF NoRenewal, ControlRecords
  <2> QED
    BY <1>2, <2>1 DEF NoRenewal
<1>3. CASE StartRenewal(c)
  <2>1. starts + 1 \in 0 .. MaxStarts
    BY <1>3 DEF StartRenewal
  <2>2. Live(result) \in BOOLEAN
    BY DEF Live
  <2>3. ctl' \in [Controllers -> ControlRecords]
    BY <1>3, <2>1, <2>2 DEF StartRenewal, ControlRecords
  <2> QED
    BY <1>3, <2>1, <2>3 DEF StartRenewal
<1>4. CASE StopRenewal(c)
  <2>1. loop' \in [Loops -> LoopRecords]
    BY <1>4 DEF StopRenewal, WokenBy, LoopRecords, LoopStates
  <2>2. closed' \subseteq Loops
    BY <1>4 DEF StopRenewal, ChannelInv, Loops
  <2> QED
    BY <1>4, <2>1, <2>2 DEF StopRenewal
<1>5. CASE LaunchLoop(c)
  <2>1. ctl' \in [Controllers -> ControlRecords]
    BY <1>5 DEF LaunchLoop, ControlRecords
  <2>2. loop' \in [Loops -> LoopRecords]
    BY <1>5 DEF LaunchLoop, LoopRecords, LoopStates
  <2> QED
    BY <1>5, <2>1, <2>2 DEF LaunchLoop
<1>6. CASE SkipLoop(c)
  <2>1. ctl' \in [Controllers -> ControlRecords]
    BY <1>6 DEF SkipLoop, ControlRecords
  <2> QED
    BY <1>6, <2>1 DEF SkipLoop
<1> QED
  BY <1>1, <1>2, <1>3, <1>4, <1>5, <1>6 DEF Control, Continue

\* So do those of a loop.
LEMMA LoopTypes ==
  ASSUME TypeOK, NEW i \in Loops, RenewLoop(i)
  PROVE  TypeOK'
<1> USE Numbers DEF TypeOK
<1>1. UNCHANGED <<now, renewing, renewDone, closed, starts, ctl>>
  BY DEF RenewLoop, Head, NotRenewable, EnterSelect, TimerFires, RenewToken, VaultRenews,
         StoreRenewed, RenewFails, AfterFailure, LookupToken, StoreLookedUp, Goto
<1>2. expiry' \in Nat
  <2>1. CASE VaultRenews(i)
    <3>1. PICK lease \in Grants : expiry' = now + lease
      BY <2>1 DEF VaultRenews
    <3> QED
      BY <3>1, ParametersAssumption
  <2>2. CASE ~VaultRenews(i)
    BY <2>2 DEF RenewLoop, Head, NotRenewable, EnterSelect, TimerFires, RenewToken,
                StoreRenewed, RenewFails, AfterFailure, LookupToken, StoreLookedUp, Goto
  <2> QED
    BY <2>1, <2>2
<1>3. result' \in Results
  BY DEF RenewLoop, LoopRecords, Head, NotRenewable, EnterSelect, TimerFires, RenewToken,
         VaultRenews, StoreRenewed, RenewFails, AfterFailure, LookupToken, StoreLookedUp, Goto
<1>4. late' \in Nat
  BY DEF RenewLoop, Head, NotRenewable, EnterSelect, TimerFires, RenewToken, VaultRenews,
         StoreRenewed, RenewFails, AfterFailure, LookupToken, StoreLookedUp, Goto
<1>5. lost' \in BOOLEAN
  BY Zenon DEF RenewLoop, Head, NotRenewable, EnterSelect, TimerFires, RenewToken, VaultRenews,
              StoreRenewed, RenewFails, AfterFailure, LookupToken, StoreLookedUp, Goto
<1>6. loop' \in [Loops -> LoopRecords]
  <2> USE DEF LoopRecords, LoopStates
  <2>0. NoResult \in Results
    BY DEF Results, NoResult
  <2>1. CASE Head(i)
    <3>1. now + Sleep(result.lease) \in Nat
      BY SleepType DEF Results
    <3> QED
      BY <2>1, <3>1 DEF Head
  <2>2. CASE NotRenewable(i)
    BY <2>2, <2>0 DEF NotRenewable, Goto
  <2>3. CASE EnterSelect(i)
    <3>1. /\ loop' = [loop EXCEPT ![i] = [[loop[i] EXCEPT !.pc = loop'[i].pc]
                                                        EXCEPT !.ch = renewDone]]
          /\ loop'[i].pc \in {"done", "asleep"}
      BY <2>3 DEF EnterSelect
    <3> QED
      BY <3>1
  <2>4. CASE TimerFires(i)
    BY <2>4, <2>0 DEF TimerFires, Goto
  <2>5. CASE RenewToken(i)
    BY <2>0, <2>5 DEF RenewToken, Goto
  <2>6. CASE VaultRenews(i)
    <3>1. PICK lease \in Grants, renewable \in BOOLEAN :
            /\ expiry' = now + lease
            /\ loop' = [loop EXCEPT ![i].pc = "renewed",
                                    ![i].answer = [lease |-> lease, renewable |-> renewable]]
      BY <2>6 DEF VaultRenews
    <3>2. lease \in Nat /\ [lease |-> lease, renewable |-> renewable] \in Results
      BY ParametersAssumption DEF Results
    <3> QED
      BY <3>1, <3>2
  <2>7. CASE StoreRenewed(i) \/ StoreLookedUp(i) \/ RenewFails(i)
    BY <2>0, <2>7 DEF StoreRenewed, StoreLookedUp, RenewFails, Goto
  <2>8. CASE AfterFailure(i)
    BY <2>0, <2>8 DEF AfterFailure, Goto
  <2>9. CASE LookupToken(i)
    <3>1. /\ NoResult \in Results
          /\ now <= expiry => [lease |-> expiry - now, renewable |-> TRUE] \in Results
      BY DEF Results, NoResult
    <3> QED
      BY <2>9, <3>1 DEF LookupToken
  <2> QED
    BY <2>1, <2>2, <2>3, <2>4, <2>5, <2>6, <2>7, <2>8, <2>9 DEF RenewLoop
<1> QED
  BY <1>1, <1>2, <1>3, <1>4, <1>5, <1>6

LEMMA TypeStep == TypeOK /\ ChannelInv /\ [Next]_vars => TypeOK'
<1> SUFFICES ASSUME TypeOK, ChannelInv, [Next]_vars PROVE TypeOK'
  OBVIOUS
<1>1. CASE Tick
  BY <1>1 DEF Tick, TypeOK
<1>2. CASE UNCHANGED vars
  BY <1>2 DEF vars, TypeOK
<1> QED
  BY <1>1, <1>2, ControlTypes, LoopTypes DEF Next

\* The types, with what is known of the channels.
TypeInv == TypeOK /\ ChannelInv

LEMMA Typing == Spec => []TypeInv
<1>1. Init => TypeInv
  BY InitTypes, InitChannel DEF TypeInv
<1>2. TypeInv /\ [Next]_vars => TypeInv'
  BY TypeStep, ChannelStep DEF TypeInv
<1> QED
  BY <1>1, <1>2, PTL DEF Spec

\* Every variable keeps its type.
THEOREM TypeCorrect == Spec => []TypeOK
<1>1. TypeInv => TypeOK
  BY DEF TypeInv
<1> QED
  BY <1>1, Typing, PTL

-----------------------------------------------------------------------------
(* Loops and the starts they come from *)

\* The current channel is the latest one; a loop was launched by a start and
\* sleeps on a channel that was made; a StartRenewal that is under way has a
\* number of its own and has not launched its loop.
StartsInv ==
    /\ renewDone = starts
    /\ \A i \in Loops :
          /\ loop[i].pc # "none" => i <= starts
          /\ loop[i].pc = "asleep" => loop[i].ch \in 1 .. starts
    /\ \A c \in Controllers :
          ctl[c].pc = "starting" => ctl[c].id \in 1 .. starts /\ loop[ctl[c].id].pc = "none"
    /\ \A c, d \in Controllers :
          (ctl[c].pc = "starting" /\ ctl[d].pc = "starting" /\ ctl[c].id = ctl[d].id) => c = d

\* What a step of loop i does to what the invariants below are about.
LEMMA LoopStep ==
  ASSUME TypeOK, NEW i \in Loops, RenewLoop(i)
  PROVE  /\ UNCHANGED <<now, renewing, renewDone, closed, starts, ctl>>
         /\ loop[i].pc # "none" /\ loop'[i].pc # "none"
         /\ \A j \in Loops \ {i} : loop'[j] = loop[j]
         /\ loop'[i].pc = "asleep" =>
               loop[i].pc = "arm" /\ renewDone \notin closed /\ loop'[i].ch = renewDone
         /\ loop'[i].pc = "woken" => loop[i].pc = "asleep"
         /\ late' # late => loop[i].pc = "woken" /\ late' = late + 1 /\ ~renewing
  BY DEF TypeOK, LoopRecords, RenewLoop, Head, NotRenewable, EnterSelect, TimerFires, RenewToken,
              VaultRenews, StoreRenewed, RenewFails, AfterFailure, LookupToken, StoreLookedUp, Goto

\* What StopRenewal does to the loops.
LEMMA WokenLoops ==
  ASSUME TypeOK, NEW c \in Controllers, StopRenewal(c)
  PROVE  \A i \in Loops :
            \/ loop'[i] = loop[i] /\ ~(loop[i].pc = "asleep" /\ loop[i].ch = renewDone)
            \/ loop[i].pc = "asleep" /\ loop'[i].pc = "done"
  BY DEF TypeOK, LoopRecords, StopRenewal, WokenBy

\* A step that leaves the channels alone, starts nothing, puts no loop to sleep and
\* launches none keeps StartsInv.
LEMMA StartsKept ==
  ASSUME TypeOK, StartsInv, UNCHANGED <<renewDone, starts>>,
         \A i \in Loops : /\ loop'[i].pc # "none" <=> loop[i].pc # "none"
                          /\ loop'[i].pc = "asleep" =>
                                \/ loop[i].pc = "asleep" /\ loop'[i].ch = loop[i].ch
                                \/ loop'[i].ch = renewDone,
         \A c \in Controllers : ctl'[c].pc = "starting" =>
                                  ctl[c].pc = "starting" /\ ctl'[c].id = ctl[c].id
  PROVE  StartsInv'
<1>1. \A i \in Loops : loop[i].pc # "none" => renewDone \in 1 .. starts
  BY Numbers DEF StartsInv, TypeOK, Loops
<1>2. \A c \in Controllers : ctl[c].pc = "starting" => ctl[c].id \in Loops
  BY Numbers DEF StartsInv, TypeOK, Loops
<1> QED
  BY <1>1, <1>2 DEF StartsInv

LEMMA StartsStep == TypeInv /\ StartsInv /\ [Next]_vars => StartsInv'
<1> SUFFICES ASSUME TypeInv, StartsInv, [Next]_vars PROVE StartsInv'
  OBVIOUS
<1> USE Numbers
<1>0. TypeOK
  BY DEF TypeInv
<1>1. CASE Tick \/ UNCHANGED vars
  BY <1>1 DEF Tick, vars, StartsInv
<1>2. ASSUME NEW c \in Controllers, Login(c) \/ NoRenewal(c) \/ SkipLoop(c) PROVE StartsInv'
  <2>1. UNCHANGED <<renewDone, starts, loop>>
    BY <1>2 DEF Login, NoRenewal, SkipLoop
  <2>2. ctl'[c].pc # "starting" /\ \A d \in Controllers \ {c} : ctl'[d] = ctl[d]
    BY <1>0, <1>2 DEF Login, NoRenewal, SkipLoop, TypeOK, ControlRecords
  <2> QED
    BY <1>0, <2>1, <2>2, StartsKept
<1>3. ASSUME NEW c \in Controllers, StartRenewal(c) PROVE StartsInv'
  <2>1. starts + 1 \in Loops /\ loop[starts + 1].pc = "none"
    BY <1>0, <1>3 DEF StartRenewal, StartsInv, TypeOK, Loops
  <2>2. /\ ctl'[c].pc = "starting" /\ ctl'[c].id = starts + 1
        /\ \A d \in Controllers \ {c} : ctl'[d] = ctl[d]
    BY <1>0, <1>3 DEF StartRenewal, TypeOK, ControlRecords
  <2>3. renewDone' = starts' /\ starts' = starts + 1 /\ loop' = loop
    BY <1>3 DEF StartRenewal
  <2>4. starts \in Nat
    BY <1>0 DEF TypeOK
  <2>5. \A i \in Loops : /\ loop'[i].pc # "none" => i <= starts'
                         /\ loop'[i].pc = "asleep" => loop'[i].ch \in 1 .. starts'
    BY <2>3, <2>4 DEF StartsInv, Loops
  <2>6. \A d \in Controllers : ctl'[d].pc = "starting" =>
           ctl'[d].id \in 1 .. starts' /\ loop'[ctl'[d].id].pc = "none"
    BY <2>1, <2>2, <2>3, <2>4 DEF StartsInv
  <2>7. \A d \in Controllers \ {c} : ctl'[d].pc = "starting" => ctl'[d].id # starts + 1
    BY <2>2, <2>4 DEF StartsInv
  <2>8. \A d, e \in Controllers :
           (ctl'[d].pc = "starting" /\ ctl'[e].pc = "starting" /\ ctl'[d].id = ctl'[e].id)
              => d = e
    BY <2>2, <2>7 DEF StartsInv
  <2> QED
    BY <2>3, <2>5, <2>6, <2>8 DEF StartsInv
<1>4. ASSUME NEW c \in Controllers, StopRenewal(c) PROVE StartsInv'
  <2>1. UNCHANGED <<renewDone, starts, ctl>>
    BY <1>4 DEF StopRenewal
  <2>2. \A i \in Loops :
            \/ loop'[i] = loop[i] /\ ~(loop[i].pc = "asleep" /\ loop[i].ch = renewDone)
            \/ loop[i].pc = "asleep" /\ loop'[i].pc = "done"
    BY <1>0, <1>4, WokenLoops, Zenon
  <2> QED
    BY <1>0, <2>1, <2>2, StartsKept
<1>5. ASSUME NEW c \in Controllers, LaunchLoop(c) PROVE StartsInv'
  <2>1. UNCHANGED <<renewDone, starts>> /\ ctl[c].pc = "starting"
    BY <1>5 DEF LaunchLoop
  <2>2. /\ ctl'[c].pc = "idle"
        /\ \A d \in Controllers \ {c} : ctl'[d] = ctl[d]
    BY <1>0, <1>5 DEF LaunchLoop, TypeOK, ControlRecords
  <2>3. ctl[c].id \in 1 .. starts /\ ctl[c].id \in Loops
    BY <1>0, <2>1 DEF StartsInv, TypeOK, Loops
  <2>4. /\ loop'[ctl[c].id].pc = "top"
        /\ \A i \in Loops \ {ctl[c].id} : loop'[i] = loop[i]
    BY <1>0, <1>5, <2>3 DEF LaunchLoop, TypeOK, LoopRecords
  <2>5. \A i \in Loops : /\ loop'[i].pc # "none" => i <= starts'
                         /\ loop'[i].pc = "asleep" => loop'[i].ch \in 1 .. starts'
    BY <1>0, <2>1, <2>3, <2>4 DEF StartsInv, TypeOK
  <2>6. \A d \in Controllers \ {c} : ctl[d].pc = "starting" =>
           ctl[d].id # ctl[c].id /\ ctl[d].id \in Loops
    BY <1>0, <2>1 DEF StartsInv, TypeOK, Loops
  <2>7. \A d \in Controllers : ctl'[d].pc = "starting" =>
           ctl'[d].id \in 1 .. starts' /\ loop'[ctl'[d].id].pc = "none"
    BY <2>1, <2>2, <2>4, <2>6 DEF StartsInv
  <2>8. \A d, e \in Controllers :
           (ctl'[d].pc = "starting" /\ ctl'[e].pc = "starting" /\ ctl'[d].id = ctl'[e].id)
              => d = e
    BY <2>2 DEF StartsInv
  <2> QED
    BY <2>1, <2>5, <2>7, <2>8 DEF StartsInv
<1>6. ASSUME NEW i \in Loops, RenewLoop(i) PROVE StartsInv'
  <2>1. /\ UNCHANGED <<now, renewing, renewDone, closed, starts, ctl>>
        /\ loop[i].pc # "none" /\ loop'[i].pc # "none"
        /\ \A j \in Loops \ {i} : loop'[j] = loop[j]
        /\ loop'[i].pc = "asleep" => loop'[i].ch = renewDone
    BY <1>0, <1>6, LoopStep
  <2> QED
    BY <1>0, <2>1, StartsKept
<1> QED
  BY <1>1, <1>2, <1>3, <1>4, <1>5, <1>6 DEF Next, Control, Continue

\* TypeInv and StartsInv together.
LEMMA Starting == Spec => [](TypeInv /\ StartsInv)
<1>1. Init => StartsInv
  BY Numbers DEF Init, StartsInv, NoLoop
<1> QED
  BY <1>1, StartsStep, Typing, PTL DEF Spec

-----------------------------------------------------------------------------
(* Stopping, with one controller *)

\* The StartRenewal that is under way owns the flag and the current channel; a
\* current channel that is open without the flag was made for no loop.
StopInv ==
    /\ \A c \in Controllers :
          ctl[c].pc = "starting" => renewing /\ ctl[c].id = renewDone
    /\ renewing \/ renewDone \in closed \cup {0} \/ loop[renewDone].pc = "none"
    /\ StopReachesSleepers

LEMMA StopStep ==
  ASSUME NEW main, Controllers = {main}, TypeInv, StartsInv, StopInv, [Next]_vars
  PROVE  StopInv'
<1>0. /\ TypeOK /\ starts \in Nat /\ Loops = 1 .. MaxStarts
      /\ \A i \in Loops : loop[i].pc # "none" => renewDone \in Loops
      /\ \A i \in Loops : loop[i].pc = "asleep" => loop[i].ch \in Loops
  BY Numbers DEF TypeInv, TypeOK, StartsInv, Loops
<1>1. CASE Tick \/ UNCHANGED vars
  BY <1>1 DEF Tick, vars, StopInv, StopReachesSleepers
<1>2. ASSUME NEW c \in Controllers, Login(c) \/ NoRenewal(c) PROVE StopInv'
  <2>1. UNCHANGED <<renewing, renewDone, closed, loop>>
    BY <1>2 DEF Login, NoRenewal
  <2>2. ctl'[c].pc # "starting" /\ \A d \in Controllers \ {c} : ctl'[d] = ctl[d]
    BY <1>0, <1>2 DEF Login, NoRenewal, TypeOK, ControlRecords
  <2> QED
    BY <2>1, <2>2 DEF StopInv, StopReachesSleepers
<1>3. ASSUME NEW c \in Controllers, StartRenewal(c) PROVE StopInv'
  <2>1. /\ renewing' /\ ~renewing /\ renewDone' = starts + 1 /\ loop' = loop
        /\ ctl'[c].id = starts + 1
    BY <1>0, <1>3 DEF StartRenewal, TypeOK, ControlRecords
  <2> QED
    BY <2>1 DEF StopInv, StopReachesSleepers
<1>4. ASSUME NEW c \in Controllers, StopRenewal(c) PROVE StopInv'
  <2>1. /\ ~renewing' /\ closed' = closed \cup {renewDone}
        /\ UNCHANGED <<renewDone, ctl>> /\ ctl[c].pc = "idle"
    BY <1>4 DEF StopRenewal
  <2>2. \A i \in Loops :
            \/ loop'[i] = loop[i] /\ ~(loop[i].pc = "asleep" /\ loop[i].ch = renewDone)
            \/ loop[i].pc = "asleep" /\ loop'[i].pc = "done"
    BY <1>0, <1>4, WokenLoops, Zenon
  <2>3. \A i \in Loops : loop[i].pc = "none" => loop'[i].pc = "none"
    BY <2>2
  <2>4. StopReachesSleepers'
    BY <1>0, <2>2, <2>3 DEF StopInv, StopReachesSleepers
  <2> QED
    BY <2>1, <2>4 DEF StopInv
<1>5. ASSUME NEW c \in Controllers, LaunchLoop(c) PROVE StopInv'
  <2>1. /\ UNCHANGED <<renewing, renewDone, closed>>
        /\ ctl[c].pc = "starting" /\ renewing /\ ctl[c].id = renewDone
    BY <1>5 DEF LaunchLoop, StopInv
  <2>2. ctl'[c].pc = "idle"
    BY <1>0, <1>5 DEF LaunchLoop, TypeOK, ControlRecords
  <2>3. renewDone \in Loops
    BY <1>0, <2>1 DEF StartsInv, TypeOK, Loops
  <2>4. /\ loop'[renewDone].pc = "top"
        /\ \A i \in Loops \ {renewDone} : loop'[i] = loop[i]
    BY <1>0, <1>5, <2>1, <2>3 DEF LaunchLoop, TypeOK, LoopRecords
  <2>5. StopReachesSleepers'
    BY <1>0, <2>1, <2>4 DEF StopInv, StopReachesSleepers
  <2> QED
    BY <2>1, <2>2, <2>5 DEF StopInv
<1>6. ASSUME NEW c \in Controllers, SkipLoop(c) PROVE StopInv'
  <2>1. /\ UNCHANGED <<renewDone, closed, loop>>
        /\ loop[renewDone].pc = "none"
    BY <1>6 DEF SkipLoop, StopInv, StartsInv
  <2>2. ctl'[c].pc = "idle"
    BY <1>0, <1>6 DEF SkipLoop, TypeOK, ControlRecords
  <2> QED
    BY <2>1, <2>2 DEF StopInv, StopReachesSleepers
<1>7. ASSUME NEW i \in Loops, RenewLoop(i) PROVE StopInv'
  <2>1. /\ UNCHANGED <<now, renewing, renewDone, closed, starts, ctl>>
        /\ loop[i].pc # "none" /\ loop'[i].pc # "none"
        /\ \A j \in Loops \ {i} : loop'[j] = loop[j]
        /\ loop'[i].pc = "asleep" =>
              loop[i].pc = "arm" /\ renewDone \notin closed /\ loop'[i].ch = renewDone
    BY <1>0, <1>7, LoopStep
  <2>2. renewDone \in Loops
    BY <1>0, <2>1
  <2>3. renewing \/ renewDone \in closed \/ loop[renewDone].pc = "none"
    BY <2>2 DEF StopInv, Loops
  <2>4. \A j \in Loops : loop'[j].pc = "none" <=> loop[j].pc = "none"
    BY <2>1
  <2>5. StopReachesSleepers'
    BY <1>0, <2>1, <2>2, <2>3, <2>4 DEF StopInv, StopReachesSleepers
  <2> QED
    BY <2>1, <2>2, <2>3, <2>4, <2>5 DEF StopInv, StartsInv, Loops
<1> QED
  BY <1>1, <1>2, <1>3, <1>4, <1>5, <1>6, <1>7 DEF Next, Control, Continue

\* With one controller, however often it starts and stops the renewal, StopRenewal
\* wakes the loops that sleep, but for those on a channel that was made for no loop.
THEOREM StopWakesSleepers ==
  ASSUME NEW main, Controllers = {main}
  PROVE  Spec => []StopReachesSleepers
<1>1. Init => StopInv
  BY Numbers DEF Init, StopInv, StopReachesSleepers, NoLoop
<1>2. TypeInv /\ StartsInv /\ StopInv /\ [Next]_vars => StopInv'
  BY StopStep
<1>3. StopInv => StopReachesSleepers
  BY DEF StopInv
<1> QED
  BY <1>1, <1>2, <1>3, Starting, PTL DEF Spec

-----------------------------------------------------------------------------
(* One start *)

\* With one start, a loop without the flag has its channel closed, so that it does
\* not sleep again; late counts from StopRenewal on, when the timer may have fired.
OnceInv ==
    starts <= 1 =>
        /\ \A i \in Loops : loop[i].pc = "asleep" => renewing
        /\ (~renewing /\ starts = 1 /\ 1 \notin closed) =>
              /\ \A i \in Loops : loop[i].pc = "none"
              /\ \A c \in Controllers : ctl[c].pc # "starting"
        /\ renewing => late = 0
        /\ \A i \in Loops : loop[i].pc = "woken" => late = 0
        /\ late <= 1

LEMMA OnceStep == TypeInv /\ StartsInv /\ OnceInv /\ [Next]_vars => OnceInv'
<1> SUFFICES ASSUME TypeInv, StartsInv, OnceInv, [Next]_vars, starts' <= 1 PROVE OnceInv'
  BY DEF OnceInv
<1>0. /\ TypeOK /\ starts \in Nat /\ late \in Nat /\ renewDone = starts
      /\ \A i \in Loops : loop[i].pc # "none" => i <= starts
      /\ Loops \subseteq Nat \ {0}
      /\ renewing => starts # 0 /\ starts \notin closed
  BY Numbers DEF TypeInv, TypeOK, ChannelInv, StartsInv, Loops
<1>1. CASE Tick \/ UNCHANGED vars
  BY <1>1 DEF Tick, vars, OnceInv
<1>2. ASSUME NEW c \in Controllers, Login(c) \/ NoRenewal(c) PROVE OnceInv'
  <2>1. UNCHANGED <<renewing, starts, closed, loop, late>>
    BY <1>2 DEF Login, NoRenewal
  <2>2. ctl'[c].pc # "starting" /\ \A d \in Controllers \ {c} : ctl'[d] = ctl[d]
    BY <1>0, <1>2 DEF Login, NoRenewal, TypeOK, ControlRecords
  <2> QED
    BY <2>1, <2>2 DEF OnceInv
<1>3. ASSUME NEW c \in Controllers, StartRenewal(c) PROVE OnceInv'
  <2>1. renewing' /\ late' = 0 /\ starts' = starts + 1 /\ loop' = loop
    BY <1>3 DEF StartRenewal
  <2> QED
    BY <2>1 DEF OnceInv
<1>4. ASSUME NEW c \in Controllers, StopRenewal(c) PROVE OnceInv'
  <2>1. /\ renewing /\ ~renewing' /\ closed' = closed \cup {renewDone}
        /\ UNCHANGED <<starts, ctl, late>>
    BY <1>4 DEF StopRenewal
  <2>2. \A i \in Loops :
            \/ loop'[i] = loop[i] /\ ~(loop[i].pc = "asleep" /\ loop[i].ch = renewDone)
            \/ loop[i].pc = "asleep" /\ loop'[i].pc = "done"
    BY <1>0, <1>4, WokenLoops, Zenon
  <2>3. starts = 1 /\ 1 \in closed' /\ late = 0
    BY <1>0, <2>1 DEF OnceInv
  <2>4. \A i \in Loops : loop[i].pc = "asleep" => loop[i].ch = renewDone
    BY <1>0, <2>3 DEF StartsInv
  <2>5. \A i \in Loops : loop'[i].pc # "asleep"
    BY <2>2, <2>4
  <2> QED
    BY <2>1, <2>3, <2>5 DEF OnceInv
<1>5. ASSUME NEW c \in Controllers, LaunchLoop(c) PROVE OnceInv'
  <2>1. UNCHANGED <<renewing, starts, closed, late>> /\ ctl[c].pc = "starting"
    BY <1>5 DEF LaunchLoop
  <2>2. ctl[c].id \in Loops
    BY <1>0, <2>1, Numbers DEF StartsInv, TypeOK, Loops
  <2>3. /\ loop'[ctl[c].id].pc = "top"
        /\ \A i \in Loops \ {ctl[c].id} : loop'[i] = loop[i]
    BY <1>0, <1>5, <2>2 DEF LaunchLoop, TypeOK, LoopRecords
  <2>4. \A i \in Loops : loop'[i].pc \in {"asleep", "woken"} => loop'[i] = loop[i]
    BY <2>3
  <2> QED
    BY <2>1, <2>4 DEF OnceInv
<1>6. ASSUME NEW c \in Controllers, SkipLoop(c) PROVE OnceInv'
  <2>1. /\ UNCHANGED <<starts, closed, loop, late>> /\ ~renewing'
        /\ ctl[c].pc = "starting" /\ starts <= 1
    BY <1>6 DEF SkipLoop
  <2>2. /\ ctl'[c].pc = "idle"
        /\ \A d \in Controllers \ {c} : ctl'[d] = ctl[d]
    BY <1>0, <1>6 DEF SkipLoop, TypeOK, ControlRecords
  <2>3. starts = 1 /\ ctl[c].id = 1 /\ loop[1].pc = "none"
    BY <1>0, <2>1 DEF StartsInv
  <2>4. \A i \in Loops : loop[i].pc = "none"
    BY <1>0, <2>3
  <2>5. \A d \in Controllers \ {c} : ctl[d].pc # "starting"
    BY <1>0, <2>1, <2>3 DEF StartsInv
  <2> QED
    BY <2>1, <2>2, <2>3, <2>4, <2>5 DEF OnceInv
<1>7. ASSUME NEW i \in Loops, RenewLoop(i) PROVE OnceInv'
  <2>1. /\ UNCHANGED <<now, renewing, renewDone, closed, starts, ctl>>
        /\ loop[i].pc # "none" /\ loop'[i].pc # "none"
        /\ \A j \in Loops \ {i} : loop'[j] = loop[j]
        /\ loop'[i].pc = "asleep" =>
              loop[i].pc = "arm" /\ renewDone \notin closed /\ loop'[i].ch = renewDone
        /\ loop'[i].pc = "woken" => loop[i].pc = "asleep"
        /\ late' # late => loop[i].pc = "woken" /\ late' = late + 1 /\ ~renewing
    BY <1>0, <1>7, LoopStep
  <2>2. starts = 1 /\ i = 1 /\ Loops \cap 0 .. 1 = {1}
    BY <1>0, <2>1
  <2>3. \A j \in Loops \ {i} : loop[j].pc = "none"
    BY <1>0, <2>2
  <2>4. renewing \/ 1 \in closed
    BY <2>1, <2>2 DEF OnceInv
  <2>5. loop'[i].pc = "asleep" => renewing
    BY <1>0, <2>1, <2>2, <2>4
  <2>6. loop'[i].pc = "woken" => late' = 0
    BY <2>1, <2>2 DEF OnceInv
  <2>7. late' <= 1 /\ (renewing' => late' = 0)
    BY <1>0, <2>1, <2>2 DEF OnceInv
  <2> QED
    BY <2>1, <2>2, <2>3, <2>4, <2>5, <2>6, <2>7 DEF OnceInv
<1> QED
  BY <1>1, <1>2, <1>3, <1>4, <1>5, <1>6, <1>7 DEF Next, Control, Continue

\* Started once, a loop begins at most one renewal after StopRenewal has returned, for
\* any number of controllers, every lease and both kinds of authentication.
THEOREM OneLateRenewal == Spec => []AtMostOneLateRenewal
<1>1. Init => OnceInv
  BY Numbers DEF Init, OnceInv, NoLoop, Loops
<1>2. OnceInv => AtMostOneLateRenewal
  BY DEF OnceInv, AtMostOneLateRenewal
<1> QED
  BY <1>1, <1>2, OnceStep, Starting, PTL DEF Spec

-----------------------------------------------------------------------------
(* The lease *)

Granted == [lease |-> Lease, renewable |-> TRUE]

\* How much of the lease is left to loop i: all but one request when it is about
\* to sleep, and what it sleeps less when it has slept.
LeaseLeft(i) ==
    /\ result = Granted /\ expiry > 0
    /\ loop[i].pc \in {"top", "arm", "asleep", "woken", "renew", "renewed"}
    /\ loop[i].pc = "top" => expiry + HttpTimeout >= now + Lease
    /\ loop[i].pc \in {"arm", "asleep"} =>
          /\ now <= loop[i].wake
          /\ expiry + HttpTimeout + Sleep(Lease) >= loop[i].wake + Lease
    /\ loop[i].pc = "woken" => expiry + HttpTimeout + Sleep(Lease) >= now + Lease
    /\ loop[i].pc = "renew" =>
          /\ loop[i].sent <= now /\ now <= loop[i].sent + HttpTimeout
          /\ expiry + HttpTimeout + Sleep(Lease) >= loop[i].sent + Lease
    /\ loop[i].pc = "renewed" =>
          /\ now <= loop[i].sent + HttpTimeout
          /\ expiry >= loop[i].sent + Lease
          /\ loop[i].answer = Granted

\* No time passes between the login and the start of the renewal, and from then on
\* the loop has enough of the lease left.
LeaseInv ==
    /\ starts = 0 /\ result.renewable =>
          /\ result = Granted /\ expiry = now + Lease
          /\ \E c \in Controllers : ctl[c].pc = "loggedIn"
    /\ starts = 1 /\ ~lost =>
          /\ \A c \in Controllers : ctl[c].pc = "starting" /\ ctl[c].live =>
                result = Granted /\ expiry = now + Lease
          /\ \A i \in Loops : Alive(i) => LeaseLeft(i)

LEMMA GrantedLive == Live(Granted) /\ Granted.lease = Lease /\ Granted.renewable
  BY Numbers DEF Live, Granted

\* A step of the loop leaves enough of the lease, if half of it has room for two requests.
LEMMA LoopLease ==
  ASSUME Sleep(Lease) + 2 * HttpTimeout <= Lease, TypeOK, NEW i \in Loops,
         LeaseLeft(i), RenewLoop(i), ~lost', Alive(i)'
  PROVE  LeaseLeft(i)'
<1> USE Numbers DEF TypeOK, LeaseLeft
<1>0. Sleep(Lease) \in Nat /\ loop[i] \in LoopRecords
  BY SleepType
<1>1. CASE Head(i)
  <2>1. /\ loop'[i].pc = "arm" /\ loop'[i].wake = now + Sleep(Lease)
        /\ UNCHANGED <<now, expiry, result>>
    BY <1>1, <1>0, GrantedLive DEF Head, LoopRecords
  <2> QED
    BY <1>0, <1>1, <2>1 DEF Head
<1>2. CASE NotRenewable(i)
  BY <1>2, GrantedLive DEF NotRenewable
<1>3. CASE EnterSelect(i)
  <2>1. /\ loop'[i].pc \in {"asleep", "done"} /\ loop'[i].wake = loop[i].wake
        /\ UNCHANGED <<now, expiry, result>>
    BY <1>0, <1>3 DEF EnterSelect, LoopRecords
  <2> QED
    BY <1>3, <2>1 DEF EnterSelect, Alive
<1>4. CASE TimerFires(i)
  <2>1. loop'[i].pc = "woken" /\ UNCHANGED <<now, expiry, result>>
    BY <1>0, <1>4 DEF TimerFires, Goto, LoopRecords
  <2> QED
    BY <1>0, <1>4, <2>1 DEF TimerFires, LoopRecords
<1>5. CASE RenewToken(i)
  <2>1. loop'[i].pc = "renew" /\ loop'[i].sent = now /\ UNCHANGED <<now, expiry, result>>
    BY <1>0, <1>5, GrantedLive DEF RenewToken, LoopRecords
  <2> QED
    BY <1>0, <1>5, <2>1 DEF RenewToken
<1>6. CASE VaultRenews(i)
  <2>1. /\ loop'[i].pc = "renewed" /\ loop'[i].sent = loop[i].sent
        /\ loop'[i].answer = Granted /\ expiry' = now + Lease /\ UNCHANGED <<now, result>>
        /\ loop[i].sent <= now
    <3>1. PICK lease \in Grants, renewable \in BOOLEAN :
            /\ expiry' = now + lease
            /\ loop' = [loop EXCEPT ![i].pc = "renewed",
                                    ![i].answer = [lease |-> lease, renewable |-> renewable]]
            /\ lost' = (lost \/ lease # Lease \/ ~renewable)
      BY <1>6 DEF VaultRenews
    <3>2. ~(lost \/ lease # Lease \/ ~renewable)
      BY <3>1, Zenon
    <3>3. lease = Lease /\ renewable = TRUE
      BY <3>2
    <3> QED
      BY <1>0, <1>6, <3>1, <3>3 DEF VaultRenews, LoopRecords, Granted
  <2> QED
    BY <1>0, <1>6, <2>1 DEF VaultRenews, LoopRecords
<1>7. CASE StoreRenewed(i)
  <2>1. loop'[i].pc = "top" /\ result' = Granted /\ UNCHANGED <<now, expiry>>
    BY <1>0, <1>7 DEF StoreRenewed, Goto, LoopRecords
  <2> QED
    BY <1>0, <1>7, <2>1 DEF StoreRenewed, LoopRecords
<1>8. CASE RenewFails(i)
  BY <1>0, <1>8 DEF RenewFails, LoopRecords
<1>9. CASE AfterFailure(i) \/ LookupToken(i) \/ StoreLookedUp(i)
  BY <1>9 DEF AfterFailure, LookupToken, StoreLookedUp
<1> QED
  BY <1>1, <1>2, <1>3, <1>4, <1>5, <1>6, <1>7, <1>8, <1>9 DEF RenewLoop

LEMMA LeaseStep ==
  ASSUME Sleep(Lease) + 2 * HttpTimeout <= Lease, TypeInv, StartsInv, LeaseInv, [Next]_vars
  PROVE  LeaseInv'
<1>0. /\ TypeOK /\ starts \in Nat /\ now \in Nat /\ expiry \in Nat
      /\ \A i \in Loops : loop[i].pc # "none" => i <= starts
      /\ \A c \in Controllers : ctl[c].pc = "starting" => starts # 0
      /\ Loops \subseteq Nat \ {0}
  BY Numbers DEF TypeInv, TypeOK, StartsInv, Loops
<1>1. CASE Tick
  <2>1. /\ now' = now + 1 /\ UNCHANGED <<expiry, result, starts, lost, ctl, loop>>
        /\ \A c \in Controllers : ctl[c].pc = "idle"
        /\ \A i \in Loops : Waiting(i)
    BY <1>1 DEF Tick
  <2>2. ASSUME NEW i \in Loops, LeaseLeft(i) PROVE LeaseLeft(i)'
    <3>1. loop[i] \in LoopRecords /\ Sleep(Lease) \in Nat
      BY <1>0, SleepType, Numbers DEF TypeOK
    <3> QED
      BY <1>0, <2>1, <2>2, <3>1, Numbers DEF LeaseLeft, Waiting, LoopRecords
  <2> QED
    BY <2>1, <2>2 DEF LeaseInv, Alive
<1>2. CASE UNCHANGED vars
  BY <1>2 DEF vars, LeaseInv, LeaseLeft, Alive
<1>3. ASSUME NEW c \in Controllers, Login(c) PROVE LeaseInv'
  <2>1. /\ UNCHANGED <<now, starts, loop>> /\ expiry = 0 /\ expiry' = now + Lease
        /\ result' \in {Granted, NoResult}
    BY <1>3 DEF Login, Granted
  <2>2. lost' = lost \/ lost' = TRUE
    BY <1>3, Zenon DEF Login
  <2>3. ctl'[c].pc = "loggedIn" /\ \A d \in Controllers \ {c} : ctl'[d] = ctl[d]
    BY <1>0, <1>3 DEF Login, TypeOK, ControlRecords
  <2>4. \A d \in Controllers : ~(starts = 1 /\ ~lost /\ ctl[d].pc = "starting" /\ ctl[d].live)
    BY <1>0, <2>1, Numbers DEF LeaseInv
  <2>5. \A i \in Loops : ~(starts = 1 /\ ~lost /\ Alive(i))
    BY <1>0, <2>1 DEF LeaseInv, LeaseLeft
  <2>6. result'.renewable => result' = Granted
    BY <2>1 DEF NoResult
  <2>7. \A i \in Loops : Alive(i)' <=> Alive(i)
    BY <2>1 DEF Alive
  <2> QED
    BY <2>1, <2>2, <2>3, <2>4, <2>5, <2>6, <2>7 DEF LeaseInv
<1>4. ASSUME NEW c \in Controllers, NoRenewal(c) PROVE LeaseInv'
  <2>1. /\ UNCHANGED <<now, expiry, result, starts, lost, loop>> /\ ~result.renewable
    BY <1>4 DEF NoRenewal
  <2>2. ctl'[c].pc = "idle" /\ \A d \in Controllers \ {c} : ctl'[d] = ctl[d]
    BY <1>0, <1>4 DEF NoRenewal, TypeOK, ControlRecords
  <2> QED
    BY <2>1, <2>2 DEF LeaseInv, LeaseLeft, Alive
<1>5. ASSUME NEW c \in Controllers, StartRenewal(c) PROVE LeaseInv'
  <2>1. UNCHANGED <<now, expiry, result, lost, loop>> /\ starts' = starts + 1
    BY <1>5 DEF StartRenewal
  <2>2. /\ ctl'[c].live = Live(result)
        /\ \A d \in Controllers \ {c} : ctl'[d] = ctl[d]
    BY <1>0, <1>5 DEF StartRenewal, TypeOK, ControlRecords
  <2>3. SUFFICES ASSUME starts = 0 PROVE LeaseInv'
    BY <1>0, <2>1 DEF LeaseInv
  <2>4. \A i \in Loops : ~Alive(i)'
    <3>1. ASSUME NEW i \in Loops PROVE ~Alive(i)
      <4>1. i \in Nat \ {0} /\ (loop[i].pc # "none" => i <= 0)
        BY <1>0, <2>3
      <4> QED
        BY <4>1 DEF Alive
    <3> QED
      BY <2>1, <3>1 DEF Alive
  <2>5. \A d \in Controllers : ctl'[d].pc = "starting" /\ ctl'[d].live => result.renewable
    BY <1>0, <2>2, <2>3 DEF Live
  <2> QED
    BY <2>1, <2>3, <2>4, <2>5 DEF LeaseInv
<1>6. ASSUME NEW c \in Controllers, StopRenewal(c) PROVE LeaseInv'
  <2>1. UNCHANGED <<now, expiry, result, lost, ctl, starts>>
    BY <1>6 DEF StopRenewal
  <2>2. \A i \in Loops :
            \/ loop'[i] = loop[i] /\ ~(loop[i].pc = "asleep" /\ loop[i].ch = renewDone)
            \/ loop[i].pc = "asleep" /\ loop'[i].pc = "done"
    BY <1>0, <1>6, WokenLoops, Zenon
  <2>3. \A i \in Loops : Alive(i)' => Alive(i) /\ loop'[i] = loop[i]
    BY <2>2 DEF Alive
  <2> QED
    BY <2>1, <2>3 DEF LeaseInv, LeaseLeft
<1>7. ASSUME NEW c \in Controllers, LaunchLoop(c) PROVE LeaseInv'
  <2>1. /\ UNCHANGED <<now, expiry, result, lost, starts>>
        /\ ctl[c].pc = "starting" /\ ctl[c].live
    BY <1>7 DEF LaunchLoop
  <2>2. ctl'[c].pc = "idle" /\ \A d \in Controllers \ {c} : ctl'[d] = ctl[d]
    BY <1>0, <1>7 DEF LaunchLoop, TypeOK, ControlRecords
  <2>3. PICK k \in Loops : k = ctl[c].id
    BY <1>0, <2>1, Numbers DEF StartsInv, TypeInv, TypeOK, Loops
  <2>4. /\ loop'[k].pc = "top"
        /\ \A i \in Loops \ {k} : loop'[i] = loop[i]
    BY <1>0, <1>7, <2>3 DEF LaunchLoop, TypeOK, LoopRecords
  <2>5. starts = 1 /\ ~lost => LeaseLeft(k)'
    BY <1>0, <2>1, <2>4, Numbers DEF LeaseInv, LeaseLeft
  <2>6. \A i \in Loops \ {k} : Alive(i)' => Alive(i)
    BY <2>4 DEF Alive
  <2>7. \A i \in Loops \ {k} : LeaseLeft(i) => LeaseLeft(i)'
    BY <2>1, <2>4 DEF LeaseLeft
  <2> QED
    BY <1>0, <2>1, <2>2, <2>5, <2>6, <2>7 DEF LeaseInv
<1>8. ASSUME NEW c \in Controllers, SkipLoop(c) PROVE LeaseInv'
  <2>1. /\ UNCHANGED <<now, expiry, result, lost, starts, loop>>
        /\ ctl[c].pc = "starting"
    BY <1>8 DEF SkipLoop
  <2>2. ctl'[c].pc = "idle" /\ \A d \in Controllers \ {c} : ctl'[d] = ctl[d]
    BY <1>0, <1>8 DEF SkipLoop, TypeOK, ControlRecords
  <2> QED
    BY <2>1, <2>2, <1>0 DEF LeaseInv, LeaseLeft, Alive
<1>9. ASSUME NEW i \in Loops, RenewLoop(i) PROVE LeaseInv'
  <2>1. /\ UNCHANGED <<now, renewing, renewDone, closed, starts, ctl>>
        /\ loop[i].pc # "none"
        /\ \A j \in Loops \ {i} : loop'[j] = loop[j]
    BY <1>0, <1>9, LoopStep
  <2>2. lost => lost'
    BY <1>9, Zenon DEF RenewLoop, Head, NotRenewable, EnterSelect, TimerFires, RenewToken,
              VaultRenews, StoreRenewed, RenewFails, AfterFailure, LookupToken, StoreLookedUp
  <2>3. loop[i].pc # "done"
    BY <1>9 DEF RenewLoop, Head, NotRenewable, EnterSelect, TimerFires, RenewToken,
              VaultRenews, StoreRenewed, RenewFails, AfterFailure, LookupToken, StoreLookedUp
  <2>4. SUFFICES ASSUME starts = 1, ~lost' PROVE LeaseInv'
    BY <1>0, <2>1 DEF LeaseInv
  <2>5. LeaseLeft(i) /\ Loops \cap 0 .. 1 = {i}
    BY <1>0, <2>1, <2>2, <2>3, <2>4 DEF LeaseInv, Alive
  <2>6. \A j \in Loops \ {i} : ~Alive(j)'
    BY <1>0, <2>1, <2>4, <2>5 DEF Alive
  <2>7. Alive(i)' => LeaseLeft(i)'
    BY <1>0, <1>9, <2>4, <2>5, LoopLease
  <2>8. \A c \in Controllers : ctl[c].pc # "starting"
    BY <1>0, <2>1, <2>4, <2>5 DEF StartsInv
  <2> QED
    BY <2>1, <2>4, <2>6, <2>7, <2>8 DEF LeaseInv
<1> QED
  BY <1>1, <1>2, <1>3, <1>4, <1>5, <1>6, <1>7, <1>8, <1>9 DEF Next, Control, Continue

\* Whatever the lease, the floor and the timeout are, if what the loop sleeps leaves room
\* for two requests: as long as Vault answers, the token does not expire.
THEOREM TokenOutlivesRenewal ==
  ASSUME Sleep(Lease) + 2 * HttpTimeout <= Lease
  PROVE  Spec => []NeverExpires
<1>1. Init => LeaseInv
  BY Numbers DEF Init, LeaseInv, NoResult, NoLoop, Alive
<1>2. TypeInv /\ StartsInv /\ LeaseInv /\ [Next]_vars => LeaseInv'
  BY LeaseStep
<1>3. TypeInv /\ LeaseInv => NeverExpires
  <2> SUFFICES ASSUME TypeInv, LeaseInv, starts = 1, ~lost, NEW i \in Loops, Alive(i)
               PROVE  now <= expiry
    BY DEF NeverExpires
  <2>1. LeaseLeft(i) /\ loop[i] \in LoopRecords /\ Sleep(Lease) \in Nat
    BY SleepType, Numbers DEF LeaseInv, TypeInv, TypeOK
  <2> QED
    BY <2>1, Numbers DEF LeaseLeft, TypeInv, TypeOK, LoopRecords
<1> QED
  BY <1>1, <1>2, <1>3, Starting, PTL DEF Spec


-----------------------------------------------------------------------------
(* OIDCLogin *)

\* A request whose code Vault has exchanged for a token.
LoggedIn(c) == handler[c] = "loggedIn" \/ page[c] = "success"

\* Vault gives each login only once, to one request.
LoginOnceInv ==
    /\ \A f \in Flows : pc[f] = "none" => state[f] = "unknown"
    /\ \A c \in Callbacks :
          /\ handler[c] # "none" => state[login[c]] # "unknown"
          /\ handler[c] # "done" => page[c] = "none"
          /\ LoggedIn(c) => handler[c] # "none" /\ state[login[c]] = "used"
    /\ \A c, d \in Callbacks :
          LoggedIn(c) /\ LoggedIn(d) /\ login[c] = login[d] => c = d

\* From there it gets into the channel, and then the outcome, of the flow whose
\* server took the request.
SentBy(f, l) == \E c \in Callbacks : page[c] = "success" /\ at[c] = f /\ login[c] = l

SentInv ==
    \A f \in Flows :
       /\ \A l \in resultChan[f] : SentBy(f, l)
       /\ outcome[f] \in Flows => SentBy(f, outcome[f])

\* Once a flow has stored its login, a.result is the login of a flow that has.
StoreInv ==
    /\ \A f \in Flows : pc[f] \in {"stored", "done"} /\ outcome[f] \in Flows
                           => loginResult # NoFlow
    /\ loginResult # NoFlow =>
          \E f \in Flows : pc[f] \in {"stored", "done"} /\ outcome[f] = loginResult

\* The port belongs to a flow whose server is up, and a flow that has left the
\* select has a server only until it has shut it down.
PortInv ==
    /\ port # NoFlow => server[port] = "up"
    /\ \A f \in Flows :
          /\ pc[f] = "none" => server[f] = "off"
          /\ pc[f] \in {"storing", "stored", "done"} => server[f] \in {"off", "closed"}

-----------------------------------------------------------------------------
(* Types *)

\* A handler leaves the flows, the port and the result alone.
LEMMA HandlerSteps ==
  ASSUME NEW c \in Callbacks, Handle(c) \/ \E f \in Flows : Callback(c, f)
  PROVE  UNCHANGED <<flowVars, port, loginResult>>
BY DEF Handle, Exchange, ExchangeFails, SendResult, SendError, Finish, Callback

\* A request that the server took is of a flow.
RequestInv == \A c \in Callbacks : handler[c] # "none" => at[c] \in Flows /\ login[c] \in Flows

\* A flow that is about to store a result has a login.
PendingInv == \A f \in Flows : pc[f] \in {"storing", "stored"} => outcome[f] \in Flows

FlowTypeInv == LoginTypeOK /\ RequestInv /\ PendingInv

LEMMA FlowTypeInit == LoginInit => FlowTypeInv
BY DEF FlowTypeInv, RequestInv, PendingInv, LoginInit, LoginTypeOK, FlowStates, Outcomes,
       HandlerStates

LEMMA FlowTypeStep == FlowTypeInv /\ [LoginNext]_loginVars => FlowTypeInv'
<1> SUFFICES ASSUME FlowTypeInv, [LoginNext]_loginVars PROVE FlowTypeInv'
  OBVIOUS
<1> USE FlowsAssumption DEF FlowTypeInv, LoginTypeOK, RequestInv, PendingInv, FlowStates,
            Outcomes, HandlerStates
<1>1. ASSUME NEW f \in Flows, Start(f) PROVE FlowTypeInv'
  BY <1>1, SMTT(20) DEF flowVars, requestVars, Start
<1>2. ASSUME NEW f \in Flows, Serve(f) PROVE FlowTypeInv'
  BY <1>2, SMTT(20) DEF flowVars, requestVars, Serve, Listen, ListenFails
<1>3. ASSUME NEW f \in Flows, TakeResult(f) PROVE FlowTypeInv'
  BY <1>3, SMTT(20) DEF flowVars, requestVars, TakeResult, Take
<1>4. ASSUME NEW f \in Flows, TakeError(f) \/ TimesOut(f) PROVE FlowTypeInv'
  BY <1>4, SMTT(20) DEF flowVars, requestVars, TakeError, Take, TimesOut
<1>5. ASSUME NEW f \in Flows, Shutdown(f) PROVE FlowTypeInv'
  BY <1>5, SMTT(20) DEF flowVars, requestVars, Shutdown
<1>6. ASSUME NEW f \in Flows, Store(f) PROVE FlowTypeInv'
  BY <1>6, SMTT(20) DEF flowVars, requestVars, Store
<1>7. ASSUME NEW f \in Flows, Deliver(f) PROVE FlowTypeInv'
  BY <1>7, SMTT(20) DEF flowVars, requestVars, Deliver
<1>8. ASSUME NEW c \in Callbacks, Exchange(c) \/ ExchangeFails(c) PROVE FlowTypeInv'
  BY <1>8, SMTT(20) DEF flowVars, requestVars, Exchange, ExchangeFails
<1>9. ASSUME NEW c \in Callbacks, SendResult(c) PROVE FlowTypeInv'
  BY <1>9, SMTT(20) DEF flowVars, requestVars, SendResult, Finish
<1>10. ASSUME NEW c \in Callbacks, SendError(c) PROVE FlowTypeInv'
  BY <1>10, SMTT(20) DEF flowVars, requestVars, SendError, Finish
<1>11. ASSUME NEW c \in Callbacks, NEW f \in Flows, Callback(c, f) PROVE FlowTypeInv'
  BY <1>11, SMTT(20) DEF flowVars, requestVars, Callback
<1>12. CASE UNCHANGED loginVars
  BY <1>12 DEF loginVars, flowVars, requestVars
<1> QED
  BY <1>1, <1>2, <1>3, <1>4, <1>5, <1>6, <1>7, <1>8, <1>9, <1>10, <1>11, <1>12
     DEF LoginNext, Wait, Handle

\* The type invariant, with what it rests on.
THEOREM FlowTyping == LoginSpec => []FlowTypeInv
BY FlowTypeInit, FlowTypeStep, PTL DEF LoginSpec

\* The type invariant.
THEOREM FlowTypes == LoginSpec => []LoginTypeOK
<1>1. FlowTypeInv => LoginTypeOK
  BY DEF FlowTypeInv
<1> QED
  BY <1>1, FlowTyping, PTL

-----------------------------------------------------------------------------
(* The port *)

LEMMA PortStep == LoginTypeOK /\ PortInv /\ [LoginNext]_loginVars => PortInv'
<1> SUFFICES ASSUME LoginTypeOK, PortInv, [LoginNext]_loginVars PROVE PortInv'
  OBVIOUS
<1> USE FlowsAssumption DEF LoginTypeOK, PortInv, FlowStates
<1>1. ASSUME NEW f \in Flows, Start(f) PROVE PortInv'
  BY <1>1, SMTT(20) DEF flowVars, requestVars, Start
<1>2. ASSUME NEW f \in Flows, Serve(f) PROVE PortInv'
  BY <1>2, SMTT(20) DEF flowVars, requestVars, Serve, Listen, ListenFails
<1>3. ASSUME NEW f \in Flows, TakeResult(f) \/ TakeError(f) \/ TimesOut(f) PROVE PortInv'
  BY <1>3, SMTT(20) DEF flowVars, requestVars, TakeResult, Take, TakeError, TimesOut
<1>4. ASSUME NEW f \in Flows, Shutdown(f) PROVE PortInv'
  BY <1>4, SMTT(20) DEF flowVars, requestVars, Shutdown
<1>5. ASSUME NEW f \in Flows, Store(f) \/ Deliver(f) PROVE PortInv'
  BY <1>5, SMTT(20) DEF flowVars, requestVars, Store, Deliver
<1>6. ASSUME NEW c \in Callbacks, Handle(c) \/ \E f \in Flows : Callback(c, f) PROVE PortInv'
  BY <1>6, HandlerSteps DEF flowVars
<1>7. CASE UNCHANGED loginVars
  BY <1>7 DEF loginVars, flowVars, requestVars
<1> QED
  BY <1>1, <1>2, <1>3, <1>4, <1>5, <1>6, <1>7 DEF LoginNext, Wait

\* However a flow ends, its server has given the port back
\* (authenticator.go:320, 325, 330).
THEOREM PortIsReleased == LoginSpec => []PortReleased
<1>1. LoginInit => PortInv
  BY DEF LoginInit, PortInv
<1>2. LoginSpec => []PortInv
  BY <1>1, FlowTypes, PortStep, PTL DEF LoginSpec
<1>3. LoginTypeOK /\ PortInv => PortReleased
  BY DEF LoginTypeOK, PortInv, PortReleased, FlowStates
<1> QED
  BY <1>2, <1>3, FlowTypes, PTL

-----------------------------------------------------------------------------
(* a.result *)

LEMMA StoreStep == FlowTypeInv /\ StoreInv /\ [LoginNext]_loginVars => StoreInv'
<1> SUFFICES ASSUME FlowTypeInv, StoreInv, [LoginNext]_loginVars PROVE StoreInv'
  OBVIOUS
<1> USE FlowsAssumption DEF FlowTypeInv, LoginTypeOK, PendingInv, StoreInv, FlowStates, Outcomes
<1>1. ASSUME NEW f \in Flows, Start(f) PROVE StoreInv'
  BY <1>1, SMTT(20) DEF flowVars, requestVars, Start
<1>2. ASSUME NEW f \in Flows, Serve(f) PROVE StoreInv'
  BY <1>2, SMTT(20) DEF flowVars, requestVars, Serve, Listen, ListenFails
<1>3. ASSUME NEW f \in Flows, TakeResult(f) \/ TakeError(f) \/ TimesOut(f) PROVE StoreInv'
  BY <1>3, SMTT(20) DEF flowVars, requestVars, TakeResult, Take, TakeError, TimesOut
<1>4. ASSUME NEW f \in Flows, Shutdown(f) PROVE StoreInv'
  BY <1>4, SMTT(20) DEF flowVars, requestVars, Shutdown
<1>5. ASSUME NEW f \in Flows, Store(f) PROVE StoreInv'
  BY <1>5, SMTT(20) DEF flowVars, requestVars, Store
<1>6. ASSUME NEW f \in Flows, Deliver(f) PROVE StoreInv'
  BY <1>6, SMTT(20) DEF flowVars, requestVars, Deliver
<1>7. ASSUME NEW c \in Callbacks, Handle(c) \/ \E f \in Flows : Callback(c, f) PROVE StoreInv'
  BY <1>7, HandlerSteps DEF flowVars
<1>8. CASE UNCHANGED loginVars
  BY <1>8 DEF loginVars, flowVars, requestVars
<1> QED
  BY <1>1, <1>2, <1>3, <1>4, <1>5, <1>6, <1>7, <1>8 DEF LoginNext, Wait

\* Whoever has received a login finds one in a.result (authenticator.go:210-213).
THEOREM ResultIsStored == LoginSpec => []StoredWhenDelivered
<1>1. LoginInit => StoreInv
  BY DEF LoginInit, StoreInv
<1>2. LoginSpec => []StoreInv
  BY <1>1, FlowTyping, StoreStep, PTL DEF LoginSpec
<1>3. StoreInv => StoredWhenDelivered
  BY DEF StoreInv, StoredWhenDelivered
<1> QED
  BY <1>2, <1>3, PTL

-----------------------------------------------------------------------------
(* The logins *)

LEMMA LoginOnceStep == FlowTypeInv /\ LoginOnceInv /\ [LoginNext]_loginVars => LoginOnceInv'
<1> SUFFICES ASSUME FlowTypeInv, LoginOnceInv, [LoginNext]_loginVars PROVE LoginOnceInv'
  OBVIOUS
<1> USE FlowsAssumption DEF FlowTypeInv, LoginTypeOK, RequestInv, LoginOnceInv, LoggedIn,
            FlowStates,
                            HandlerStates
<1>1. ASSUME NEW f \in Flows, Start(f) PROVE LoginOnceInv'
  BY <1>1, SMTT(20) DEF requestVars, Start
<1>2. ASSUME NEW f \in Flows, Serve(f) PROVE LoginOnceInv'
  BY <1>2, SMTT(20) DEF requestVars, Serve, Listen, ListenFails
<1>3. ASSUME NEW f \in Flows, TakeResult(f) \/ TakeError(f) \/ TimesOut(f) PROVE LoginOnceInv'
  BY <1>3, SMTT(20) DEF requestVars, TakeResult, Take, TakeError, TimesOut
<1>4. ASSUME NEW f \in Flows, Shutdown(f) \/ Store(f) \/ Deliver(f) PROVE LoginOnceInv'
  BY <1>4, SMTT(20) DEF requestVars, Shutdown, Store, Deliver
<1>5. ASSUME NEW c \in Callbacks, NEW f \in Flows, Callback(c, f) PROVE LoginOnceInv'
  BY <1>5, SMTT(20) DEF flowVars, Callback
<1>6. ASSUME NEW c \in Callbacks, Exchange(c) PROVE LoginOnceInv'
  BY <1>6, SMTT(20) DEF flowVars, Exchange
<1>7. ASSUME NEW c \in Callbacks, ExchangeFails(c) PROVE LoginOnceInv'
  <2>1. /\ handler[c] = "posted" /\ handler' = [handler EXCEPT ![c] = "failed"]
        /\ UNCHANGED <<at, login, page, pc>>
    BY <1>7 DEF flowVars, ExchangeFails
  <2>2. CASE state' = state
    BY <2>1, <2>2, SMTT(20)
  <2>3. CASE state' = [state EXCEPT ![login[c]] = "used"]
    BY <2>1, <2>3, SMTT(20)
  <2> QED
    BY <1>7, <2>2, <2>3 DEF ExchangeFails
<1>8. ASSUME NEW c \in Callbacks, SendResult(c) \/ SendError(c) PROVE LoginOnceInv'
  BY <1>8, SMTT(20) DEF flowVars, SendResult, SendError, Finish
<1>9. CASE UNCHANGED loginVars
  BY <1>9 DEF loginVars, flowVars, requestVars
<1> QED
  BY <1>1, <1>2, <1>3, <1>4, <1>5, <1>6, <1>7, <1>8, <1>9 DEF LoginNext, Wait, Handle

LEMMA SentStep == FlowTypeInv /\ LoginOnceInv /\ SentInv /\ [LoginNext]_loginVars => SentInv'
<1> SUFFICES ASSUME FlowTypeInv, LoginOnceInv, SentInv, [LoginNext]_loginVars PROVE SentInv'
  OBVIOUS
<1> USE FlowsAssumption DEF FlowTypeInv, LoginTypeOK, RequestInv, SentInv, SentBy, FlowStates,
                            HandlerStates
<1>1. ASSUME NEW f \in Flows, Start(f) PROVE SentInv'
  BY <1>1, SMTT(20) DEF requestVars, Start
<1>2. ASSUME NEW f \in Flows, Serve(f) PROVE SentInv'
  BY <1>2, SMTT(20) DEF requestVars, Serve, Listen, ListenFails
<1>3. ASSUME NEW f \in Flows, TakeResult(f) PROVE SentInv'
  BY <1>3, SMTT(20) DEF requestVars, TakeResult, Take
<1>4. ASSUME NEW f \in Flows, TakeError(f) \/ TimesOut(f) PROVE SentInv'
  BY <1>4, SMTT(20) DEF requestVars, TakeError, Take, TimesOut
<1>5. ASSUME NEW f \in Flows, Shutdown(f) \/ Store(f) \/ Deliver(f) PROVE SentInv'
  BY <1>5, SMTT(20) DEF requestVars, Shutdown, Store, Deliver
<1>6. ASSUME NEW c \in Callbacks, NEW f \in Flows, Callback(c, f) PROVE SentInv'
  BY <1>6, SMTT(20) DEF flowVars, Callback, LoginOnceInv
<1>7. ASSUME NEW c \in Callbacks, Exchange(c) \/ ExchangeFails(c) PROVE SentInv'
  BY <1>7, SMTT(20) DEF flowVars, Exchange, ExchangeFails
<1>8. ASSUME NEW c \in Callbacks, SendResult(c) PROVE SentInv'
  BY <1>8, SMTT(20) DEF flowVars, SendResult, Finish
<1>9. ASSUME NEW c \in Callbacks, SendError(c) PROVE SentInv'
  BY <1>9, SMTT(20) DEF flowVars, SendError, Finish, LoginOnceInv
<1>10. CASE UNCHANGED loginVars
  BY <1>10 DEF loginVars, flowVars, requestVars
<1> QED
  BY <1>1, <1>2, <1>3, <1>4, <1>5, <1>6, <1>7, <1>8, <1>9, <1>10 DEF LoginNext, Wait, Handle

\* Flows that run at the same time are not mixed up: each reports the login of a
\* request that its own server took, and no two report the same one
\* (authenticator.go:270-277).
THEOREM FlowsNotMixedUp == LoginSpec => []ResultsOfOwnServer
<1>1. LoginInit => LoginOnceInv /\ SentInv
  BY FlowsAssumption DEF LoginInit, LoginOnceInv, SentInv, LoggedIn
<1>2. LoginSpec => [](FlowTypeInv /\ LoginOnceInv /\ SentInv)
  BY <1>1, FlowTyping, LoginOnceStep, SentStep, PTL DEF LoginSpec
<1>3. FlowTypeInv /\ LoginOnceInv /\ SentInv => ResultsOfOwnServer
  <2> SUFFICES ASSUME FlowTypeInv, LoginOnceInv, SentInv, NEW f \in Flows, outcome[f] \in Flows
               PROVE  /\ \E c \in Callbacks : at[c] = f /\ login[c] = outcome[f]
                      /\ \A g \in Flows \ {f} : outcome[g] # outcome[f]
    BY DEF ResultsOfOwnServer
  <2>1. PICK c \in Callbacks : page[c] = "success" /\ at[c] = f /\ login[c] = outcome[f]
    BY DEF SentInv, SentBy
  <2>2. ASSUME NEW g \in Flows, outcome[g] = outcome[f] PROVE g = f
    <3>1. PICK d \in Callbacks : page[d] = "success" /\ at[d] = g /\ login[d] = outcome[g]
      BY <2>2 DEF SentInv, SentBy
    <3>2. c = d
      BY <2>1, <2>2, <3>1 DEF LoginOnceInv, LoggedIn
    <3> QED
      BY <2>1, <3>1, <3>2
  <2> QED
    BY <2>1, <2>2
<1> QED
  BY <1>2, <1>3, PTL

-----------------------------------------------------------------------------
(* The errors *)

\* A server that has taken a request got its port, and an error is one of a request, or
\* of a server that did not get it.
ErrorInv ==
    /\ \A c \in Callbacks : at[c] \in Flows => server[at[c]] \in {"up", "closed"}
    /\ \A f \in Flows : errorChan[f] = 1 \/ outcome[f] = "error" =>
          \/ \E d \in Callbacks : at[d] = f /\ page[d] = "failure"
          \/ /\ \A d \in Callbacks : at[d] # f
             /\ pc[f] # "none" /\ server[f] \notin {"starting", "up"}
    /\ \A f \in Flows : pc[f] = "none" => outcome[f] = "none"
    /\ \A c \in Callbacks : handler[c] # "done" => page[c] = "none"
    /\ \A c \in Callbacks : handler[c] = "none" => at[c] = NoFlow

LEMMA ErrorStep == FlowTypeInv /\ PortInv /\ ErrorInv /\ [LoginNext]_loginVars => ErrorInv'
<1> SUFFICES ASSUME FlowTypeInv, PortInv, ErrorInv, [LoginNext]_loginVars PROVE ErrorInv'
  OBVIOUS
<1> USE FlowsAssumption DEF FlowTypeInv, LoginTypeOK, RequestInv, ErrorInv, FlowStates,
            HandlerStates
<1>1. ASSUME NEW f \in Flows, Start(f) PROVE ErrorInv'
  BY <1>1, SMTT(20) DEF requestVars, Start, PortInv
<1>2. ASSUME NEW f \in Flows, Serve(f) PROVE ErrorInv'
  BY <1>2, SMTT(20) DEF requestVars, flowVars, Serve, Listen, ListenFails, PortInv
<1>3. ASSUME NEW f \in Flows, TakeResult(f) \/ TakeError(f) \/ TimesOut(f) PROVE ErrorInv'
  BY <1>3, SMTT(20) DEF requestVars, TakeResult, Take, TakeError, TimesOut
<1>4. ASSUME NEW f \in Flows, Shutdown(f) \/ Store(f) \/ Deliver(f) PROVE ErrorInv'
  BY <1>4, SMTT(20) DEF requestVars, Shutdown, Store, Deliver
<1>5. ASSUME NEW c \in Callbacks, NEW f \in Flows, Callback(c, f) PROVE ErrorInv'
  BY <1>5, SMTT(20) DEF flowVars, Callback, PortInv
<1>6. ASSUME NEW c \in Callbacks, Exchange(c) \/ ExchangeFails(c) PROVE ErrorInv'
  BY <1>6, SMTT(20) DEF flowVars, Exchange, ExchangeFails
<1>7. ASSUME NEW c \in Callbacks, SendResult(c) \/ SendError(c) PROVE ErrorInv'
  BY <1>7, SMTT(20) DEF flowVars, SendResult, SendError, Finish
<1>8. CASE UNCHANGED loginVars
  BY <1>8 DEF loginVars, flowVars, requestVars
<1> QED
  BY <1>1, <1>2, <1>3, <1>4, <1>5, <1>6, <1>7, <1>8 DEF LoginNext, Wait, Handle

\* However many requests a flow gets and in whatever order they are answered: if the
\* browser showed success and the flow failed, another request of it has failed.
THEOREM LostOnlyToRace == LoginSpec => []SuccessLostOnlyToRace
<1>1. LoginInit => PortInv /\ ErrorInv
  BY FlowsAssumption DEF LoginInit, PortInv, ErrorInv
<1>2. LoginSpec => [](FlowTypeInv /\ PortInv /\ ErrorInv)
  <2>1. FlowTypeInv => LoginTypeOK
    BY DEF FlowTypeInv
  <2> QED
    BY <1>1, <2>1, FlowTyping, PortStep, ErrorStep, PTL DEF LoginSpec
<1>3. FlowTypeInv /\ PortInv /\ ErrorInv => SuccessLostOnlyToRace
  <2> SUFFICES ASSUME FlowTypeInv, PortInv, ErrorInv, NEW c \in Callbacks,
                      page[c] = "success", pc[at[c]] = "done", outcome[at[c]] = "error"
               PROVE  \E d \in Callbacks \ {c} : at[d] = at[c] /\ page[d] = "failure"
    BY DEF SuccessLostOnlyToRace
  <2>1. at[c] \in Flows
    BY DEF FlowTypeInv, RequestInv, ErrorInv
  <2> QED
    BY <2>1 DEF ErrorInv
<1> QED
  BY <1>2, <1>3, PTL
=============================================================================
