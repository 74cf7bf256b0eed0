--------------------------- MODULE StartupProofs ---------------------------
(* Type correctness and the safety properties of Startup. *)
EXTENDS Startup, TLAPS

-----------------------------------------------------------------------------
(* The inductive invariant *)

BeforeMount == {"login", "connecting", "wiring", "lists", "extracting", "writing",
                "validating", "building"}

\* Until the callback is installed the first sleep of the loop is not over, so that
\* no token has been renewed; afterwards every renewal has read the callback.
WireInv ==
    /\ At("login") => renewal.pc = "none"
    /\ At("wiring") => now < since + PingTimeout
    /\ (main \in {"connecting", "wiring"} /\ now < since + PingTimeout) =>
          /\ clientToken = authToken
          /\ renewal.pc \in {"none", "asleep"}
          /\ renewal.pc = "asleep" => renewal.since = since
    /\ main \notin {"login", "connecting", "wiring"} \cup Ends =>
          /\ installed
          /\ renewal.pc = "stored" => renewal.callback
          /\ clientToken = authToken \/ renewal.pc = "stored" \/ renewal.again

\* While Mount waits a failure is at most as old as the present instant, since
\* it ends the wait; after it the time of the wait is over, or the mount is.
MountInv ==
    /\ main \in BeforeMount => ~announced /\ host.state = "none"
    /\ At("mounting") => /\ ~announced
                         /\ host.state # "none"
                         /\ host.state = "failed" => host.failedAt = now
    /\ announced => \/ host.state = "returned"
                    \/ host.state \in {"mounting", "serving"} /\ now >= since + MountWait
                    \/ host.state = "failed" /\ host.failedAt >= since + MountWait

\* What has been extracted and opened, by the stage of main, and what the mount needs of it.
FilesInv ==
    /\ main \in {"removing", "stopping", "exited"} => ~auditOpen
    /\ main \in {"stopping", "exited"} => tempDir # "there"
    /\ main \in {"validating", "building"} => (embedded => tempDir = "there")
    /\ host.state \in {"mounting", "serving"} =>
          /\ main \notin {"closing", "removing", "stopping", "exited"}
          /\ embedded => tempDir = "there"

\* The conjuncts of TypeOK without the two records, and without the flags.
FlagsOK ==
    /\ installed \in BOOLEAN /\ embedded \in BOOLEAN /\ tempDir \in Directories
    /\ auditOpen \in BOOLEAN /\ announced \in BOOLEAN /\ signalled \in BOOLEAN

ScalarsOK ==
    /\ now \in 0 .. MaxTime /\ main \in Stages /\ since \in Nat
    /\ authToken \in 0 .. MaxToken /\ clientToken \in 0 .. MaxToken
    /\ signalled => main \in Caught \cup Ends

-----------------------------------------------------------------------------
(* Preservation: one step per group of actions *)

LEMMA TypeParts ==
    /\ TypeOK <=> FlagsOK /\ ScalarsOK /\ renewal \in Renewals /\ host \in Hosts
    /\ TypeOK' <=> FlagsOK' /\ ScalarsOK' /\ renewal' \in Renewals /\ host' \in Hosts
  BY DEF TypeOK, FlagsOK, ScalarsOK, Renewals, Hosts

\* The types of what is no record.
LEMMA ScalarStep ==
  ASSUME TypeOK, [Next]_vars
  PROVE  ScalarsOK'
<1> USE TimesAssumption DEF TypeOK, ScalarsOK
<1>1. CASE UNCHANGED vars
  BY <1>1 DEF vars, clock, tokens, files, mount, At, Goto, Fatal, Running, Ends, Stages,
       Caught
<1>2. CASE LoginFails
  BY <1>2 DEF LoginFails, clock, tokens, files, mount, At, Goto, Fatal, Running, Ends,
       Stages, Caught
<1>3. CASE Login
  BY <1>3 DEF Login, clock, tokens, files, mount, At, Goto, Fatal, Running, Ends, Stages,
       Caught
<1>4. CASE Connected \/ ConnectFails \/ Wire
  BY <1>4 DEF Connected, ConnectFails, Wire, clock, tokens, files, mount, At, Goto, Fatal,
       Running, Ends, Stages, Caught
<1>5. CASE WakeUp \/ StoreRenewed \/ CallBack \/ RenewFails
  BY <1>5 DEF WakeUp, StoreRenewed, CallBack, RenewFails, clock, tokens, files, mount, At,
       Goto, Fatal, Running, Ends, Stages, Caught
<1>6. CASE LogInAgain
  BY <1>6 DEF LogInAgain, Renewals, clock, tokens, files, mount, At, Goto, Fatal, Running,
       Ends, Stages, Caught
<1>7. CASE ParseAccessLists \/ MakeTempDir \/ WritePolicies \/ NothingToExtract \/
         ValidatePolicies \/ BuildFilesystem
  BY <1>7 DEF ParseAccessLists, MakeTempDir, WritePolicies, NothingToExtract,
       ValidatePolicies, BuildFilesystem, clock, tokens, files, mount, At, Goto, Fatal,
       Running, Ends, Stages, Caught
<1>8. CASE HostServes \/ HostFails \/ HostReturns
  BY <1>8 DEF HostServes, HostFails, HostReturns, clock, tokens, files, mount, At, Goto,
       Fatal, Running, Ends, Stages, Caught
<1>9. CASE MountEnds \/ MountTimer \/ Notify \/ Signal \/ TakeSignal
  BY <1>9 DEF MountEnds, MountTimer, Notify, Signal, TakeSignal, clock, tokens, files,
       mount, At, Goto, Fatal, Running, Ends, Stages, Caught
<1>10. CASE Unmount \/ UnmountFails \/ CloseFilesystem \/ RemoveTempDir \/ StopRenewal \/
         Tick
  BY <1>10 DEF Unmount, UnmountFails, CloseFilesystem, RemoveTempDir, StopRenewal, Tick,
       clock, tokens, files, mount, At, Goto, Fatal, Running, Ends, Stages, Caught
<1>11. QED
  BY <1>1, <1>2, <1>3, <1>4, <1>5, <1>6, <1>7, <1>8, <1>9, <1>10 DEF Next, Main, Renewal,
       Host

\* The flags are flags.
LEMMA FlagsStep ==
  ASSUME TypeOK, [Next]_vars
  PROVE  FlagsOK'
<1> USE TimesAssumption DEF TypeOK, FlagsOK
<1>1. CASE UNCHANGED vars
  BY <1>1 DEF vars, clock, tokens, files, mount, At, Goto, Fatal, Running, Ends
<1>2. CASE Login \/ LoginFails
  BY <1>2 DEF Login, LoginFails, clock, tokens, files, mount, At, Goto, Fatal, Running, Ends
<1>3. CASE Connected \/ ConnectFails \/ Wire
  BY <1>3 DEF Connected, ConnectFails, Wire, clock, tokens, files, mount, At, Goto, Fatal,
       Running, Ends
<1>4. CASE WakeUp \/ StoreRenewed \/ CallBack \/ RenewFails \/ LogInAgain
  BY <1>4 DEF WakeUp, StoreRenewed, CallBack, RenewFails, LogInAgain, clock, tokens,
       files, mount, At, Goto, Fatal, Running, Ends
<1>5. CASE ParseAccessLists \/ MakeTempDir \/ WritePolicies \/ NothingToExtract \/
         ValidatePolicies \/ BuildFilesystem
  BY <1>5 DEF Removed, Directories, ParseAccessLists, MakeTempDir, WritePolicies,
              NothingToExtract,
       ValidatePolicies, BuildFilesystem, clock, tokens, files, mount, At, Goto, Fatal,
       Running, Ends
<1>6. CASE HostServes \/ HostFails \/ HostReturns
  BY <1>6 DEF HostServes, HostFails, HostReturns, clock, tokens, files, mount, At, Goto,
       Fatal, Running, Ends
<1>7. CASE MountEnds \/ MountTimer \/ Notify \/ Signal \/ TakeSignal
  BY <1>7 DEF MountEnds, MountTimer, Notify, Signal, TakeSignal, clock, tokens, files,
       mount, At, Goto, Fatal, Running, Ends
<1>8. CASE Unmount \/ UnmountFails \/ CloseFilesystem \/ RemoveTempDir \/ StopRenewal \/
         Tick
  BY <1>8 DEF Removed, Directories, Unmount, UnmountFails, CloseFilesystem, RemoveTempDir,
              StopRenewal, Tick,
       clock, tokens, files, mount, At, Goto, Fatal, Running, Ends
<1>9. QED
  BY <1>1, <1>2, <1>3, <1>4, <1>5, <1>6, <1>7, <1>8 DEF Next, Main, Renewal, Host

\* The record of the loop keeps its type.
LEMMA RenewalStep ==
  ASSUME TypeOK, [Next]_vars
  PROVE  (renewal \in Renewals)'
<1> USE TimesAssumption DEF TypeOK, Renewals
<1>1. CASE UNCHANGED vars
  BY <1>1 DEF vars, clock, tokens, files, mount, At, Goto, Fatal, Running, Ends
<1>2. CASE LoginFails
  BY <1>2 DEF LoginFails, clock, tokens, files, mount, At, Goto, Fatal, Running, Ends
<1>3. CASE Login
  <2>1. PICK token \in 1 .. MaxToken :
            \E pc \in {"none", "asleep"}, c \in {0, token} :
               renewal' = [renewal EXCEPT !.pc = pc, !.since = now, !.configured = c]
    BY <1>3 DEF Login
  <2>2. \A pc \in {"none", "asleep"}, c \in {0, token} :
           [renewal EXCEPT !.pc = pc, !.since = now, !.configured = c] \in Renewals
    <3> TAKE pc \in {"none", "asleep"}, c \in {0, token}
    <3>1. c \in 0 .. MaxToken /\ now \in Nat
      BY DEF TypeOK
    <3>2. QED
      BY <3>1 DEF TypeOK
  <2>3. QED
    BY <2>1, <2>2
<1>4. CASE Connected \/ ConnectFails \/ Wire
  BY <1>4 DEF Connected, ConnectFails, Wire, clock, tokens, files, mount, At, Goto, Fatal,
       Running, Ends
<1>5. CASE WakeUp \/ RenewFails
  BY <1>5 DEF WakeUp, RenewFails, clock, tokens, files, mount, At, Goto, Fatal, Running,
       Ends
<1>6. CASE StoreRenewed
  BY <1>6 DEF StoreRenewed, clock, tokens, files, mount, At, Goto, Fatal, Running, Ends
<1>7. CASE CallBack
  <2>1. renewal' = [renewal EXCEPT !.pc = "asleep", !.since = now, !.callback = FALSE]
    BY <1>7 DEF CallBack
  <2>2. now \in Nat /\ renewal \in Renewals
    BY DEF TypeOK
  <2>3. QED
    BY <2>1, <2>2
<1>8. CASE LogInAgain
  <2>1. PICK pc \in {"asleep", "over"} :
            renewal' = [renewal EXCEPT !.pc = pc, !.since = now, !.again = TRUE]
    BY <1>8 DEF LogInAgain
  <2>2. now \in Nat
    BY DEF TypeOK
  <2>3. QED
    BY <2>1, <2>2
<1>9. CASE ParseAccessLists \/ MakeTempDir \/ WritePolicies \/ NothingToExtract \/
         ValidatePolicies \/ BuildFilesystem
  BY <1>9 DEF ParseAccessLists, MakeTempDir, WritePolicies, NothingToExtract,
       ValidatePolicies, BuildFilesystem, clock, tokens, files, mount, At, Goto, Fatal,
       Running, Ends
<1>10. CASE HostServes \/ HostFails \/ HostReturns
  BY <1>10 DEF HostServes, HostFails, HostReturns, clock, tokens, files, mount, At, Goto,
       Fatal, Running, Ends
<1>11. CASE MountEnds \/ MountTimer \/ Notify \/ Signal \/ TakeSignal
  BY <1>11 DEF MountEnds, MountTimer, Notify, Signal, TakeSignal, clock, tokens, files,
       mount, At, Goto, Fatal, Running, Ends
<1>12. CASE Unmount \/ UnmountFails \/ CloseFilesystem \/ RemoveTempDir \/ StopRenewal \/
         Tick
  BY <1>12 DEF Unmount, UnmountFails, CloseFilesystem, RemoveTempDir, StopRenewal, Tick,
       clock, tokens, files, mount, At, Goto, Fatal, Running, Ends
<1>13. QED
  BY <1>1, <1>2, <1>3, <1>4, <1>5, <1>6, <1>7, <1>8, <1>9, <1>10, <1>11, <1>12 DEF Next,
       Main, Renewal, Host

\* So does the record of the mount.
LEMMA HostStep ==
  ASSUME TypeOK, [Next]_vars
  PROVE  (host \in Hosts)'
<1> USE TimesAssumption DEF TypeOK, Hosts
<1>1. CASE UNCHANGED vars
  BY <1>1 DEF vars, clock, tokens, files, mount, At, Goto, Fatal, Running, Ends
<1>2. CASE Login \/ LoginFails
  BY <1>2 DEF Login, LoginFails, clock, tokens, files, mount, At, Goto, Fatal, Running, Ends
<1>3. CASE Connected \/ ConnectFails \/ Wire
  BY <1>3 DEF Connected, ConnectFails, Wire, clock, tokens, files, mount, At, Goto, Fatal,
       Running, Ends
<1>4. CASE WakeUp \/ StoreRenewed \/ CallBack \/ RenewFails \/ LogInAgain
  BY <1>4 DEF WakeUp, StoreRenewed, CallBack, RenewFails, LogInAgain, clock, tokens,
       files, mount, At, Goto, Fatal, Running, Ends
<1>5. CASE ParseAccessLists \/ MakeTempDir \/ WritePolicies \/ NothingToExtract \/
         ValidatePolicies \/ BuildFilesystem
  BY <1>5 DEF ParseAccessLists, MakeTempDir, WritePolicies, NothingToExtract,
       ValidatePolicies, BuildFilesystem, clock, tokens, files, mount, At, Goto, Fatal,
       Running, Ends
<1>6. CASE HostServes \/ HostFails \/ HostReturns
  BY <1>6 DEF HostServes, HostFails, HostReturns, clock, tokens, files, mount, At, Goto,
       Fatal, Running, Ends
<1>7. CASE MountEnds \/ MountTimer \/ Notify \/ Signal \/ TakeSignal
  BY <1>7 DEF MountEnds, MountTimer, Notify, Signal, TakeSignal, clock, tokens, files,
       mount, At, Goto, Fatal, Running, Ends
<1>8. CASE Unmount \/ UnmountFails \/ CloseFilesystem \/ RemoveTempDir \/ StopRenewal \/
         Tick
  BY <1>8 DEF Unmount, UnmountFails, CloseFilesystem, RemoveTempDir, StopRenewal, Tick,
       clock, tokens, files, mount, At, Goto, Fatal, Running, Ends
<1>9. QED
  BY <1>1, <1>2, <1>3, <1>4, <1>5, <1>6, <1>7, <1>8 DEF Next, Main, Renewal, Host

\* No renewal falls between the start of the loop and its callback.
LEMMA WireStep ==
  ASSUME TypeOK, WireInv, [Next]_vars
  PROVE  WireInv'
<1> USE TimesAssumption DEF WireInv
<1>1. CASE UNCHANGED vars
  BY <1>1 DEF vars, clock, tokens, files, mount, At, Goto, Fatal, Running, Ends, TypeOK,
       Stages, Caught, Renewals
<1>2. CASE Login \/ LoginFails
  BY <1>2 DEF Login, LoginFails, clock, tokens, files, mount, At, Goto, Fatal, Running,
       Ends, TypeOK, Stages, Caught, Renewals
<1>3. CASE Connected \/ ConnectFails \/ Wire
  BY <1>3 DEF Connected, ConnectFails, Wire, clock, tokens, files, mount, At, Goto, Fatal,
       Running, Ends, TypeOK, Stages, Caught, Renewals
<1>4. CASE RenewFails
  BY <1>4 DEF RenewFails, clock, tokens, files, mount, At, Goto, Fatal, Running, Ends,
       TypeOK, Stages, Caught, Renewals
<1>5. CASE WakeUp
  BY <1>5 DEF WakeUp, clock, tokens, files, mount, At, Goto, Fatal, Running, Ends, TypeOK,
       Stages, Caught, Renewals
<1>6. CASE StoreRenewed
  BY <1>6 DEF StoreRenewed, clock, tokens, files, mount, At, Goto, Fatal, Running, Ends,
       TypeOK, Stages, Caught, Renewals
<1>7. CASE CallBack
  BY <1>7 DEF CallBack, clock, tokens, files, mount, At, Goto, Fatal, Running, Ends,
       TypeOK, Stages, Caught, Renewals
<1>8. CASE LogInAgain
  BY <1>8 DEF LogInAgain, clock, tokens, files, mount, At, Goto, Fatal, Running, Ends,
       TypeOK, Stages, Caught, Renewals
<1>9. CASE ParseAccessLists \/ MakeTempDir \/ WritePolicies \/ NothingToExtract \/
         ValidatePolicies \/ BuildFilesystem
  BY <1>9 DEF ParseAccessLists, MakeTempDir, WritePolicies, NothingToExtract,
       ValidatePolicies, BuildFilesystem, clock, tokens, files, mount, At, Goto, Fatal,
       Running, Ends, TypeOK, Stages, Caught, Renewals
<1>10. CASE HostServes \/ HostFails \/ HostReturns
  BY <1>10 DEF HostServes, HostFails, HostReturns, clock, tokens, files, mount, At, Goto,
       Fatal, Running, Ends, TypeOK, Stages, Caught, Renewals
<1>11. CASE MountEnds \/ MountTimer \/ Notify \/ Signal \/ TakeSignal
  BY <1>11 DEF MountEnds, MountTimer, Notify, Signal, TakeSignal, clock, tokens, files,
       mount, At, Goto, Fatal, Running, Ends, TypeOK, Stages, Caught, Renewals
<1>12. CASE Unmount \/ UnmountFails \/ CloseFilesystem \/ RemoveTempDir \/ StopRenewal
  BY <1>12 DEF Unmount, UnmountFails, CloseFilesystem, RemoveTempDir, StopRenewal, clock,
       tokens, files, mount, At, Goto, Fatal, Running, Ends, TypeOK, Stages, Caught,
       Renewals
<1>13. CASE Tick
  BY <1>13 DEF Tick, clock, tokens, files, mount, At, Goto, Fatal, Running, Ends, TypeOK,
       Stages, Caught, Renewals
<1>14. QED
  BY <1>1, <1>2, <1>3, <1>4, <1>5, <1>6, <1>7, <1>8, <1>9, <1>10, <1>11, <1>12, <1>13 DEF
       Next, Main, Renewal, Host

\* No failure is overlooked while Mount waits.
LEMMA MountStep ==
  ASSUME TypeOK, MountInv, [Next]_vars
  PROVE  MountInv'
<1> USE TimesAssumption DEF MountInv, BeforeMount
<1>1. CASE UNCHANGED vars
  BY <1>1 DEF vars, clock, tokens, files, mount, At, Goto, Fatal, Running, Ends, TypeOK,
       Stages, Caught, Hosts
<1>2. CASE LoginFails
  BY <1>2 DEF LoginFails, clock, tokens, files, mount, At, Goto, Fatal, Running, Ends,
       TypeOK, Stages, Caught, Hosts
<1>3. CASE Login
  BY <1>3 DEF Login, clock, tokens, files, mount, At, Goto, Fatal, Running, Ends, TypeOK,
       Stages, Caught, Hosts
<1>4. CASE Connected \/ ConnectFails \/ Wire
  BY <1>4 DEF Connected, ConnectFails, Wire, clock, tokens, files, mount, At, Goto, Fatal,
       Running, Ends, TypeOK, Stages, Caught, Hosts
<1>5. CASE WakeUp \/ StoreRenewed \/ CallBack \/ RenewFails \/ LogInAgain
  BY <1>5 DEF WakeUp, StoreRenewed, CallBack, RenewFails, LogInAgain, clock, tokens,
       files, mount, At, Goto, Fatal, Running, Ends, TypeOK, Stages, Caught, Hosts
<1>6. CASE ParseAccessLists \/ MakeTempDir \/ WritePolicies \/ NothingToExtract \/
         ValidatePolicies
  BY <1>6 DEF ParseAccessLists, MakeTempDir, WritePolicies, NothingToExtract,
       ValidatePolicies, clock, tokens, files, mount, At, Goto, Fatal, Running, Ends,
       TypeOK, Stages, Caught, Hosts
<1>7. CASE BuildFilesystem
  BY <1>7 DEF BuildFilesystem, clock, tokens, files, mount, At, Goto, Fatal, Running,
       Ends, TypeOK, Stages, Caught, Hosts
<1>8. CASE HostServes \/ HostFails \/ HostReturns
  BY <1>8 DEF HostServes, HostFails, HostReturns, clock, tokens, files, mount, At, Goto,
       Fatal, Running, Ends, TypeOK, Stages, Caught, Hosts
<1>9. CASE Notify \/ TakeSignal
  BY <1>9 DEF Notify, TakeSignal, clock, tokens, files, mount, At, Goto, Fatal, Running,
       Ends, TypeOK, Stages, Caught, Hosts
<1>10. CASE MountEnds
  BY <1>10 DEF MountEnds, clock, tokens, files, mount, At, Goto, Fatal, Running, Ends,
       TypeOK, Stages, Caught, Hosts
<1>11. CASE MountTimer
  <2>1. /\ At("mounting") /\ now >= since + MountWait
        /\ main' = "notify" /\ UNCHANGED <<now, since, host>>
    BY <1>11 DEF MountTimer, Goto, clock
  <2>2. host.state # "none" /\ (host.state = "failed" => host.failedAt = now)
    BY <2>1 DEF At
  <2>3. host.state \in {"mounting", "serving", "returned", "failed"}
    BY <2>2 DEF TypeOK, Hosts
  <2>4. QED
    BY <2>1, <2>2, <2>3 DEF At
<1>12. CASE Signal
  BY <1>12 DEF Signal, clock, tokens, files, mount, At, Goto, Fatal, Running, Ends,
       TypeOK, Stages, Caught, Hosts
<1>13. CASE Unmount \/ UnmountFails \/ CloseFilesystem \/ RemoveTempDir \/ StopRenewal
  BY <1>13 DEF Unmount, UnmountFails, CloseFilesystem, RemoveTempDir, StopRenewal, clock,
       tokens, files, mount, At, Goto, Fatal, Running, Ends, TypeOK, Stages, Caught, Hosts
<1>14. CASE Tick
  BY <1>14 DEF Tick, clock, tokens, files, mount, At, Goto, Fatal, Running, Ends, TypeOK,
       Stages, Caught, Hosts
<1>15. QED
  BY <1>1, <1>2, <1>3, <1>4, <1>5, <1>6, <1>7, <1>8, <1>9, <1>10, <1>11, <1>12, <1>13,
       <1>14 DEF Next, Main, Renewal, Host

\* The policies stay for as long as the mount.
LEMMA FilesStep ==
  ASSUME TypeOK, MountInv, FilesInv, [Next]_vars
  PROVE  FilesInv'
<1> USE TimesAssumption DEF FilesInv
<1>1. CASE UNCHANGED vars
  BY <1>1 DEF vars, clock, tokens, files, mount, At, Goto, Fatal, Running, Ends, TypeOK,
       Caught, Hosts, MountInv, BeforeMount
<1>2. CASE Login \/ LoginFails
  BY <1>2 DEF Login, LoginFails, clock, tokens, files, mount, At, Goto, Fatal, Running,
       Ends, TypeOK, Caught, Hosts, MountInv, BeforeMount
<1>3. CASE Connected \/ ConnectFails \/ Wire
  BY <1>3 DEF Connected, ConnectFails, Wire, clock, tokens, files, mount, At, Goto, Fatal,
       Running, Ends, TypeOK, Caught, Hosts, MountInv, BeforeMount
<1>4. CASE WakeUp \/ StoreRenewed \/ CallBack \/ RenewFails \/ LogInAgain
  BY <1>4 DEF WakeUp, StoreRenewed, CallBack, RenewFails, LogInAgain, clock, tokens,
       files, mount, At, Goto, Fatal, Running, Ends, TypeOK, Caught, Hosts, MountInv,
       BeforeMount
<1>5. CASE ParseAccessLists \/ MakeTempDir \/ WritePolicies \/ NothingToExtract \/
         ValidatePolicies \/ BuildFilesystem
  BY <1>5 DEF ParseAccessLists, MakeTempDir, WritePolicies, NothingToExtract,
       ValidatePolicies, BuildFilesystem, clock, tokens, files, mount, At, Goto, Fatal,
       Running, Ends, TypeOK, Caught, Hosts, MountInv, BeforeMount
<1>6. CASE HostServes \/ HostFails \/ HostReturns
  BY <1>6 DEF HostServes, HostFails, HostReturns, clock, tokens, files, mount, At, Goto,
       Fatal, Running, Ends, TypeOK, Caught, Hosts, MountInv, BeforeMount
<1>7. CASE MountEnds \/ MountTimer \/ Notify \/ Signal \/ TakeSignal
  BY <1>7 DEF MountEnds, MountTimer, Notify, Signal, TakeSignal, clock, tokens, files,
       mount, At, Goto, Fatal, Running, Ends, TypeOK, Caught, Hosts, MountInv, BeforeMount
<1>8. CASE Unmount \/ UnmountFails \/ CloseFilesystem \/ RemoveTempDir \/ StopRenewal \/
         Tick
  BY <1>8 DEF Removed, Directories, Unmount, UnmountFails, CloseFilesystem, RemoveTempDir,
              StopRenewal, Tick,
       clock, tokens, files, mount, At, Goto, Fatal, Running, Ends, TypeOK, Caught, Hosts,
       MountInv, BeforeMount
<1>9. QED
  BY <1>1, <1>2, <1>3, <1>4, <1>5, <1>6, <1>7, <1>8 DEF Next, Main, Renewal, Host

-----------------------------------------------------------------------------
(* Theorems *)

IInv == TypeOK /\ WireInv /\ MountInv /\ FilesInv

LEMMA Invariance == Spec => []IInv
<1>1. Init => IInv
  <2> SUFFICES ASSUME Init  PROVE IInv
    OBVIOUS
  <2>1. ScalarsOK
    BY TimesAssumption DEF Init, ScalarsOK, Stages
  <2>2. FlagsOK
    BY DEF Init, FlagsOK, Directories
  <2>3. renewal \in Renewals /\ host \in Hosts
    BY TimesAssumption DEF Init, Renewals, Hosts
  <2>4. WireInv /\ MountInv /\ FilesInv
    BY DEF Init, WireInv, MountInv, FilesInv, At
  <2>5. QED
    BY <2>1, <2>2, <2>3, <2>4, TypeParts DEF IInv
<1>2. ASSUME IInv, [Next]_vars  PROVE IInv'
  <2>1. TypeOK'
    BY <1>2, ScalarStep, FlagsStep, RenewalStep, HostStep, TypeParts DEF IInv
  <2>2. WireInv' /\ MountInv' /\ FilesInv'
    BY <1>2, WireStep, MountStep, FilesStep DEF IInv
  <2>3. QED
    BY <2>1, <2>2 DEF IInv
<1>3. QED
  BY <1>1, <1>2, PTL DEF Spec

\* The variables keep their types, and sigChan holds a signal only after Notify.
THEOREM TypeCorrect == Spec => []TypeOK
<1>1. IInv => TypeOK
  BY DEF IInv
<1>2. QED
  BY <1>1, Invariance, PTL

\* Whatever the times are, as long as the Ping is given no longer than the shortest
\* sleep of the loop: the client does not miss a renewed token.
THEOREM TokenIsWired == Spec => []TokenWired
<1>1. IInv => TokenWired
  <2> SUFFICES ASSUME IInv, main \notin {"login", "connecting"} \cup Ends
               PROVE  \/ clientToken = authToken
                      \/ renewal.pc = "stored" /\ renewal.callback
                      \/ renewal.again
    BY DEF TokenWired
  <2>1. CASE At("wiring")
    BY <2>1 DEF IInv, WireInv, At
  <2>2. CASE ~At("wiring")
    BY <2>2 DEF IInv, WireInv, At
  <2>3. QED
    BY <2>1, <2>2
<1>2. QED
  BY <1>1, Invariance, PTL

\* A mount that fails within the wait is never announced, however long the wait is.
THEOREM FailureIsNoticed == Spec => []FailedMountNotAnnounced
<1>1. IInv => FailedMountNotAnnounced
  BY DEF IInv, MountInv, FailedMountNotAnnounced
<1>2. QED
  BY <1>1, Invariance, PTL

\* A return from main leaves nothing behind, and the policies outlive the mount.
THEOREM ExitIsOrderly == Spec => []OrderlyExit
<1>1. IInv => OrderlyExit
  BY DEF IInv, FilesInv, OrderlyExit, At
<1>2. QED
  BY <1>1, Invariance, PTL

=============================================================================
