------------------------------ MODULE Startup ------------------------------
(***************************************************************************)
(* cmd/cli/main.go and the helpers it calls: log in, connect, wire the     *)
(* renewal to the client, extract and validate the policies, mount, wait   *)
(* for a signal, unmount, and the deferred clean-ups.  Beside main run the *)
(* renewal goroutine (the module TokenRenewal has its details; here it     *)
(* sleeps, renews and calls back) and the goroutine of host.Mount.         *)
(*                                                                         *)
(* The steps of the program take no time; requests to Vault, the wait for  *)
(* the mount and the sleep before a renewal do.                            *)
(***************************************************************************)
EXTENDS Naturals

CONSTANTS
    PingTimeout,  \* Timeout of the HTTP client of the adapter
    SleepFloor,   \* shortest sleep of renewLoop
    MountWait,    \* how long Mount waits for an error
    MaxToken,     \* tokens are 1 .. MaxToken
    MaxTime       \* bound: the clock

ASSUME TimesAssumption ==
    /\ {PingTimeout, SleepFloor, MountWait, MaxTime} \subseteq Nat
    /\ MaxToken \in Nat \ {0}
    \* 10 s (hashicorp.go:91) and 10 s (authenticator.go:617)
    /\ PingTimeout <= SleepFloor

VARIABLES
    now,          \* the clock
    main,         \* where main is
    since,        \* when its present wait began
    authToken,    \* a.result.Token, the token of the Authenticator; 0 before there is one
    clientToken,  \* c.token, the token of the Vault client
    installed,    \* a.onTokenRenewed is set
    renewal,      \* the renewal goroutine
    embedded,     \* the binary has embedded policies, and no path was given
    tempDir,      \* the directory of extracted policies; "left": RemoveAll has failed
    auditOpen,    \* fs.auditFile
    host,         \* the goroutine of host.Mount
    announced,    \* "Virtual drive mounted successfully" has been logged
    signalled     \* there is a signal in sigChan

vars == <<now, main, since, authToken, clientToken, installed, renewal, embedded,
          tempDir, auditOpen, host, announced, signalled>>

clock == <<now, since>>
tokens == <<authToken, clientToken, installed, renewal>>
files == <<embedded, tempDir, auditOpen>>
mount == <<host, announced, signalled>>

-----------------------------------------------------------------------------
(* Types *)

\* From "notify" on the program is said to be mounted; from "waiting" on signals
\* are caught; "fatal" and "killed" end it without the deferred calls.
Stages == {"login", "connecting", "wiring", "lists", "extracting", "writing", "validating",
           "building", "mounting", "notify", "waiting", "unmounting", "closing",
           "removing", "stopping", "exited", "fatal", "killed"}

\* After Notify.
Caught == {"waiting", "unmounting", "closing", "removing", "stopping"}

Ends == {"exited", "fatal", "killed"}

\* callback: the one RenewToken has read, not called yet.  configured: the token to log in
\* again with, 0 if the login was interactive.  again: its last success was a login.
Renewals == [pc : {"none", "asleep", "renewing", "stored", "over"}, since : Nat,
             callback : BOOLEAN, configured : 0 .. MaxToken, again : BOOLEAN]

\* failedAt: when host.Mount returned false.
Hosts == [state : {"none", "mounting", "serving", "failed", "returned"}, failedAt : Nat]

Directories == {"none", "there", "left"}

TypeOK ==
    /\ now \in 0 .. MaxTime
    /\ main \in Stages
    /\ since \in Nat
    /\ authToken \in 0 .. MaxToken
    /\ clientToken \in 0 .. MaxToken
    /\ installed \in BOOLEAN /\ embedded \in BOOLEAN /\ tempDir \in Directories
    /\ auditOpen \in BOOLEAN /\ announced \in BOOLEAN /\ signalled \in BOOLEAN
    /\ renewal \in Renewals
    /\ host \in Hosts
    /\ signalled => main \in Caught \cup Ends

Init ==
    /\ now = 0 /\ since = 0
    /\ main = "login"
    /\ authToken = 0 /\ clientToken = 0 /\ installed = FALSE
    /\ renewal = [pc |-> "none", since |-> 0, callback |-> FALSE, configured |-> 0,
                  again |-> FALSE]
    /\ embedded \in BOOLEAN
    /\ tempDir = "none" /\ auditOpen = FALSE
    /\ host = [state |-> "none", failedAt |-> 0]
    /\ announced = FALSE /\ signalled = FALSE

-----------------------------------------------------------------------------
Running == main \notin Ends

At(stage) == main = stage

Goto(stage) == main' = stage

\* log.Fatal, os.Exit: main ends here.
Fatal == main' = "fatal"

-----------------------------------------------------------------------------
(* The login and the Vault client *)

\* authenticate: the renewal is started if the token can be renewed; then
\* adapter.New with that token, and Ping goes out.
Login ==
    /\ At("login")
    /\ \E token \in 1 .. MaxToken :
          /\ authToken' = token /\ clientToken' = token
          /\ \E pc \in {"none", "asleep"}, configured \in {0, token} :
                renewal' = [renewal EXCEPT !.pc = pc, !.since = now, !.configured = configured]
    /\ since' = now
    /\ Goto("connecting")
    /\ UNCHANGED <<now, installed, files, mount>>

\* No credentials, no provider of that name, or the login fails.
LoginFails ==
    /\ At("login")
    /\ Fatal
    /\ UNCHANGED <<clock, tokens, files, mount>>

\* Any status of /sys/health will do.
Connected ==
    /\ At("connecting")
    /\ now < since + PingTimeout
    /\ Goto("wiring")
    /\ UNCHANGED <<clock, tokens, files, mount>>

\* No connection, or the timeout.
ConnectFails ==
    /\ At("connecting")
    /\ Fatal
    /\ UNCHANGED <<clock, tokens, files, mount>>

\* SetOnTokenRenewed(vaultClient.SetToken)
Wire ==
    /\ At("wiring")
    /\ installed' = TRUE
    /\ Goto("lists")
    /\ UNCHANGED <<clock, authToken, clientToken, renewal, files, mount>>

-----------------------------------------------------------------------------
(* The renewal goroutine *)

\* Mutant: half the lease, however short it is.
WakeUpAtHalf ==
    /\ Running
    /\ renewal.pc = "asleep"
    /\ renewal' = [renewal EXCEPT !.pc = "renewing"]
    /\ UNCHANGED <<clock, main, authToken, clientToken, installed, files, mount>>

\* Half the lease has been slept, at least the floor.
WakeUp ==
    /\ Running
    /\ renewal.pc = "asleep"
    /\ now >= renewal.since + SleepFloor
    /\ renewal' = [renewal EXCEPT !.pc = "renewing"]
    /\ UNCHANGED <<clock, main, authToken, clientToken, installed, files, mount>>

\* RenewToken stores the token of the answer and reads the callback under a.mu ...
StoreRenewed ==
    /\ Running
    /\ renewal.pc = "renewing"
    /\ authToken' \in 1 .. MaxToken
    /\ renewal' = [renewal EXCEPT !.pc = "stored", !.callback = installed, !.again = FALSE]
    /\ UNCHANGED <<clock, main, clientToken, installed, files, mount>>

\* ... and calls it afterwards, SetToken of the client.
CallBack ==
    /\ Running
    /\ renewal.pc = "stored"
    /\ clientToken' = IF renewal.callback THEN authToken ELSE clientToken
    /\ renewal' = [renewal EXCEPT !.pc = "asleep", !.since = now, !.callback = FALSE]
    /\ UNCHANGED <<clock, main, authToken, installed, files, mount>>

\* The loop ends if the login was interactive.
RenewFails ==
    /\ Running
    /\ renewal.pc = "renewing"
    /\ renewal.configured = 0
    /\ renewal' = [renewal EXCEPT !.pc = "over"]
    /\ UNCHANGED <<clock, main, authToken, clientToken, installed, files, mount>>

\* Otherwise it logs in again with the configured token, without the callback, and ends if
\* that token is no longer known to be renewable.
LogInAgain ==
    /\ Running
    /\ renewal.pc = "renewing"
    /\ renewal.configured # 0
    /\ authToken' = renewal.configured
    /\ \E pc \in {"asleep", "over"} :
          renewal' = [renewal EXCEPT !.pc = pc, !.since = now, !.again = TRUE]
    /\ UNCHANGED <<clock, main, clientToken, installed, files, mount>>

-----------------------------------------------------------------------------
(* Access lists and policies *)

ParseAccessLists ==
    /\ At("lists")
    /\ Goto("extracting") \/ Fatal
    /\ UNCHANGED <<clock, tokens, files, mount>>

\* extractEmbeddedPolicies: MkdirTemp ...
MakeTempDir ==
    /\ At("extracting") /\ embedded
    /\ \/ tempDir' = "there" /\ Goto("writing")
       \/ tempDir' = "none" /\ Fatal
    /\ UNCHANGED <<clock, tokens, embedded, auditOpen, mount>>

\* os.RemoveAll, whose error nobody looks at.
Removed == IF tempDir = "none" THEN {"none"} ELSE {"none", "left"}

\* ... and the files in it; if one fails the directory goes again.
WritePolicies ==
    /\ At("writing")
    /\ \/ tempDir' = "there" /\ Goto("validating")
       \/ tempDir' \in Removed /\ Fatal
    /\ UNCHANGED <<clock, tokens, embedded, auditOpen, mount>>

NothingToExtract ==
    /\ At("extracting") /\ ~embedded
    /\ Goto("validating")
    /\ UNCHANGED <<clock, tokens, files, mount>>

\* validatePolicies: a bad policy ends the program, and what was extracted stays.
ValidatePolicies ==
    /\ At("validating")
    /\ Goto("building") \/ Fatal
    /\ UNCHANGED <<clock, tokens, files, mount>>

\* buildFilesystem: an audit log that cannot be opened is only a warning.
BuildFilesystem ==
    /\ At("building")
    /\ auditOpen' \in BOOLEAN
    /\ since' = now
    /\ host' = [host EXCEPT !.state = "mounting"]
    /\ Goto("mounting")
    /\ UNCHANGED <<now, tokens, embedded, tempDir, announced, signalled>>

-----------------------------------------------------------------------------
(* The mount *)

HostServes ==
    /\ Running /\ host.state = "mounting"
    /\ host' = [host EXCEPT !.state = "serving"]
    /\ UNCHANGED <<clock, main, tokens, files, announced, signalled>>

HostFails ==
    /\ Running /\ host.state \in {"mounting", "serving"}
    /\ host' = [state |-> "failed", failedAt |-> now]
    /\ UNCHANGED <<clock, main, tokens, files, announced, signalled>>

\* Someone else has unmounted it.
HostReturns ==
    /\ Running /\ host.state = "serving"
    /\ host' = [host EXCEPT !.state = "returned"]
    /\ UNCHANGED <<clock, main, tokens, files, announced, signalled>>

\* Mutant: Mount returns the host with whatever comes first.
MountEndsUnchecked ==
    /\ At("mounting") /\ host.state \in {"failed", "returned"}
    /\ announced' = TRUE
    /\ Goto("notify")
    /\ UNCHANGED <<clock, tokens, files, host, signalled>>

\* Mount: errCh has an error, or nil, which is taken for a success.
MountEnds ==
    /\ At("mounting")
    /\ \/ host.state = "failed" /\ Fatal /\ announced' = announced
       \/ host.state = "returned" /\ announced' = TRUE /\ Goto("notify")
    /\ UNCHANGED <<clock, tokens, files, host, signalled>>

\* Mount: the five seconds are over; Go takes either case if both are ready.
MountTimer ==
    /\ At("mounting")
    /\ now >= since + MountWait
    /\ announced' = TRUE
    /\ Goto("notify")
    /\ UNCHANGED <<clock, tokens, files, host, signalled>>

-----------------------------------------------------------------------------
(* Signals and the end *)

Notify ==
    /\ At("notify")
    /\ Goto("waiting")
    /\ UNCHANGED <<clock, tokens, files, mount>>

\* Mutant: sigChan holds the signal whenever it comes.
SignalAlwaysHeld ==
    /\ Running
    /\ signalled' = TRUE
    /\ UNCHANGED <<clock, main, tokens, files, host, announced>>

\* Ctrl-C or SIGTERM: sigChan holds one, more are dropped; before Notify the signal kills.
Signal ==
    /\ Running
    /\ IF main \in Caught THEN signalled' = TRUE /\ UNCHANGED main
                          ELSE main' = "killed" /\ UNCHANGED signalled
    /\ UNCHANGED <<clock, tokens, files, host, announced>>

TakeSignal ==
    /\ At("waiting") /\ signalled
    /\ signalled' = FALSE
    /\ Goto("unmounting")
    /\ UNCHANGED <<clock, tokens, files, host, announced>>

\* Mutant: the clean-up does not depend on the unmount.
UnmountUnchecked ==
    /\ At("unmounting")
    /\ Goto("closing")
    /\ UNCHANGED <<clock, tokens, files, mount>>

Unmount ==
    /\ At("unmounting") /\ host.state \in {"mounting", "serving"}
    /\ host' = [host EXCEPT !.state = "returned"]
    /\ Goto("closing")
    /\ UNCHANGED <<clock, tokens, files, announced, signalled>>

\* Mutant: wait for the next signal.
UnmountAgain ==
    /\ At("unmounting")
    /\ Goto("waiting")
    /\ UNCHANGED <<clock, tokens, files, mount>>

\* host.Unmount() is false, as it is when the host has ended before.
UnmountFails ==
    /\ At("unmounting")
    /\ Fatal
    /\ UNCHANGED <<clock, tokens, files, mount>>

\* fs.Close()
CloseFilesystem ==
    /\ At("closing")
    /\ auditOpen' = FALSE
    /\ Goto("removing")
    /\ UNCHANGED <<clock, tokens, embedded, tempDir, mount>>

\* The deferred calls: os.RemoveAll(tempDir), then StopRenewal.
RemoveTempDir ==
    /\ At("removing")
    /\ tempDir' \in Removed
    /\ Goto("stopping")
    /\ UNCHANGED <<clock, tokens, embedded, auditOpen, mount>>

StopRenewal ==
    /\ At("stopping")
    /\ renewal' = [renewal EXCEPT !.pc = "over"]
    /\ Goto("exited")
    /\ UNCHANGED <<clock, authToken, clientToken, installed, files, mount>>

-----------------------------------------------------------------------------
\* Time passes while every goroutine waits.
Tick ==
    /\ Running
    /\ now < MaxTime
    /\ main \in {"connecting", "mounting", "waiting", "validating"}
    /\ At("connecting") => now < since + PingTimeout
    /\ At("mounting") => /\ now < since + MountWait
                         /\ host.state \notin {"failed", "returned"}
    /\ At("waiting") => ~signalled
    /\ renewal.pc # "stored"
    /\ now' = now + 1
    /\ UNCHANGED <<main, since, tokens, files, mount>>

Main ==
    \/ Login \/ LoginFails \/ Connected \/ ConnectFails \/ Wire
    \/ ParseAccessLists \/ MakeTempDir \/ WritePolicies \/ NothingToExtract \/ ValidatePolicies
    \/ BuildFilesystem \/ MountEnds \/ MountTimer \/ Notify
    \/ TakeSignal \/ Unmount \/ UnmountFails \/ CloseFilesystem \/ RemoveTempDir \/ StopRenewal

Renewal == WakeUp \/ StoreRenewed \/ CallBack \/ RenewFails \/ LogInAgain

Host == HostServes \/ HostFails \/ HostReturns

Next == Main \/ Renewal \/ Host \/ Signal \/ Tick

\* The goroutine of main goes on when it can: requests have a timeout, and Unmount
\* returns.
Spec == Init /\ [][Next]_vars /\ WF_vars(Main)

-----------------------------------------------------------------------------
(* Properties *)

\* Once it is connected, the Vault client uses the token that the Authenticator holds,
\* except between the two halves of a renewal and after a renewal has failed and the
\* loop has logged in again (authenticator.go:636 calls nobody back).  The renewal is
\* started before its callback is installed (auth.go:107, main.go:122); what keeps a
\* renewal from falling in between is that the Ping in between is given no longer
\* (hashicorp.go:91) than the loop sleeps at least (authenticator.go:617).
TokenWired ==
    main \notin {"login", "connecting"} \cup Ends =>
        \/ clientToken = authToken
        \/ renewal.pc = "stored" /\ renewal.callback
        \/ renewal.again

\* A mount that fails before the wait for it is over is never announced, and the
\* program does not go on to wait for a signal (vaultfs.go:216-227, fs.go:31-40).
FailedMountNotAnnounced ==
    (announced /\ host.state = "failed") => host.failedAt >= since + MountWait

\* A program that returns from main has nothing left: no mount, no directory of policies, no
\* open audit log; and the directory is there for as long as the mount is (main.go:117, 137,
\* 156, 160).  Only a directory that os.RemoveAll could not remove is left.
OrderlyExit ==
    /\ At("exited") => ~auditOpen /\ tempDir # "there"
    /\ host.state = "serving" => ~At("exited") /\ (embedded => tempDir = "there")

\* One signal ends a program that is mounted, whether or not the unmount works
\* (main.go:153-157).
SignalEndsProgram == (signalled /\ At("waiting")) ~> ~Running

=============================================================================
