----------------------------- MODULE OIDCLogin -----------------------------
(***************************************************************************)
(* pkg/auth/authenticator.go: OIDC logins.  A flow asks Vault for an       *)
(* authorisation URL, starts an HTTP server for the callback of the        *)
(* browser, and waits for a result, an error or five minutes in a select.  *)
(* The handler of the server runs in a goroutine of its own per request.   *)
(*                                                                         *)
(* StartOIDCFlow may be called again while a flow waits; the flows share   *)
(* the callback port and a.result.  The user has a browser tab per flow    *)
(* and may answer them in any order, late, twice or not at all; a Callback *)
(* is one request of the browser.  A login is named after the flow whose   *)
(* authorisation URL it came from.                                         *)
(*                                                                         *)
(* The names of the specification begin with Login: TokenRenewal is the    *)
(* other half of the Authenticator, and a module can extend both.          *)
(***************************************************************************)
EXTENDS Naturals

CONSTANTS
    Flows,      \* calls of StartOIDCFlow or of Authenticate
    Callbacks,  \* requests to /oidc/callback
    NoFlow      \* not a flow

ASSUME FlowsAssumption ==
    /\ NoFlow \notin Flows
    /\ Flows \cap {"none", "error", "timeout"} = {}

VARIABLES
    state,      \* what Vault knows of the state of each flow's URL
    port,       \* the flow whose server listens on the callback port
    pc,         \* where each flow is
    server,     \* its HTTP server
    outcome,    \* what it reports: the login it took from resultChan
    resultChan, \* the channel of each flow, a set of at most one login
    errorChan,  \* likewise, the number of errors in it
    handler,    \* where the handler of each request of the browser is
    at,         \* the flow whose server took the request
    login,      \* the flow whose state the request carries
    page,       \* what the browser shows
    loginResult \* a.result, the login it came from

flowVars == <<pc, server, outcome>>
requestVars == <<handler, at, login, page>>
loginVars == <<state, port, flowVars, resultChan, errorChan, requestVars, loginResult>>

-----------------------------------------------------------------------------
(* Types *)

\* "waiting"  in the select      "closing"  in server.Shutdown
\* "storing"  about to set a.result          "stored"  and to deliver
\* "done"     the outcome is delivered
FlowStates == {"none", "waiting", "closing", "storing", "stored", "done"}

Outcomes == Flows \cup {"none", "error", "timeout"}

\* "posted"  the handler exchanges the code at Vault
\* "loggedIn"  Vault gave a token, the result is not yet sent
\* "failed"    the error is not yet sent
HandlerStates == {"none", "posted", "loggedIn", "failed", "done"}

LoginTypeOK ==
    /\ state \in [Flows -> {"unknown", "issued", "used"}]
    /\ port \in Flows \cup {NoFlow}
    /\ pc \in [Flows -> FlowStates]
    /\ server \in [Flows -> {"off", "starting", "refused", "up", "closed"}]
    /\ outcome \in [Flows -> Outcomes]
    /\ resultChan \in [Flows -> SUBSET Flows]
    /\ \A f \in Flows : \A l, k \in resultChan[f] : l = k
    /\ errorChan \in [Flows -> 0 .. 1]
    /\ handler \in [Callbacks -> HandlerStates]
    /\ at \in [Callbacks -> Flows \cup {NoFlow}]
    /\ login \in [Callbacks -> Flows \cup {NoFlow}]
    /\ page \in [Callbacks -> {"none", "success", "failure"}]
    /\ loginResult \in Flows \cup {NoFlow}

LoginInit ==
    /\ state = [f \in Flows |-> "unknown"]
    /\ port = NoFlow
    /\ pc = [f \in Flows |-> "none"]
    /\ server = [f \in Flows |-> "off"]
    /\ outcome = [f \in Flows |-> "none"]
    /\ resultChan = [f \in Flows |-> {}]
    /\ errorChan = [f \in Flows |-> 0]
    /\ handler = [c \in Callbacks |-> "none"]
    /\ at = [c \in Callbacks |-> NoFlow]
    /\ login = [c \in Callbacks |-> NoFlow]
    /\ page = [c \in Callbacks |-> "none"]
    /\ loginResult = NoFlow

-----------------------------------------------------------------------------
(* The flow *)

\* startOIDCAuth: Vault issues a state, or the request fails and no server starts.
Start(f) ==
    /\ pc[f] = "none"
    /\ \/ /\ state' = [state EXCEPT ![f] = "issued"]
          /\ pc' = [pc EXCEPT ![f] = "waiting"]
          /\ server' = [server EXCEPT ![f] = "starting"]
          /\ UNCHANGED outcome
       \/ /\ pc' = [pc EXCEPT ![f] = "done"]
          /\ outcome' = [outcome EXCEPT ![f] = "error"]
          /\ UNCHANGED <<state, server>>
    /\ UNCHANGED <<port, resultChan, errorChan, requestVars, loginResult>>

\* server.ListenAndServe in its goroutine.
Listen(f) ==
    /\ server[f] = "starting"
    /\ port = NoFlow
    /\ port' = f
    /\ server' = [server EXCEPT ![f] = "up"]
    /\ UNCHANGED <<state, pc, outcome, resultChan, errorChan, requestVars, loginResult>>

\* The port is taken; the error goes into the channel as soon as it has room.
ListenFails(f) ==
    /\ server[f] = "starting"
    /\ port # NoFlow
    /\ errorChan[f] = 0
    /\ errorChan' = [errorChan EXCEPT ![f] = 1]
    /\ server' = [server EXCEPT ![f] = "refused"]
    /\ UNCHANGED <<state, port, pc, outcome, resultChan, requestVars, loginResult>>

\* The select; when both channels are ready Go takes either.
Take(f, o) ==
    /\ pc[f] = "waiting"
    /\ pc' = [pc EXCEPT ![f] = "closing"]
    /\ outcome' = [outcome EXCEPT ![f] = o]
    /\ UNCHANGED <<state, port, server, requestVars, loginResult>>

TakeResult(f) ==
    /\ \E l \in resultChan[f] : Take(f, l)
    /\ resultChan' = [resultChan EXCEPT ![f] = {}]
    /\ UNCHANGED errorChan

TakeError(f) ==
    /\ errorChan[f] = 1
    /\ errorChan' = [errorChan EXCEPT ![f] = 0]
    /\ Take(f, "error")
    /\ UNCHANGED resultChan

\* Mutant: the server closes itself when nobody calls back, and reports nothing.
IdleTimeout(f) ==
    /\ pc[f] = "waiting"
    /\ server[f] = "up"
    /\ port' = NoFlow
    /\ server' = [server EXCEPT ![f] = "closed"]
    /\ UNCHANGED <<state, pc, outcome, resultChan, errorChan, requestVars, loginResult>>

\* The five minutes are over; the browser may take any time to call back.
TimesOut(f) ==
    /\ Take(f, "timeout")
    /\ UNCHANGED <<resultChan, errorChan>>

\* server.Shutdown closes the listener at once, then waits for the handlers, but for
\* no more than five seconds: it may return while a handler is still at work.
Shutdown(f) ==
    /\ pc[f] = "closing"
    /\ port' = IF port = f THEN NoFlow ELSE port
    /\ pc' = [pc EXCEPT ![f] = IF outcome[f] \in Flows THEN "storing" ELSE "done"]
    /\ server' = [server EXCEPT ![f] = "closed"]
    /\ UNCHANGED <<state, outcome, resultChan, errorChan, requestVars, loginResult>>

\* a.result is set under the lock; another flow may set it before the delivery.
Store(f) ==
    /\ pc[f] = "storing"
    /\ loginResult' = outcome[f]
    /\ pc' = [pc EXCEPT ![f] = "stored"]
    /\ UNCHANGED <<state, port, server, outcome, resultChan, errorChan, requestVars>>

Deliver(f) ==
    /\ pc[f] = "stored"
    /\ pc' = [pc EXCEPT ![f] = "done"]
    /\ UNCHANGED <<state, port, server, outcome, resultChan, errorChan, requestVars, loginResult>>

-----------------------------------------------------------------------------
(* The callback handler *)

\* The identity provider sends a tab of flow f back with a code, or without one.
Callback(c, f) ==
    /\ handler[c] = "none"
    /\ port # NoFlow
    /\ state[f] # "unknown"
    /\ \E h \in {"posted", "failed"} : handler' = [handler EXCEPT ![c] = h]
    /\ at' = [at EXCEPT ![c] = port]
    /\ login' = [login EXCEPT ![c] = f]
    /\ UNCHANGED <<state, port, flowVars, resultChan, errorChan, page, loginResult>>

\* completeOIDCAuth, with whatever state the request carries: Vault gives a token for
\* one that it issued and that was not used.
Exchange(c) ==
    /\ handler[c] = "posted"
    /\ state[login[c]] = "issued"
    /\ state' = [state EXCEPT ![login[c]] = "used"]
    /\ handler' = [handler EXCEPT ![c] = "loggedIn"]
    /\ UNCHANGED <<port, flowVars, resultChan, errorChan, at, login, page, loginResult>>

\* Vault refuses, or its answer is lost after it has used the state up.
ExchangeFails(c) ==
    /\ handler[c] = "posted"
    /\ state' \in {state, [state EXCEPT ![login[c]] = "used"]}
    /\ handler' = [handler EXCEPT ![c] = "failed"]
    /\ UNCHANGED <<port, flowVars, resultChan, errorChan, at, login, page, loginResult>>

\* The handler returns, and its page reaches the browser.
Finish(c, shown) ==
    /\ handler' = [handler EXCEPT ![c] = "done"]
    /\ page' = [page EXCEPT ![c] = shown]
    /\ UNCHANGED <<state, port, flowVars, at, login, loginResult>>

\* Mutant: the channel is a field of the Authenticator.
SendToAnyFlow(c) ==
    /\ handler[c] = "loggedIn"
    /\ \E f \in Flows :
          /\ pc[f] = "waiting"
          /\ resultChan[f] = {}
          /\ resultChan' = [resultChan EXCEPT ![f] = {login[c]}]
    /\ Finish(c, "success")
    /\ UNCHANGED errorChan

\* Sending blocks as long as the channel is full.
SendResult(c) ==
    /\ handler[c] = "loggedIn"
    /\ resultChan[at[c]] = {}
    /\ resultChan' = [resultChan EXCEPT ![at[c]] = {login[c]}]
    /\ Finish(c, "success")
    /\ UNCHANGED errorChan

\* Mutant: no return after the error.
SendErrorAndGoOn(c) ==
    /\ handler[c] = "failed"
    /\ errorChan[at[c]] = 0
    /\ errorChan' = [errorChan EXCEPT ![at[c]] = 1]
    /\ handler' = [handler EXCEPT ![c] = "loggedIn"]
    /\ UNCHANGED <<state, port, flowVars, resultChan, at, login, page, loginResult>>

\* Mutant: the channel takes any number of errors.
SendErrorUnbounded(c) ==
    /\ handler[c] = "failed"
    /\ errorChan' = [errorChan EXCEPT ![at[c]] = @ + 1]
    /\ Finish(c, "failure")
    /\ UNCHANGED resultChan

SendError(c) ==
    /\ handler[c] = "failed"
    /\ errorChan[at[c]] = 0
    /\ errorChan' = [errorChan EXCEPT ![at[c]] = 1]
    /\ Finish(c, "failure")
    /\ UNCHANGED resultChan

-----------------------------------------------------------------------------
Wait(f) == TakeResult(f) \/ TakeError(f) \/ TimesOut(f) \/ Shutdown(f) \/ Store(f) \/ Deliver(f)

Serve(f) == Listen(f) \/ ListenFails(f)

Handle(c) == Exchange(c) \/ ExchangeFails(c) \/ SendResult(c) \/ SendError(c)

LoginNext ==
    \/ \E f \in Flows : Start(f) \/ Serve(f) \/ Wait(f)
    \/ \E c \in Callbacks : Handle(c) \/ \E f \in Flows : Callback(c, f)

LoginSpec == LoginInit /\ [][LoginNext]_loginVars

\* The timer of the select fires and Shutdown returns within its deadline.
LoginFairness == \A f \in Flows : WF_loginVars(Wait(f))

LoginFairSpec == LoginSpec /\ LoginFairness

-----------------------------------------------------------------------------
(* Properties *)

\* A flow that reports a login got it from a callback of its own server, and no
\* other flow reports the same login: the channels and servers of flows that run
\* at the same time are not mixed up (authenticator.go:270-277).
ResultsOfOwnServer ==
    \A f \in Flows : outcome[f] \in Flows =>
        /\ \E c \in Callbacks : at[c] = f /\ login[c] = outcome[f]
        /\ \A g \in Flows \ {f} : outcome[g] # outcome[f]

\* Whoever has received a login finds one in a.result, its own or that of a flow
\* that finished later (authenticator.go:210-213).
StoredWhenDelivered ==
    (\E f \in Flows : pc[f] = "done" /\ outcome[f] \in Flows) =>
        \E f \in Flows : pc[f] \in {"stored", "done"} /\ loginResult = outcome[f]

\* A flow that is over has given the port back, however it ended, so the next one
\* can listen (authenticator.go:320, 325, 330).
PortReleased == port # NoFlow => pc[port] \in {"waiting", "closing"}

\* When the browser shows success, the flow reports a login, unless it timed out
\* or another callback of the same flow failed.
SuccessLostOnlyToRace ==
    \A c \in Callbacks :
        LET f == at[c]
        IN  (page[c] = "success" /\ pc[f] = "done" /\ outcome[f] = "error")
               => \E d \in Callbacks \ {c} : at[d] = f /\ page[d] = "failure"

\* A flow ends, whether or not the browser ever calls back, and also when its
\* server does not come up or a handler hangs (authenticator.go:317-333).
FlowsEnd == \A f \in Flows : pc[f] # "none" ~> pc[f] = "done"

=============================================================================
