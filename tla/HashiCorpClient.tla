-------------------------- MODULE HashiCorpClient --------------------------
(***************************************************************************)
(* pkg/vault/adapter/hashicorp.go: the client that turns paths of the      *)
(* filesystem into requests to Vault.  Handlers (Callers) use it at the    *)
(* same time; nothing but the token is under a lock.                       *)
(*                                                                         *)
(* A call is one to four requests: the mount table is fetched when it is   *)
(* empty, PathExists is a LIST followed by a GET.  Vault answers each      *)
(* request with what it holds at one instant, an error status or nothing,  *)
(* and its other users change it in between.                               *)
(*                                                                         *)
(* A path is <<mount, rest>>; what is below it is a subset of {"entries",  *)
(* "secret"}: entries to list, a secret to read.                           *)
(***************************************************************************)
EXTENDS Naturals

CONSTANTS
    Callers,     \* goroutines of the filesystem that call the client
    Mounts,      \* names of secret engines
    Paths,       \* paths below them, <<mount, rest>>
    Root,        \* the target "/"
    Nowhere,     \* the target of no call
    Requests,    \* the <<operation, target>> that callers ask for
    MaxChanges   \* bound: changes of what Vault holds

\* "kv1" and "kv2" are both listed with type "kv"; "none" is not mounted.
Kinds == {"none", "kv1", "kv2", "other"}

Contents == SUBSET {"entries", "secret"}

Operations == {"list", "read", "pathexists"}

ASSUME ClientAssumption ==
    /\ Paths \subseteq Mounts \X {p[2] : p \in Paths}
    /\ Root \notin Paths /\ Nowhere \notin Paths
    /\ Requests \subseteq (Operations \X Paths) \cup {<<"list", Root>>}
    /\ MaxChanges \in Nat

VARIABLES
    engine,   \* the secret engines that Vault has mounted
    content,  \* what is below each path, while its mount is a KV v2 engine
    changes,  \* how often they have changed
    mounts,   \* c.mounts
    call      \* the call each caller has in progress, or its last one

vars == <<engine, content, changes, mounts, call>>

-----------------------------------------------------------------------------
(* What Vault shows *)

\* The secret engines that List("/") returns.
KVMounts(table) == {m \in Mounts : table[m] \in {"kv1", "kv2"}}

\* What the paths /v1/<mount>/metadata/<rest> and /v1/<mount>/data/<rest> show:
\* they are those of version 2, on any other engine they are 404.
Below(p, kinds, held) ==
    IF p \in Paths /\ kinds[p[1]] = "kv2" THEN held[p] ELSE {}

View(target, kinds, held) ==
    IF target = Root THEN KVMounts(kinds) ELSE Below(target, kinds, held)

-----------------------------------------------------------------------------
(* Types *)

ResultsOf(op) == CASE op = "list" -> {"entries", "empty", "error"}
                   [] op = "read" -> {"secret", "absent", "error"}
                   [] op = "pathexists" -> {"dir", "secret", "none", "error"}

Stages == {"idle", "resolve", "refreshing", "lookup", "listing", "reading",
           "asking", "answered", "stored", "returned"}

\* known: GetMountForPath got as far as its table.  seen, listFailed and words are
\* history: what Vault showed of the target since the call began, whether the
\* LIST of a PathExists failed, and whether its GET failed with an error whose
\* text has "404" or "not found" in it.
Calls == [pc : Stages, op : Operations, target : Paths \cup {Root, Nowhere},
          leg : {"listing", "reading"}, known : BOOLEAN, api : Paths \cup {Nowhere},
          table : [Mounts -> Kinds],
          result : {"pending"} \cup UNION {ResultsOf(op) : op \in Operations},
          listing : SUBSET Mounts,
          seen : SUBSET (Contents \cup SUBSET Mounts), listFailed : BOOLEAN, words : BOOLEAN]

NoTable == [m \in Mounts |-> "none"]

TypeOK ==
    /\ engine \in [Mounts -> Kinds]
    /\ content \in [Paths -> Contents]
    /\ changes \in 0 .. MaxChanges
    /\ mounts \in [Mounts -> Kinds]
    /\ call \in [Callers -> Calls]
    /\ \A p \in Callers : call[p].pc = "returned" => call[p].result \in ResultsOf(call[p].op)

Init ==
    /\ engine \in [Mounts -> Kinds]
    /\ content = [p \in Paths |-> {}]
    /\ changes = 0
    /\ mounts = NoTable
    /\ call = [p \in Callers |->
                 [pc |-> "idle", op |-> "list", target |-> Nowhere, leg |-> "listing",
                  known |-> FALSE, api |-> Nowhere, table |-> NoTable, result |-> "pending",
                  listing |-> {}, seen |-> {}, listFailed |-> FALSE,
                  words |-> FALSE]]

-----------------------------------------------------------------------------
(* Vault and its other users *)

\* What the calls that are under way will have seen once Vault holds this.
Observed(kinds, held) ==
    [p \in Callers |->
        IF call[p].pc \in {"idle", "returned"} THEN call[p]
        ELSE [call[p] EXCEPT !.seen = @ \cup {View(call[p].target, kinds, held)}]]

EngineChanges(m, k) ==
    /\ changes < MaxChanges
    /\ changes' = changes + 1
    /\ engine' = [engine EXCEPT ![m] = k]
    /\ call' = Observed(engine', content)
    /\ UNCHANGED <<content, mounts>>

ContentChanges(p, held) ==
    /\ changes < MaxChanges
    /\ changes' = changes + 1
    /\ content' = [content EXCEPT ![p] = held]
    /\ call' = Observed(engine, content')
    /\ UNCHANGED <<engine, mounts>>

-----------------------------------------------------------------------------
(* One call *)

At(p, pc) == call[p].pc = pc

Goto(p, pc) == call' = [call EXCEPT ![p].pc = pc]

Finished(c, result) ==
    [c EXCEPT !.pc = "returned", !.result = result, !.leg = "listing", !.known = FALSE,
              !.api = Nowhere, !.table = NoTable]

Return(p, result) == call' = [call EXCEPT ![p] = Finished(@, result)]

\* List, Read or PathExists is entered; the List of the root is ListMounts.
Begin(p, op, target) ==
    /\ call[p].pc \in {"idle", "returned"}
    /\ call' = [call EXCEPT ![p] =
                  [@ EXCEPT !.pc = IF target = Root THEN "asking" ELSE "resolve",
                            !.op = op, !.target = target, !.result = "pending",
                            !.leg = IF op = "read" THEN "reading" ELSE "listing",
                            !.listing = {}, !.seen = {View(target, engine, content)},
                            !.listFailed = FALSE, !.words = FALSE]]
    /\ UNCHANGED <<engine, content, changes, mounts>>

\* constructAPIPath, GetMountForPath: an empty table is fetched first.
Resolve(p) ==
    /\ At(p, "resolve")
    /\ call' = [call EXCEPT ![p] =
                  [@ EXCEPT !.pc = IF mounts = NoTable THEN "refreshing" ELSE "lookup",
                            !.known = TRUE]]
    /\ UNCHANGED <<engine, content, changes, mounts>>

\* Mutant: a path whose mount is not in the table is not asked for.
APIPathOfKnown(target, found) == IF found THEN target ELSE Nowhere

\* With the mount in the table or without it (GetMountForPath returns an
\* error), the first component is the mount and the others are the rest.
APIPath(target, found) == target

\* The table is looked up; the request is sent.
Send(p) ==
    /\ At(p, "lookup")
    /\ LET c == call[p]
       IN  call' = [call EXCEPT ![p] =
                      [@ EXCEPT !.pc = c.leg,
                                !.api = APIPath(c.target,
                                                c.known /\ mounts[c.target[1]] # "none")]]
    /\ UNCHANGED <<engine, content, changes, mounts>>

-----------------------------------------------------------------------------
(* ListMounts, for the List of the root and to refresh the table *)

Fetching(p) == At(p, "asking") \/ At(p, "refreshing")

\* Vault answers with the engines it has mounted now.
MountsAnswered(p) ==
    /\ Fetching(p)
    /\ call' = [call EXCEPT ![p] = [@ EXCEPT !.pc = "answered", !.table = engine]]
    /\ UNCHANGED <<engine, content, changes, mounts>>

\* No connection, another status than 200, or not JSON.
MountsFail(p) ==
    /\ Fetching(p)
    /\ IF call[p].target = Root
         THEN Return(p, "error")
         ELSE call' = [call EXCEPT ![p] = [@ EXCEPT !.pc = "lookup", !.known = FALSE]]
    /\ UNCHANGED <<engine, content, changes, mounts>>

\* c.mounts = mounts, without the lock.
StoreMounts(p) ==
    /\ At(p, "answered")
    /\ mounts' = call[p].table
    /\ Goto(p, IF call[p].target = Root THEN "stored" ELSE "lookup")
    /\ UNCHANGED <<engine, content, changes>>

\* Mutant: the engines are taken from c.mounts.
ReturnCachedRoot(p) ==
    /\ At(p, "stored")
    /\ call' = [call EXCEPT ![p] =
                  [Finished(@, IF KVMounts(mounts) = {} THEN "empty" ELSE "entries")
                      EXCEPT !.listing = KVMounts(mounts)]]
    /\ UNCHANGED <<engine, content, changes, mounts>>

\* List("/"): the KV engines among those that ListMounts returned.
ReturnRoot(p) ==
    /\ At(p, "stored")
    /\ LET shown == KVMounts(call[p].table)
       IN  call' = [call EXCEPT ![p] =
                      [Finished(@, IF shown = {} THEN "empty" ELSE "entries")
                         EXCEPT !.listing = shown]]
    /\ UNCHANGED <<engine, content, changes, mounts>>

-----------------------------------------------------------------------------
(* LIST, and what List and PathExists make of its answer *)

\* PathExists goes on with Read, from constructAPIPath.
ThenRead(p, failed) ==
    call' = [call EXCEPT ![p] = [@ EXCEPT !.pc = "resolve", !.leg = "reading",
                                          !.api = Nowhere, !.table = NoTable,
                                          !.listFailed = failed]]

\* 200 with keys; 404 is an empty list.
ListAnswered(p) ==
    /\ At(p, "listing")
    /\ LET entries == "entries" \in Below(call[p].api, engine, content)
       IN  \/ call[p].op = "list" /\ Return(p, IF entries THEN "entries" ELSE "empty")
           \/ call[p].op = "pathexists" /\ entries /\ Return(p, "dir")
           \/ call[p].op = "pathexists" /\ ~entries /\ ThenRead(p, FALSE)
    /\ UNCHANGED <<engine, content, changes, mounts>>

\* No connection, or another status.
ListFails(p) ==
    /\ At(p, "listing")
    /\ \/ call[p].op = "list" /\ Return(p, "error")
       \/ call[p].op = "pathexists" /\ ThenRead(p, TRUE)
    /\ UNCHANGED <<engine, content, changes, mounts>>

-----------------------------------------------------------------------------
(* GET, and what Read and PathExists make of its answer *)

\* Mutant: the 404 is an empty answer, as it is in List.
Read404AsEmpty(op) == IF op = "read" THEN "empty" ELSE "none"

\* "secret not found": PathExists finds the words and returns no error.
Read404(op) == IF op = "read" THEN "absent" ELSE "none"

ReadAnswered(p) ==
    /\ At(p, "reading")
    /\ Return(p, IF "secret" \in Below(call[p].api, engine, content)
                   THEN "secret" ELSE Read404(call[p].op))
    /\ UNCHANGED <<engine, content, changes, mounts>>

\* Mutant: any error means that the path is not there.
AnyErrorMeansAbsent(op, words) == IF op = "pathexists" THEN "none" ELSE "error"

\* PathExists looks for "not found" and "404" in the text of the error.
ErrorResult(op, words) == IF op = "pathexists" /\ words THEN "none" ELSE "error"

\* The GET fails.  The text of a refusal quotes its status and body (line 305),
\* that of a lost connection or a timeout the URL and the addresses with their
\* ports, and an answer that is no secret has the parser's words: any of them
\* may have "404" in it.
ReadFails(p) ==
    /\ At(p, "reading")
    /\ \E words \in IF call[p].op = "pathexists" THEN BOOLEAN ELSE {FALSE} :
          call' = [call EXCEPT ![p] = [Finished(@, ErrorResult(call[p].op, words))
                                         EXCEPT !.words = words]]
    /\ UNCHANGED <<engine, content, changes, mounts>>

-----------------------------------------------------------------------------
Step(p) ==
    \/ Resolve(p) \/ Send(p)
    \/ MountsAnswered(p) \/ MountsFail(p) \/ StoreMounts(p) \/ ReturnRoot(p)
    \/ ListAnswered(p) \/ ListFails(p)
    \/ ReadAnswered(p) \/ ReadFails(p)

Next ==
    \/ \E m \in Mounts, k \in Kinds : EngineChanges(m, k)
    \/ \E p \in Paths, held \in Contents : ContentChanges(p, held)
    \/ \E p \in Callers, r \in Requests : Begin(p, r[1], r[2])
    \/ \E p \in Callers : Step(p)

Spec == Init /\ [][Next]_vars

-----------------------------------------------------------------------------
(* Properties *)

Returned(p, op) == call[p].pc = "returned" /\ call[p].op = op

\* At some instant of the call its path did, or did not, have this.
Had(p, x) == \E v \in call[p].seen : x \in v
Lacked(p, x) == \E v \in call[p].seen : x \notin v

\* PathExists (hashicorp.go:341-361) is never about a world that was not there:
\* "directory" and "secret" were true at some instant of the call; "no" only if at one
\* instant there was nothing to list and at one no secret.  Two weaknesses of the code
\* are excepted: the error of its LIST is dropped (line 347), and an error of its
\* GET counts as "no" if its text has one of the words (line 357), be it in
\* what Vault answered, in the URL or in an address.  They make a "no" of a
\* failure, which pkg/vault/interface.go:72 has as "any error encountered during
\* the check".
PathExistsSound ==
    \A p \in Callers : Returned(p, "pathexists") =>
        LET c == call[p]
        IN  /\ c.result = "dir" => Had(p, "entries")
            /\ c.result = "secret" => Had(p, "secret")
            /\ c.result = "none" => Lacked(p, "secret") \/ c.words
            /\ c.result \in {"secret", "none"} => Lacked(p, "entries") \/ c.listFailed

\* The List of the root (hashicorp.go:227-238) is the KV engines of one instant
\* of the call, although another call may store an older table in c.mounts
\* while this one is between storing its own and returning.
RootIsASnapshot ==
    \A p \in Callers :
        (Returned(p, "list") /\ call[p].target = Root /\ call[p].result # "error")
            => call[p].listing \in call[p].seen

=============================================================================
