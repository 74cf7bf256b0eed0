------------------------------- MODULE Policy -------------------------------
(***************************************************************************)
(* pkg/filesystem/policy.go, with the two places that load a policy when   *)
(* the program starts: validatePolicies (cmd/cli/config.go) compiles it    *)
(* and throws the result away, NewVaultFSWithOptions compiles it again and *)
(* goes on without it if that fails.  From then on the threads of the      *)
(* filesystem evaluate it, and Reload replaces it, under pe.mu.            *)
(*                                                                         *)
(* The policy comes from a file, from the .rego files of a directory, or   *)
(* from a URL; its author may change a file at any moment, also between    *)
(* the reads of one load.  The state of a file is a version number, and    *)
(* the compiled query is the version of each file that went into it.  A    *)
(* version may be one in which the file is not there, or does not compile. *)
(***************************************************************************)
EXTENDS Naturals, FiniteSets

CONSTANTS
    Sources,     \* where the policy may come from: [kind, files]
    Files,       \* its files, numbered as os.ReadDir sorts them
    Threads,     \* goroutines that call Evaluate and Reload
    Main,        \* the goroutine of main
    NoThread,    \* not a goroutine
    Absent,      \* <<file, version>>: there is no such file then
    Broken,      \* <<file, version>>: OPA does not compile it
    MaxVersion,  \* bound: versions of a file
    MaxReloads   \* bound: calls of Reload

ASSUME PolicyAssumption ==
    /\ Files \subseteq Nat
    /\ Sources \subseteq [kind : {"file", "directory", "url"}, files : SUBSET Files]
    /\ \A s \in Sources : s.files # {}
    /\ Main \notin Threads
    /\ NoThread \notin Threads \cup {Main}
    /\ MaxVersion \in Nat \ {0}
    /\ MaxReloads \in Nat

Goroutines == Threads \cup {Main}

VARIABLES
    source,       \* pe.policyPath, with pe.isURL and pe.isDirectory
    disk,         \* the version of each file
    phase,        \* "starting" | "serving" | "exited"
    validated,    \* history: the versions that ValidatePolicy compiled
    evaluator,    \* fs.policyEvaluator # nil
    query,        \* *pe.query
    cachedPolicy, \* pe.cachedPolicy
    writer,       \* who holds pe.mu for writing, or waits for the readers
    readers,      \* who holds it for reading
    call,         \* the call of each goroutine, or its last one
    reloads       \* calls of Reload so far

lockVars == <<writer, readers>>
startVars == <<source, phase, validated, evaluator>>
vars == <<startVars, disk, query, cachedPolicy, lockVars, call, reloads>>

-----------------------------------------------------------------------------
(* Types *)

\* 0 is a file that was not read.
Versions == [Files -> 0 .. MaxVersion]
Nothing == [f \in Files |-> 0]

\* "waiting"  for pe.mu              "evaluating"  with pe.mu held for reading
\* "list"     before os.ReadDir      "read"        between the reads of the files
\* floor: the query when Evaluate was called, the files when Reload was.
Calls == [op : {"none", "validate", "create", "evaluate", "reload"},
          pc : {"idle", "waiting", "evaluating", "list", "read"},
          todo : SUBSET Files, read : Versions, floor : Versions, ok : BOOLEAN]

Begun(op, pc, floor) ==
    [op |-> op, pc |-> pc, todo |-> {}, read |-> Nothing, floor |-> floor, ok |-> FALSE]

Over(op, ok) == [Begun(op, "idle", Nothing) EXCEPT !.ok = ok]

TypeOK ==
    /\ source \in Sources
    /\ disk \in [Files -> 1 .. MaxVersion]
    /\ phase \in {"starting", "serving", "exited"}
    /\ validated \in Versions
    /\ evaluator \in BOOLEAN
    /\ query \in Versions
    /\ cachedPolicy \in 0 .. MaxVersion
    /\ writer \in Threads \cup {NoThread}
    /\ call \in [Goroutines -> Calls]
    /\ readers = {t \in Threads : call[t].pc = "evaluating"}
    /\ reloads \in 0 .. MaxReloads

Init ==
    /\ source \in Sources
    /\ disk = [f \in Files |-> 1]
    /\ phase = "starting"
    /\ validated = Nothing
    /\ evaluator = FALSE
    /\ query = Nothing
    /\ cachedPolicy = 0
    /\ writer = NoThread
    /\ readers = {}
    /\ call = [t \in Goroutines |->
                 IF t = Main THEN Begun("validate", "list", Nothing) ELSE Over("none", FALSE)]
    /\ reloads = 0

-----------------------------------------------------------------------------
(* Loading *)

Change(f) ==
    /\ f \in source.files
    /\ disk[f] < MaxVersion
    /\ disk' = [disk EXCEPT ![f] = @ + 1]
    /\ UNCHANGED <<startVars, query, cachedPolicy, lockVars, call, reloads>>

There(f) == <<f, disk[f]>> \notin Absent

Present(read) == {f \in source.files : <<f, read[f]>> \notin Absent}

\* PrepareForEval of all modules; a directory needs at least one.
Compiles(read) ==
    /\ Present(read) # {}
    /\ \A f \in Present(read) : <<f, read[f]>> \notin Broken

Loading(t) == call[t].pc \in {"list", "read"}

\* os.ReadDir; a file and a URL are one name that need not be looked up.  Reload
\* begins when the last reader has left.
ReadDir(t) ==
    /\ call[t].pc = "list"
    /\ call[t].op = "reload" => readers = {}
    /\ LET missing == IF source.kind = "directory" THEN {f \in source.files : ~There(f)} ELSE {}
       IN  call' = [call EXCEPT ![t].pc = "read",
                                ![t].todo = source.files \ missing,
                                ![t].read = [f \in Files |-> IF f \in missing THEN disk[f] ELSE 0]]
    /\ UNCHANGED <<startVars, disk, query, cachedPolicy, lockVars, reloads>>

IsFirst(f, S) == f \in S /\ \A g \in S : f <= g

\* os.ReadFile of the next file, or the download, whose text Reload keeps at once.
ReadFile(t) ==
    /\ call[t].pc = "read"
    /\ \E f \in call[t].todo :
           /\ IsFirst(f, call[t].todo) /\ There(f)
           /\ call' = [call EXCEPT ![t].todo = @ \ {f}, ![t].read[f] = disk[f]]
           /\ cachedPolicy' = IF source.kind = "url" /\ call[t].op = "reload"
                              THEN disk[f] ELSE cachedPolicy
    /\ UNCHANGED <<startVars, disk, query, lockVars, reloads>>

\* The file is gone since it was listed, or the download fails.
Unreadable(t) ==
    /\ call[t].pc = "read"
    /\ \E f \in call[t].todo :
          IsFirst(f, call[t].todo) /\ (source.kind = "url" \/ ~There(f))

Loaded(t) == call[t].pc = "read" /\ call[t].todo = {} /\ Compiles(call[t].read)

DoesNotCompile(t) == call[t].pc = "read" /\ call[t].todo = {} /\ ~Compiles(call[t].read)

LoadFails(t) == Unreadable(t) \/ DoesNotCompile(t)

-----------------------------------------------------------------------------
(* Start-up *)

\* Mutant: the files are read, but not compiled.
ValidateReadable ==
    /\ call[Main].op = "validate" /\ call[Main].pc = "read" /\ call[Main].todo = {}
    /\ validated' = call[Main].read
    /\ call' = [call EXCEPT ![Main] = Begun("create", "list", Nothing)]
    /\ UNCHANGED <<source, phase, evaluator, disk, query, cachedPolicy, lockVars, reloads>>

\* validatePolicies, and on to the next load.
ValidatePolicy ==
    /\ call[Main].op = "validate" /\ Loaded(Main)
    /\ validated' = call[Main].read
    /\ call' = [call EXCEPT ![Main] = Begun("create", "list", Nothing)]
    /\ UNCHANGED <<source, phase, evaluator, disk, query, cachedPolicy, lockVars, reloads>>

\* log.Fatal.
ValidationFails ==
    /\ call[Main].op = "validate" /\ LoadFails(Main)
    /\ call' = [call EXCEPT ![Main] = Over("validate", FALSE)]
    /\ phase' = "exited"
    /\ UNCHANGED <<source, validated, evaluator, disk, query, cachedPolicy, lockVars, reloads>>

NewPolicyEvaluator ==
    /\ call[Main].op = "create" /\ Loaded(Main)
    /\ evaluator' = TRUE
    /\ query' = call[Main].read
    /\ IF source.kind = "url"
       THEN \E f \in source.files : cachedPolicy' = call[Main].read[f]
       ELSE UNCHANGED cachedPolicy
    /\ call' = [call EXCEPT ![Main] = Over("create", TRUE)]
    /\ phase' = "serving"
    /\ UNCHANGED <<source, validated, disk, lockVars, reloads>>

\* Falling back to the PID and UID lists.  The record keeps what was read.
FallBack ==
    /\ call[Main].op = "create" /\ LoadFails(Main)
    /\ call' = [call EXCEPT ![Main].pc = "idle"]
    /\ phase' = "serving"
    /\ UNCHANGED <<source, validated, evaluator, disk, query, cachedPolicy, lockVars, reloads>>

-----------------------------------------------------------------------------
(* Evaluate and Reload *)

Evaluate(t) ==
    /\ phase = "serving" /\ evaluator /\ call[t].pc = "idle"
    /\ call' = [call EXCEPT ![t] = Begun("evaluate", "waiting", query)]
    /\ UNCHANGED <<startVars, disk, query, cachedPolicy, lockVars, reloads>>

\* A writer that waits keeps new readers out.
RLock(t) ==
    /\ call[t].pc = "waiting" /\ call[t].op = "evaluate"
    /\ writer = NoThread
    /\ readers' = readers \cup {t}
    /\ call' = [call EXCEPT ![t].pc = "evaluating"]
    /\ UNCHANGED <<startVars, disk, query, cachedPolicy, writer, reloads>>

\* Mutant: the lock is released only after a decision to allow.
DecideLocked(t) ==
    /\ call[t].pc = "evaluating"
    /\ readers' \in {readers, readers \ {t}}
    /\ call' = [call EXCEPT ![t].pc = "idle", ![t].read = query, ![t].ok = TRUE]
    /\ UNCHANGED <<startVars, disk, query, cachedPolicy, writer, reloads>>

\* The decision is that of the query, which is kept as what was read.
Decide(t) ==
    /\ call[t].pc = "evaluating"
    /\ readers' = readers \ {t}
    /\ call' = [call EXCEPT ![t].pc = "idle", ![t].read = query, ![t].ok = TRUE]
    /\ UNCHANGED <<startVars, disk, query, cachedPolicy, writer, reloads>>

\* Mutant: a Reload that finds another at work leaves it to that one.
ReloadOnce(t) ==
    /\ phase = "serving" /\ evaluator /\ call[t].pc = "idle" /\ reloads < MaxReloads
    /\ call' = [call EXCEPT ![t] = IF writer = NoThread THEN Begun("reload", "waiting", disk)
                                   ELSE [Begun("reload", "idle", disk) EXCEPT !.ok = TRUE]]
    /\ reloads' = reloads + 1
    /\ UNCHANGED <<startVars, disk, query, cachedPolicy, lockVars>>

Reload(t) ==
    /\ phase = "serving" /\ evaluator /\ call[t].pc = "idle" /\ reloads < MaxReloads
    /\ call' = [call EXCEPT ![t] = Begun("reload", "waiting", disk)]
    /\ reloads' = reloads + 1
    /\ UNCHANGED <<startVars, disk, query, cachedPolicy, lockVars>>

\* Mutant: the lock is taken when the query is replaced, not before the load.
LoadUnlocked(t) ==
    /\ call[t].pc = "waiting" /\ call[t].op = "reload"
    /\ call' = [call EXCEPT ![t].pc = "list"]
    /\ UNCHANGED <<startVars, disk, query, cachedPolicy, lockVars, reloads>>

Lock(t) ==
    /\ call[t].pc = "waiting" /\ call[t].op = "reload"
    /\ writer = NoThread
    /\ writer' = t
    /\ call' = [call EXCEPT ![t].pc = "list"]
    /\ UNCHANGED <<startVars, disk, query, cachedPolicy, readers, reloads>>

\* pe.query = &query, and the deferred Unlock.
Install(t) ==
    /\ call[t].op = "reload" /\ Loaded(t)
    /\ query' = call[t].read
    /\ writer' = NoThread
    /\ call' = [call EXCEPT ![t].pc = "idle", ![t].ok = TRUE]
    /\ UNCHANGED <<startVars, disk, cachedPolicy, readers, reloads>>

\* Mutant: the query is replaced before the error is looked at.
InstallAnyhow(t) ==
    /\ call[t].op = "reload" /\ LoadFails(t)
    /\ query' = call[t].read
    /\ writer' = NoThread
    /\ call' = [call EXCEPT ![t].pc = "idle"]
    /\ UNCHANGED <<startVars, disk, cachedPolicy, readers, reloads>>

\* Mutant: the return after a failed download forgets the lock.
ReturnLocked(t) ==
    /\ call[t].op = "reload" /\ LoadFails(t)
    /\ writer' = IF DoesNotCompile(t) THEN NoThread ELSE writer
    /\ call' = [call EXCEPT ![t].pc = "idle"]
    /\ UNCHANGED <<startVars, disk, query, cachedPolicy, readers, reloads>>

ReloadFails(t) ==
    /\ call[t].op = "reload" /\ LoadFails(t)
    /\ writer' = NoThread
    /\ call' = [call EXCEPT ![t].pc = "idle"]
    /\ UNCHANGED <<startVars, disk, query, cachedPolicy, readers, reloads>>

-----------------------------------------------------------------------------
Load(t) == ReadDir(t) \/ ReadFile(t)

StartUp == Load(Main) \/ ValidatePolicy \/ ValidationFails \/ NewPolicyEvaluator \/ FallBack

Continue(t) ==
    RLock(t) \/ Decide(t) \/ Lock(t) \/ Load(t) \/ Install(t) \/ ReloadFails(t)

Next ==
    \/ \E f \in Files : Change(f)
    \/ StartUp
    \/ \E t \in Threads : Evaluate(t) \/ Reload(t) \/ Continue(t)

Spec == Init /\ [][Next]_vars

\* A call that was begun goes on whenever it can: requests have a timeout, and Go
\* schedules every goroutine.  Nobody has to call.
FairSpec == Spec /\ \A t \in Threads : WF_vars(Continue(t))

-----------------------------------------------------------------------------
(* Properties *)

NotOlder(v, w) == \A f \in Files : v[f] >= w[f]

\* However Evaluate and Reload overlap, a decision is made by a policy that has of no
\* file an older version than the one in force when it was asked for: overlapping
\* Reloads never bring an older policy back (policy.go:135, 190).
DecisionsNotOlder ==
    \A t \in Threads :
        call[t].op = "evaluate" /\ call[t].ok => NotOlder(call[t].read, call[t].floor)

\* A Reload that returns without an error has put in force, file by file, what was
\* there when it was called, or something newer (policy.go:189-224).
ReloadTakesEffect ==
    \A t \in Threads : call[t].op = "reload" /\ call[t].ok =>
        \A f \in source.files : query[f] >= call[t].floor[f]

\* Every decision is made by files that compile together, whatever Reload found
\* in between (policy.go:211, 222).
OnlyCompiledPolicies ==
    \A t \in Threads : call[t].op = "evaluate" /\ call[t].ok => Compiles(call[t].read)

\* A program that has announced its policy (config.go:80) serves without one only
\* if the second load could not read a file, or found another version of one than
\* the first (vaultfs.go:151-157).
FallbackOnlyIfChanged ==
    phase = "serving" /\ ~evaluator =>
        \/ call[Main].todo # {}
        \/ call[Main].read # validated

\* Evaluate and Reload return, whoever else calls them and whatever a load finds:
\* the lock is released on every way out (policy.go:136, 191).
CallsReturn == \A t \in Threads : call[t].pc # "idle" ~> call[t].pc = "idle"

=============================================================================
