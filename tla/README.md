# Safeguard in TLA+

Safeguard mounts a HashiCorp Vault as a FUSE filesystem: the secrets of Vault,
and local files that a configuration maps into it, appear as one tree, read-only,
with an access check and an audit record per operation. A second program, the
builder, compiles binaries with their configuration baked in.

This directory holds TLA+ modules that model it, TLC configurations that check them
on small instances, and TLAPS proofs of what holds for every instance. `PROJECT.json`
lists the runs, the mutants, the source lines behind every definition, the hazards
and the theorems.

    tlc -workers 2 -config CachingClient.cfg MCCachingClient   # one run
    tlapm CachingClientProofs.tla                              # one set of proofs

## 1. The system

| Component | State | Operations | Talks to |
|---|---|---|---|
| **CachingClient** `pkg/vault/cache.go` | `store`: key -> value, expiry; a RWMutex | List, Read, PathExists, ListMounts, SetToken, Ping | called by the FUSE handlers, calls HashiCorpClient |
| **HashiCorpClient** `pkg/vault/adapter/hashicorp.go` | token, table of mounts | List, Read, PathExists, ListMounts, SetToken, Ping | Vault over HTTP |
| **Provider registry, stubs** `adapter/registry.go`, `awssm.go`, ... | the map of factories | Register, New, NewAuth | the CLI |
| **Authenticator** `pkg/auth/authenticator.go` | `result`, `renewing`, `renewDone`, callback, a mutex | Authenticate (token, OIDC, LDAP), StartOIDCFlow, StartRenewal, StopRenewal, RenewToken, LookupToken | Vault, browser, CLI; its callback sets the token of the client |
| **VaultFS** `pkg/filesystem/vaultfs.go` | client, mapper, evaluator, access lists, audit log | Getattr, Open, Read, Readdir, Mount, Close | kernel, CachingClient, PathMapper, PolicyEvaluator |
| **PathMapper** `pkg/filesystem/pathmapper.go` | `mappings`: virtual path -> real path, kind, injections | LoadFromFile, ResolveMappedPath, ListMappedDirectory, ListVirtualDirectory, GetRootEntries, ReadMappedPath, ApplyInjections | disk, Vault client |
| **PolicyEvaluator** `pkg/filesystem/policy.go` | the prepared query, cached text, a RWMutex | New, Evaluate, Reload, ValidatePolicy | disk, HTTP, OPA |
| **Process information** `procinfo*.go` | none | resolveProcessDetails | /proc, Windows |
| **CLI** `cmd/cli` | flags | main: log in, connect, extract and validate policies, build, mount, wait, unmount | everything above |
| **Builder** `pkg/builder/builder.go` | work, source and output directories | BuildWithLog, CreateArchive | `go build`, disk, HTTP |
| **Builder server** `cmd/builder/main.go` | default Builder | build, build-stream, download, validate, health | browser, Builder |
| **Builder UI** `cmd/builder/ui` | form, log of the build | submit, check environment | Builder server |
| **Logger** `pkg/logger` | writer | one call per level; SplunkWriter posts each record | stdout, file, Splunk |

How they interact: the kernel calls a handler of VaultFS in a thread of its own, as
many at once as there are requests. A handler checks the access (PolicyEvaluator, or
the PID and UID lists), resolves the path (PathMapper), asks Vault (CachingClient
over HashiCorpClient) and writes an audit record; no lock is held across two of
these. The Authenticator logs in before the mount and then renews the token in a
goroutine for as long as the mount lives.

What is hard in it, and what makes each part correct:

- *CachingClient*: the call to Vault and the write of the store are two steps, so
  answers are stored out of order; errors are answered from the store. Correct if no
  answer is older than the TTL plus the slowest call, if an error is only returned
  when there is no recent success, and if expired entries do not come back.
- *Token renewal*: a goroutine, a flag and a channel that are replaced under it;
  timers and lost messages. Correct if the stop always stops, no channel is closed
  twice, and the token outlives neither its lease nor its use.
- *OIDC login*: a server, its handler goroutines, two channels, a timeout, and a
  user with several tabs. Correct if a flow ends, releases the port and reports what
  came from its own callback.
- *VaultFS handlers*: file contents are not kept between two Reads, sizes come from
  an earlier call, decisions change while a file is open. Correct if a revocation
  is effective at once, files arrive whole, and the audit log has every answer, once and
  as what it was; that a failure is in it is not so.
- *Namespace*: Getattr and Readdir put a directory together from mappings, virtual
  directories and Vault by different code. Correct if the two agree and every
  mapping can be walked to.
- *Policy, start-up*: the policy is loaded twice, from a source that changes, with
  a fallback; files of a directory are read one by one; Reload replaces it under the
  requests. Correct if decisions never go back to an older policy, a failed Reload
  changes nothing, and only a change between the two loads leads to the fallback.
- *HashiCorpClient*: a call is up to four requests, Vault changes in between, and other
  handlers replace the mount table. Correct if each answer was true at an instant of
  its call.
- *Builder*: builds run at the same time on shared files and fail half way. Correct if
  a result is of the own build, and nothing is left behind.
- *Start-up and shutdown*: a renewal, a mount and signals run beside main, and Fatal
  skips the deferred calls. Correct if no renewed token is lost, a mount that failed is not
  taken for one that serves, and a signal ends the program without taking anything
  away under a mount.

The full list of hazards, with lines, is in `PROJECT.json`.

## 2. Modules

| Module | What it is | Proofs |
|---|---|---|
| `CachingClient` | the stale-on-error cache, one action per step of a call | `CachingClientProofs` |
| `CacheContract` | what a user of the cache may rely on, without a store | `CachingClientProofs`: CachingClient implements it |
| `TokenRenewal` | StartRenewal, StopRenewal, renewLoop, RenewToken, LookupToken, with the lease at Vault | `AuthenticatorProofs` |
| `OIDCLogin` | the login flows, callback servers and their handlers | `AuthenticatorProofs` |
| `VaultFS` | the four FUSE handlers with access check, audit, injections and content | `VaultFSProofs` |
| `Namespace` | PathMapper and what Getattr and Readdir make of a path | `NamespaceProofs` |
| `Policy` | the two loads of the start-up, Evaluate and Reload under the RWMutex | `PolicyProofs` |
| `HashiCorpClient` | List, Read, PathExists and the mount table, one action per request | `HashiCorpClientProofs` |
| `Builder` | builds, archives and downloads on shared directories | `BuilderProofs` |
| `Startup` | main from the login to its end, the renewal, the mount and signals beside it | `StartupProofs` |
| `MC*` | the small instances for TLC | |

### CachingClient and CacheContract

A call has three steps, because nothing is locked between them: `Begin` (the inner
call goes out), `Respond`/`Refuse`/`Drop` (a success or the 404 of Vault, an error
status, no connection), and `Refresh`/`ServeStale`/`Fail` (cache.go:74-86: `c.set`
after a success; after an error `c.get`, else the error). A value is the number of its
version; `history[r][v]` is the instant from which version v was current. Versions
in `Tombstones` are deletions: a Read of one is an error in hashicorp.go (404), a
List or PathExists of one is a success. The inner call takes at most `CallTimeout`
clock ticks (the `Timeout` of the HTTP client; PathExists makes two calls, so there
it is twice that), and the clock does not pass the end of a pending call.

`CacheContract` knows only what a user can see (phase, key, result) and until when a
key was good. The refinement mapping (`VisibleOps`, `GoodUntil`) forgets the store:
`Begin` is `Invoke`, the last step of a call is one of the three returns, `Respond`,
`Refuse` and `Drop` are stutters.

### TokenRenewal

Loop i and channel i belong to the i-th `StartRenewal`. The two critical sections of
StartRenewal are two actions (`StartRenewal`, then `LaunchLoop` or `SkipLoop`). A
loop is at one of the places where another goroutine can get in between
(`LoopStates`); the read of `a.renewDone` without the lock is `EnterSelect`. A token
is its expiry at Vault. A goroutine's own work takes no time; requests take up
to `HttpTimeout` and their answers, or the requests, may be lost. A renewal is granted any lease
of `Grants`, and the token may come back as no longer renewable. A StartRenewal while
`renewing` is set returns at once (authenticator.go:573) and is no step.
`StopReachesSleepers` has an exception, which needs three starts to come about: a
StartRenewal without a live token makes a channel, and clears the flag without closing
it (authenticator.go:577-588); a loop that was meanwhile between its head and its select, or inside
RenewToken, goes to sleep on that channel, and no StopRenewal wakes it before its timer fires.

### OIDCLogin

A flow is a call of StartOIDCFlow or the OIDC branch of Authenticate; a callback is
a request of the browser, which carries the state of any flow whose URL was issued and
reaches whichever server holds the port. The channels hold one value, a send to
a full one blocks its handler. `Shutdown` closes the listener and may return
while a handler is at work (its deadline is five seconds). Its specification is
`LoginInit`, `LoginNext`, `LoginSpec`, so that `AuthenticatorProofs` can extend both
modules of the Authenticator.

### VaultFS

A process has one request at a time: `Ask*`, `CheckAccess`, the calls to Vault or the
disk as steps of their own, `Reply` with code and audit record. A content is a
sequence of pieces, a piece is a field of a secret (in the order of Go's map) or a
part of a file. `AskRead` follows the kernel: Reads from the offset reached so far,
up to the size that Getattr gave. `FitsOneRead` says that a secret, whatever its version,
is no longer than a Read and than `Placeholder`, the size that Getattr gives for every
secret. A mapped file either has injections or is read as it is, so `FilePaths` and
`InjectedPaths` have nothing in common. `InText` says which placeholders are in each version of a file: an
injection whose placeholder is not there is skipped and its secret is not fetched
(pathmapper.go:600). Getattr of a file with injections looks at the file, reads it and then injects, in
separate steps (`GetattrMapped`, `GetattrContent`, `InjectSecret`).

### Namespace

A path is the sequence of its components. Where Go ranges over a map the operator is
the set of possible answers. `listing` and `answer` are the last answers of Readdir
and Getattr, forgotten when disk or Vault change, so that the properties compare
answers about one state of the world. A secret is below a mount, so its path has at
least two components. `disk` is what lstat says of a place. `At` is os.Stat, which follows a link to a
directory and fails at a dangling one; `Contents` is os.ReadDir, whose `DirEntry.IsDir` follows
none. So a link in a mapped directory is listed as a file wherever it leads: the exception of
`ListedNamesAreFound`. A link to a file is a file to both and not told apart from one. A
mapping that is a link itself is no exception.

### Policy

The content of a policy file is the number of its version, and a query is the version of
each file that went into it (0: not read). `Absent` and `Broken` say in which versions a file
is not there or does not compile; a set of files compiles if each does, so conflicts
between two files are left out. A load is `ReadDir`, a `ReadFile` per file, and one of
the ends `ValidatePolicy`/`ValidationFails` (validatePolicies, config.go:73),
`NewPolicyEvaluator`/`FallBack` (vaultfs.go:150) or `Install`/`ReloadFails` (policy.go:222,
199-219); a file changes between any two of these. `writer` and `readers` are `pe.mu`: a writer
that waits for the readers keeps new readers out, as Go's RWMutex does, so `Lock` takes
its place at once and `ReadDir` waits for the readers to leave. `floor` and `validated`
are history: what was in force, or on disk, when a call began, and what the first
load compiled. Reload has no caller in the program yet, only in policy_test.go:236; it is
modelled as what it is, an exported method that any goroutine may call.

### HashiCorpClient

A call is at the place of its next request: `"asking"`/`"refreshing"` (the mount table, for
the List of the root or because it is empty), `"listing"`, `"reading"`. Each request is answered
with what Vault holds at that instant, refused or lost; `EngineChanges` and `ContentChanges` are
Vault's other users. What is below a path is a subset of {entries, secret}. The client asks
with the paths of KV version 2 whatever the version of the mount is, so on any other engine all
answers are 404 (`Below`). `seen` is history: what Vault has shown of the target since the call
began. `words` is, too: whether the error of a GET had "404" or "not found" in its text. That
text has the status and the body of a refusal (hashicorp.go:305), the URL, the addresses and ports of a
lost request, or the words of the parser, so any failure but the 404 itself may have the words or not
(`ReadFails`). `PathExistsSound` excepts exactly those failures, and a LIST that failed.

### Builder

A build is a request with its configuration (`Configs`: directories, policy, what to embed, version,
tag, file name); the shared state is the files, by directory. One action per file that is written, read
or removed; `Fails` is any error return, after which the deferred clean-ups run in reverse
order (`RemoveGenerated`, `RemovePolicies`). `go build` is external: it renames its output into place
or, where it cannot, copies it over the old file (`StartCopy`, `FinishCopy`), and it ignores files that begin
with an underscore. A binary is known by its build, whether it is complete, the policy compiled
into it and its default policy path. `met` is history: which builds were under way together, from
the request to the end of the download. Names of binaries are told apart by what they are made
of: a name that is given, with ".exe" or without, or version, system and tag. Left out are names that
coincide by chance: a given name that ends in ".exe" or looks like a made-up one, and versions and
tags with dashes in them.

### Startup

`main` is where the program is; `"fatal"` and `"killed"` are the ends that skip the deferred calls. The
steps of the program take no time, requests to Vault, the wait of five seconds in Mount and
the sleep before a renewal do. The renewal goroutine is TokenRenewal without its details: it sleeps at
least `SleepFloor`, stores the token of the answer together with a look at the callback, and calls it in
a second step (authenticator.go:540-547), or logs in again. `HostServes`, `HostFails`, `HostReturns` are
what cgofuse makes of the mount, at any time. `tempDir` is `"left"` when os.RemoveAll, whose error
nobody looks at, could not remove the extracted policies: the exception of `OrderlyExit`.

## 3. Runs

| Run | Shows | Instance |
|---|---|---|
| `caching_client` | TypeOK, ServedNotTooOld, NoRegressionPastBegin, refinement of CacheContract | 2 callers; a Read and a List; 2 versions, the second a deletion; TTL 1, calls up to 1; clock to 3 |
| `token_renewal` | TypeOK, StopReachesSleepers, AtMostOneLateRenewal, NeverExpires, StopEndsLoop | one controller as in main, but with 2 starts; lease 4, renewals of 4 or 1, floor 1, HTTP timeout 1; clock to 7 |
| `token_renewal_stop` | *violated:* a stopped loop does not sleep again | 2 starts |
| `oidc_login` | LoginTypeOK, ResultsOfOwnServer, SuccessLostOnlyToRace, FlowsEnd | 2 flows, 3 requests of the browser |
| `vaultfs` | TypeOK, RevocationTakesEffect, OneRecordPerAnswer, WholeReads | 1 process; a secret, a file, a file with 2 injections, one of them in its first version only; 2 versions of different length; 3 decisions; Reads of 3 pieces |
| `vaultfs_small_reads` | *violated:* a secret read in pieces is whole | a secret of 3 fields, Reads of 1 |
| `namespace` | TypeOK, ListedNamesAreFound, FoundNamesAreListed, MappingsAreReachable, AllMappingsOrNone | 4 config files of 1 or 2 mappings; 4 real paths, 2 of them possibly links; 3 mounts, 3 secrets |
| `policy` | TypeOK, DecisionsNotOlder, ReloadTakesEffect, OnlyCompiledPolicies, FallbackOnlyIfChanged, CallsReturn | a file, a URL, a directory of 2 files; 2 goroutines, 2 Reloads; 4 versions |
| `hashicorp_client` | TypeOK, PathExistsSound, RootIsASnapshot | 2 handlers; 1 mount of any kind; 2 paths; 2 changes of Vault |
| `builder` | TypeOK, NothingLeftBehind, ResultsAreOwn, PoliciesAreOwn | 2 builds of any of 9 configurations; 2 directories |
| `builder_embed` | *violated:* policies that were to be embedded are in the binary | 1 build |
| `startup` | TypeOK, TokenWired, FailedMountNotAnnounced, OrderlyExit, SignalEndsProgram | HTTP timeout and floor 2, wait for the mount 1, clock to 6 (one tick is five seconds); 2 tokens |

`StoreBoundedAge` (CachingClient), `OpenWhileRenewing` (TokenRenewal), `PortReleased` and
`StoredWhenDelivered` (OIDCLogin) and `OneResolution` (Namespace) are proved for every
instance and not repeated in a run.

**Bounds.** `MaxVersion`, `MaxTime`, `MaxStarts`, `MaxDecisions`, `MaxReloads` are in the guards of the
action that would count further, and nowhere else. They are enough for these reasons.
*CachingClient*: an answer that is too old needs a version to be replaced, a call that
took it before, one tick beyond TTL + CallTimeout, and a second call to overtake:
two versions, three ticks, two callers; the theorems remove the bound.
*TokenRenewal*: with lease 4 and half of it slept, a renewal, its failure, the lookup
and the next renewal all fit before tick 7; a stop and a start while a loop is
between its head and its select, or inside RenewToken, need two starts. *OIDCLogin*: two flows contend for the port and for `a.result`;
a repeated answer of one, and an answer of the other, make three requests.
*VaultFS*: two versions of different length make a file grow or shrink between two
Reads; two injections of one secret can see different versions; the access goes
away, comes back and goes away. Processes do not share state in the handlers,
so one is enough. *Namespace*: mappings two and three levels deep, apart and one below
another, a mount with the name of a mapping, an empty mount, a secret that is also a
directory; any disk of the four places, with links inside the directory and in place of the file. *Policy*: the first file is good, broken, gone and
good again in its four versions, the second one good, gone, good; an older query put back
over a newer one needs two loads that overlap, so two Reloads of two goroutines; the
theorems remove all of these bounds. *HashiCorpClient*: PathExists goes wrong with one change
between its two requests, and a second one puts the mount or the path back; another handler has to
store a table while this one is between storing and returning. *Builder*: builds disturb one
another in pairs; the configurations differ from one plain one in one thing each (tag; version
and system; file name; file name and system; output directory; downloaded policy, kept as a path or embedded; local
policy). *Startup*: the clock allows a Ping of full length, a mount of full length and two renewals.

**Mutants.** Every property of a passing run has a mutant: a definition with the bug it
is there to find (`Mutant:` comments in the modules). With the mutant in place of
the original, TLC finds the property violated.

**Deadlock** is checked in `vaultfs` and `namespace` and the cache runs; in
TokenRenewal the clock ends and all loops may be over, and in OIDCLogin all flows
end, so those configurations switch it off, as does `policy`, where nobody has to call, `builder`,
where every build ends, and `startup`, where the program does.

**Fairness.** `TokenRenewal!Fairness`: the clock goes on, and a goroutine that can take a
step does (Go's scheduler is fair to runnable goroutines, timers fire, the HTTP
client has a timeout); nobody has to call StartRenewal or StopRenewal. `LoginFairness` (OIDCLogin):
the goroutine in waitForOIDCCallback goes on: its timer fires after five minutes and Shutdown
has a deadline. `Policy!FairSpec`: each goroutine goes on with the call it has begun;
reads of files end and the download has a timeout (policy.go:368). The number of Reloads is
bounded, so a reader that waits is not overtaken for ever; Go's RWMutex lets the
waiting readers in between two writers. `Startup!Spec`: main goes on when it can: its requests have
a timeout, and `host.Unmount` returns. No fairness is assumed of the browser, of Vault or of a handler. Safety
properties are checked under the same specifications and need none of it.

## 4. Proofs

The proofs hold for any number of callers, processes, builds, flows, requests, paths, for
every TTL, lease, length and bound. Every safety invariant and every action property of a passing run is a
theorem. The proofs use only the named assumptions of the modules (`BoundsAssumption`,
`ParametersAssumption`, `FlowsAssumption`, `NamespaceAssumption`, `PolicyAssumption`,
`ConstantsAssumption`, `ClientAssumption`, `ConfigAssumption`, `NamesAssumption`, `TimesAssumption`, which
say that numbers are natural numbers, special values are not members, and the sets are subsets of what they
should be). Three theorems assume more:

- `TimesAssumption` (Startup) has the Ping take no longer than the shortest sleep of the renewal loop,
  as the two constants of the code do;
- `TokenOutlivesRenewal` assumes `Sleep(Lease) + 2 * HttpTimeout <= Lease`: what the loop sleeps leaves
  room for a renewal and the one after it. With the ten seconds of authenticator.go:617, and
  thirty seconds per request, that is a lease of two minutes or more. A shorter one may expire, also if
  a renewal gives it: the theorem is about tokens whose renewals give the lease of the login;
- `StopWakesSleepers` is for one controller, as main is one. With two it is false, as TLC shows in nine
  steps: main's StartRenewal has seen no live token, the other controller stops it, logs in and
  starts, and main then clears the flag of that start (authenticator.go:584-588), so that no
  StopRenewal reaches its loop.

- **CachingClientProofs.** `StoreBoundedAge` is not inductive: an answer on its way
  to the store may be of any age unless one knows when its call began. `IInv` adds that a
  pending call is at most `CallTimeout` old (`PendingCalls`), that its answer was
  current at some instant since it began and is no older than what was
  cached then (`AnswersCurrent`), and that no entry expires later than a TTL from now
  (`ExpiryInTTL`). One lemma per action. `TypeCorrect` and `StoreAgeTheorem` follow
  at once, `ServedAgeTheorem` and `NoRegressionTheorem` are action properties
  proved from `IInv` and the lemma that the result of a call tells its step.
  `Implements` is the refinement of CacheContract: initial states map to initial states, and
  each action, under `IInv`, to a step of the contract or a stutter.
- **AuthenticatorProofs**, TokenRenewal. `CloseOnce`: `ChannelInv` numbers the channels in the order
  they are made; the flag is set only together with a new one, so no channel is closed twice for
  any number of controllers (in the run there is one). `StartsInv` says whose number a StartRenewal that is
  under way has, and that a loop sleeps on a channel that was made. On it rest three more.
  `StopWakesSleepers` is not inductive: `StopInv` adds that the StartRenewal under way
  owns the flag and the current channel, and that a current channel that is open without the flag
  was made for no loop. `OneLateRenewal`: with one start, a loop without the flag has a
  closed channel and does not sleep again (`OnceInv`), so only the timer that had fired is left.
  `TokenOutlivesRenewal`: `LeaseInv` says, for each place a loop can be at, how much of the lease is
  left to it; each request and each sleep uses up its part.
- **AuthenticatorProofs**, OIDCLogin. `FlowTypeInv` adds to the types that a request
  at work knows its flow and state, and a flow past the select its outcome. `PortInv` ties the port to a
  server that is up; `StoreInv` says that a flow that stored is followed by what is
  in `a.result`. `FlowsNotMixedUp` needs two: a state that was used is in one place only
  (`LoginOnceInv`: Vault accepts it once), and what is in a channel was sent by a request to
  that flow's server (`SentInv`). `LostOnlyToRace`: an error, in the channel or taken, is one of
  a request that has shown its failure, or of a server that did not get the port and took no request at all
  (`ErrorInv`).
- **VaultFSProofs.** `IInv` has four parts for each process. `InOrder`: a handler works on the path
  that its process reads, in the order Getattr, Open, Read. `Recorded`: which audit records a request
  has at which place; `RecordsAreRight` follows: what is in the log is right. That a failure is in it
  is not a theorem, and not so (section 5). `NotAgain`: a process that has used up its late request has none whose check has
  passed, and gets none before it is allowed again. `CatInv`: what has been read so far of an undisturbed
  file is its first pieces, and nothing of a secret that fits into one Read. What FlattenSeq makes of
  pieces and injections is typed by induction over the length (`Induction`, from the library's theorem
  that the natural numbers are well founded).
- **NamespaceProofs.** `AllOrNone`: while loading, the domain of the mapper is that of the
  mappings done so far. `ResolutionIsUnique`: two prefixes of one path are comparable,
  so mappings that are apart do not both cover it. `ListedAreFound`, `FoundAreListed` and
  `MappingsReachable` compare two answers that were given at different times; `FreshInv` makes them
  comparable: a listing or an answer since which nothing has changed is one that the operation
  would give now. What is left is about operators only: each way an entry gets into a listing (mapping, virtual
  directory, real directory, Vault) against each way Getattr finds it. Of the entries of a real directory that takes
  a case of its own: Getattr finds what os.Stat says, the listing has what lstat says, and the two are one
  unless the entry is a link.
- **HashiCorpClientProofs.** `CallInv` ties the places of a call to what Vault has shown since it
  began: it has seen the present state, a table it works on was Vault's table, and a PathExists that has come to
  its second request has seen the path without entries or has failed in its first one. `EndInv` is the lemma for
  a call that ends, with an answer or with an error in whose text the words are or are not. One lemma per
  request; a change of Vault only adds to what calls have seen.
- **BuilderProofs.** `MetInv`: of two builds under way each has met the other, which makes the
  exceptions of the properties usable. `LeftInv`: whatever is in a shared directory has a build that
  will remove it, or its write failed half way. It is inductive only since it speaks of some build that
  uses the directory, not of the one that wrote the file: of two builds in one directory either removes
  the files of both. `PolicyInv` and `ResultInv` follow the policy, and the binary, through one
  build that met no other one of its directory, or of its output; a lemma each for the step of the build itself
  and of another build (`PolicyOwn`, `PolicyOthers`, `ResultOwn`, `ResultOthers`).
- **PolicyProofs.** All safety properties of the run. That a decision is not older than
  its call is not inductive: one has to know that whoever loads holds the lock alone
  (`LockInv`), that what it has read is ahead of the query it will replace and of its own call
  (`AheadInv`, which needs `QueryInv`: the query is never newer than the files), and that the
  query is ahead of every Evaluate that is under way (`FloorInv`). `StageInv` keeps the start-up apart
  from the requests; `StartInv` says that what was validated compiles, so a second
  load that fails has met something else.
- **StartupProofs.** The safety properties of the run. `WireInv`: until the callback is
  installed, no more time has passed than the Ping is given, so the loop is still in its
  first sleep. `MountInv`: as long as Mount waits, a mount that has failed did so at this
  very instant or within the wait. `FilesInv`: the embedded policies are on disk from
  their extraction until the mount is gone.

**Model-checked only.** Liveness (`FlowsEnd`, `StopEndsLoop`, `CallsReturn`,
`SignalEndsProgram`), which is beyond this prover, and the three violations.

## 5. Where code and documentation differ

Each of the three violation runs shows one (`findings` in `PROJECT.json`). Others that were met
while modelling, that the modules have as the code does, and that have no run:

- cache.go:78, 92, 108, 125: every error is answered from the cache, also a refusal and the
  404 of a deleted secret; README.md:164 says "stale data is only served when the backend
  is unreachable".
- authenticator.go:125: Authenticate with the token method ignores the error of its lookup,
  so one lost renewal followed by one lost lookup ends the loop while the token is valid
  (README.md:113: "Tokens are automatically renewed in the background").
- authenticator.go:308: the page says "Authentication Successful" for a flow that has timed
  out, or has taken the error of another request, while the code was exchanged.
- authenticator.go:636: a re-authentication does not call the callback of SetOnTokenRenewed.
- pathmapper.go:359: of a mapping of "/" the contents are listed and not found
  (docs/PATH_MAPPING.md:43: "all contents will be accessible recursively").
- vaultfs.go:383 (and 332, 379, 523, 552, 617, 665, 679, 708): a handler that fails after the access check
  writes no audit record (docs/PROCESS_MONITORING.md:9: "Log all operations to a file for compliance", 49: "Log
  all access attempts (successful and denied) to a file"; README.md:15). So `OneRecordPerAnswer` says that the
  records there are right, not that there is one for every answer.
- vaultfs.go:431: Readdir records SUCCESS before it has listed anything
  (docs/PROCESS_MONITORING.md:62).
- vaultfs.go:393: the size of a secret is always 4096; a longer secret is cut off
  by the kernel (README.md:130).
- vaultfs.go:347: if an injection fails in Getattr, the size is that of the file on disk,
  and a later Read with the injection is cut at it (docs/PATH_MAPPING.md:184).
- vaultfs.go:607: Open of a mapped file succeeds when the file is gone.
- authenticator.go:617: the sleep has a floor of ten seconds, so a lease of less than
  that expires first (comment at line 569).
- authenticator.go:611: the loop ends by itself and leaves `renewing` set; a later
  StartRenewal does nothing.
- authenticator.go:261: the state is extracted "for validation" and `expectedState` is
  never compared.
- pathmapper.go:513: a listing takes the kind of an entry from the entry itself, Getattr that of what it
  leads to (docs/PATH_MAPPING.md:251: "Symlinks are followed"). In a mapped directory a link to a directory is
  listed as a file and found as a directory, and one that leads nowhere is listed and not found.
- pathmapper.go:152: whether a mapping is a directory is looked up once, at loading.
- pathmapper.go:352: of two nested directory mappings a path is resolved by either.
- hashicorp.go:347: PathExists forgets the error of its List; with a 404 of its Read, a directory is reported
  missing, without an error (pkg/vault/interface.go:70-72: "exists: true if the path exists, false
  otherwise", "err: any error encountered during the check"), and CachingClient stores that answer.
- hashicorp.go:357: an error of its Read counts as "not there" if its text has "404" or "not found" in it,
  and the text quotes status and body of a refusal (304-306), the URL, and addresses with their ports.
- hashicorp.go:341: a mount without secrets is listed at the root and not found.
- hashicorp.go:48: "supports both KV v1 and KV v2 secret engines"; all requests are those of
  version 2 (lines 376-386).
- builder.go:139: EmbedPolicyFromURL without EmbedPolicyFiles makes the path of the temporary file
  the default of the binary, and the clean-up removes that file (line 530;
  docs/URL_POLICY_GUIDE.md:51-52).
- builder.go:597: a path without policies, to be embedded, gives a binary without any policy.
- builder.go:375: the name of an archive is cut at the last dot, so on Linux the archives of all
  platforms and tags of 1.0.0, and of 1.0.1, are one file.
- cmd/builder/main.go:307: a build with an output directory of its own cannot be downloaded, or
  an older file of its name is.
- builder.go:522: of two builds that download a policy at the same time one may embed the
  policy of the other, or fail because the other has removed it.
- vaultfs.go:225: "Still running → mount is alive and serving requests"; a mount that fails
  after the five seconds, or ends, is noticed by nobody.
- config.go:76, fs.go:33, main.go:157: log.Fatal after the policies were extracted, and a signal
  before signal.Notify, leave the directory with the policies behind, as does os.RemoveAll when it fails (main.go:137).

## 6. Not modelled

The adapters for AWS, GCP and Azure (stubs that return errors) and the registry (filled
once); LDAP (one request and its answer); process information, logging and
parsing of flags (data and output without control); the builder's web page (one form, one
user), and the handlers of its server that keep nothing (handleValidate, handleHealth, the
static pages). Ping and SetToken of CachingClient (delegation). `reverseMap` and the getters of PathMapper
that no handler calls. Case-insensitive paths on Windows. A policy that is a zip file is, for
the builder, a directory. `docs`, installers, signing.

What the modules leave out of each other: Startup has the renewal without the lease (TokenRenewal has it)
and the policies as one step that may fail (Policy has it); VaultFS takes PathExists as
one call (HashiCorpClient has its two requests).

## 7. Plan

1. *Proofs.* What stays true of StopReachesSleepers with several controllers. That the renewal of Startup is one of
   TokenRenewal's. A contract of HashiCorpClient (an answer was true at an instant of its call),
   which the client implements and Namespace and CachingClient assume.
2. *Composition.* HashiCorpClient under Namespace: what a listing and a Getattr make of a
   PathExists that saw two states of Vault.
