------------------------------ MODULE Builder ------------------------------
(***************************************************************************)
(* pkg/builder/builder.go, and the handlers of cmd/builder/main.go that    *)
(* call it: every request builds in a goroutine of its own, and nothing    *)
(* is locked.  Builds share three directories:                             *)
(*   work    policies/embedded-policy.rego, the policy that was downloaded *)
(*   source  _embedded_policies_gen.go, the file generated from policies   *)
(*   output  the binaries and archives, by name                            *)
(* A build is followed by what its user does with the result: create an    *)
(* archive, download the binary.                                           *)
(*                                                                         *)
(* The text of a policy is the build that downloaded it, or Local for the  *)
(* files at a local path.  A file is written in one step, except binaries. *)
(***************************************************************************)
EXTENDS Naturals

CONSTANTS
    Builds,      \* requests to /api/build and /api/build-stream
    Configs,     \* their bodies, a set of records, see ConfigAssumption
    Dirs,        \* directories
    DefaultOut,  \* outputDir of the server, where /api/download looks
    Series,      \* a version without what follows its last dot
    None,        \* no file, no policy
    Local        \* the policy files at a local path

\* policy: what DefaultPolicyPath is; filename is None unless it is overridden,
\* else a name without ".exe" that is not one BuildWithLog would make up.
ASSUME ConfigAssumption ==
    \A c \in Configs :
        /\ {c.work, c.source, c.out} \subseteq Dirs
        /\ c.policy \in {"none", "url", "local"}
        /\ {c.embedFromURL, c.embedFiles} \subseteq BOOLEAN
        /\ c.os \in {"linux", "darwin", "windows"}
        /\ c.version \in DOMAIN Series
        /\ {"filename", "tag"} \subseteq DOMAIN c
ASSUME NamesAssumption == None \notin Builds /\ Local \notin Builds /\ None # Local

VARIABLES
    policies,   \* work directory -> None, or the policy in its policies directory
    tempDirs,   \* the work directories that have a policies directory
    generated,  \* source directory -> None, or the policy in the generated file
    binaries,   \* <<output directory, name>> -> what is in the file
    archives,   \* <<output directory, name>> -> what is in the archive
    build,      \* where each build is
    met,        \* history: the builds under way at the same time as each one
    spilled     \* history: directories in which the write of a file has failed

vars == <<policies, tempDirs, generated, binaries, archives, build, met, spilled>>

-----------------------------------------------------------------------------
(* Names of output files *)

\* Mutant: the build tag is not in the name.
NameWithoutTag(c) ==
    IF c.filename # None THEN <<c.filename, c.os = "windows">>
                         ELSE <<c.version, c.os>>

\* safeguard-<version>-<os>-<arch>-<tag>, or OutputFilename; ".exe" on Windows.
\* Versions and tags in which a "-" makes two joins alike are not told apart.
BinaryName(c) ==
    IF c.filename # None THEN <<c.filename, c.os = "windows">>
                         ELSE <<c.version, c.os, c.tag>>

Output(c) == <<c.out, BinaryName(c)>>

\* What filepath.Ext takes for an extension is cut off: ".exe", but elsewhere all
\* that follows the last dot of the version.
ArchiveName(c) ==
    IF c.filename # None \/ c.os = "windows" THEN BinaryName(c) ELSE <<Series[c.version]>>

Archive(c) == <<c.out, ArchiveName(c)>>

Outputs == {Output(c) : c \in Configs}
Archives == {Archive(c) : c \in Configs}

Downloads(c) == c.embedFromURL /\ c.policy = "url"

-----------------------------------------------------------------------------
(* Types *)

Policies == Builds \cup {Local, None}

Absent == [by |-> None, whole |-> FALSE, policy |-> None, path |-> "none"]

\* A binary: whose it is, whether it is complete, the policy compiled into it
\* and the policy path that it has as a default.
Contents == [by : Builds, whole : BOOLEAN, policy : Policies,
             path : {"none", "url", "local", "temp"}] \cup {Absent}

Stages == {"idle", "start", "fetched", "dirmade", "embed", "generate", "build",
           "copying", "built", "summed", "clean", "done", "downloading", "ended"}

\* path is config.DefaultPolicyPath, text the policy that was read from it; the
\* two deferred clean-ups; lost: the downloaded policy was not there any more.
States == [pc : Stages, cfg : Configs, path : {"none", "url", "local", "temp"},
           text : Policies, removeGenerated : BOOLEAN, removePolicies : BOOLEAN,
           ok : BOOLEAN, lost : BOOLEAN, checksum : Contents, size : Contents,
           archived : Contents, received : Contents]

TypeOK ==
    /\ policies \in [Dirs -> Policies]
    /\ tempDirs \subseteq Dirs
    /\ generated \in [Dirs -> Policies]
    /\ binaries \in [Outputs -> Contents]
    /\ archives \in [Archives -> Contents]
    /\ build \in [Builds -> States]
    /\ met \in [Builds -> SUBSET Builds]
    /\ spilled \subseteq Dirs
    /\ \A b \in Builds : build[b].pc = "downloading" => build[b].received # Absent

Fresh(c) == [pc |-> "start", cfg |-> c, path |-> c.policy, text |-> None,
             removeGenerated |-> FALSE, removePolicies |-> FALSE, ok |-> FALSE,
             lost |-> FALSE, checksum |-> Absent, size |-> Absent,
             archived |-> Absent, received |-> Absent]

Init ==
    /\ policies = [d \in Dirs |-> None]
    /\ tempDirs = {}
    /\ generated = [d \in Dirs |-> None]
    /\ binaries = [o \in Outputs |-> Absent]
    /\ archives = [a \in Archives |-> Absent]
    /\ build \in [Builds -> {[Fresh(c) EXCEPT !.pc = "idle"] : c \in Configs}]
    /\ met = [b \in Builds |-> {}]
    /\ spilled = {}

-----------------------------------------------------------------------------
Cfg(b) == build[b].cfg

At(b, pc) == build[b].pc = pc

Active(b) == build[b].pc \notin {"idle", "ended"}

\* Goto(b, "x") as a conjunct, or the whole new state of the build.
Becomes(b, state) == build' = [build EXCEPT ![b] = state]
Goto(b, pc) == Becomes(b, [build[b] EXCEPT !.pc = pc])

Policyfiles == <<policies, tempDirs>>
Outputfiles == <<binaries, archives>>
History == <<met, spilled>>

\* handleBuild, handleBuildStream: the request is decoded and its directories
\* are made.
Begin(b) ==
    /\ At(b, "idle")
    /\ Goto(b, "start")
    /\ LET others == {a \in Builds : Active(a)}
       IN  met' = [a \in Builds |-> IF a = b THEN others
                                    ELSE IF a \in others THEN met[a] \cup {b} ELSE met[a]]
    /\ UNCHANGED <<Policyfiles, generated, Outputfiles, spilled>>

\* Mutant: the clean-ups are called at the end of the build and not deferred.
FailsUncleaned(b) ==
    /\ build[b].pc \in {"start", "fetched", "embed", "generate", "build", "built", "summed"}
    /\ Goto(b, "ended")
    /\ UNCHANGED <<Policyfiles, generated, Outputfiles, History>>

\* The error returns: no directory, no policy at the URL, no policies
\* directory, no policy at the path, go build fails, the binary cannot be read.
Fails(b) ==
    /\ build[b].pc \in {"start", "fetched", "embed", "generate", "build", "built", "summed"}
    /\ Goto(b, "clean")
    /\ UNCHANGED <<Policyfiles, generated, Outputfiles, History>>

-----------------------------------------------------------------------------
(* downloadAndSavePolicy *)

Fetch(b) ==
    /\ At(b, "start")
    /\ Goto(b, IF Downloads(Cfg(b)) THEN "fetched" ELSE "embed")
    /\ UNCHANGED <<Policyfiles, generated, Outputfiles, History>>

MakeTempDir(b) ==
    /\ At(b, "fetched")
    /\ tempDirs' = tempDirs \cup {Cfg(b).work}
    /\ Goto(b, "dirmade")
    /\ UNCHANGED <<policies, generated, Outputfiles, History>>

\* Mutant: the clean-up runs when the download is over.
WritePolicyAndCleanUp(b) ==
    /\ At(b, "dirmade")
    /\ Cfg(b).work \in tempDirs
    /\ policies' = [policies EXCEPT ![Cfg(b).work] = None]
    /\ tempDirs' = tempDirs \ {Cfg(b).work}
    /\ Becomes(b, [build[b] EXCEPT !.pc = "embed", !.path = "temp"])
    /\ UNCHANGED <<generated, Outputfiles, History>>

\* The temporary file replaces the URL; its clean-up is deferred.
WritePolicy(b) ==
    /\ At(b, "dirmade")
    /\ Cfg(b).work \in tempDirs
    /\ policies' = [policies EXCEPT ![Cfg(b).work] = b]
    /\ Becomes(b, [build[b] EXCEPT !.pc = "embed", !.path = "temp", !.removePolicies = TRUE])
    /\ UNCHANGED <<tempDirs, generated, Outputfiles, History>>

\* The directory was removed by the clean-up of another build.
PolicyDirGone(b) ==
    /\ At(b, "dirmade")
    /\ Cfg(b).work \notin tempDirs
    /\ Becomes(b, [build[b] EXCEPT !.pc = "clean", !.lost = TRUE])
    /\ UNCHANGED <<Policyfiles, generated, Outputfiles, History>>

\* The disk is full: no clean-up is deferred yet, the directory stays.
PolicyNotWritten(b) ==
    /\ At(b, "dirmade")
    /\ spilled' = spilled \cup {Cfg(b).work}
    /\ Goto(b, "clean")
    /\ UNCHANGED <<Policyfiles, generated, Outputfiles, met>>

-----------------------------------------------------------------------------
(* generateEmbeddedPolicies *)

Embeds(b) == Cfg(b).embedFiles /\ build[b].path \in {"local", "temp"}

NothingToEmbed(b) ==
    /\ At(b, "embed")
    /\ ~Embeds(b)
    /\ Goto(b, "build")
    /\ UNCHANGED <<Policyfiles, generated, Outputfiles, History>>

\* The policy files are read; at a local path there may be none (*.rego).
ReadPolicies(b) ==
    /\ At(b, "embed")
    /\ Embeds(b)
    /\ \E text \in IF build[b].path = "local" THEN {Local, None}
                                              ELSE {policies[Cfg(b).work]} \ {None} :
          Becomes(b, [build[b] EXCEPT !.pc = "generate", !.text = text])
    /\ UNCHANGED <<Policyfiles, generated, Outputfiles, History>>

\* The temporary file was removed by the clean-up of another build.
PolicyGone(b) ==
    /\ At(b, "embed")
    /\ Embeds(b)
    /\ build[b].path = "temp"
    /\ policies[Cfg(b).work] = None
    /\ Becomes(b, [build[b] EXCEPT !.pc = "clean", !.lost = TRUE])
    /\ UNCHANGED <<Policyfiles, generated, Outputfiles, History>>

\* The Go source is written, unless there were no policies; in both cases the
\* binary gets no policy path.
Generate(b) ==
    /\ At(b, "generate")
    /\ LET some == build[b].text # None
       IN  /\ generated' = [generated EXCEPT ![Cfg(b).source] = IF some THEN build[b].text ELSE @]
           /\ Becomes(b, [build[b] EXCEPT !.pc = "build", !.path = "none",
                                          !.removeGenerated = some])
    /\ UNCHANGED <<Policyfiles, Outputfiles, History>>

\* The disk is full: part of the file is there, without a clean-up.
NotGenerated(b) ==
    /\ At(b, "generate")
    /\ build[b].text # None
    /\ generated' = [generated EXCEPT ![Cfg(b).source] = build[b].text]
    /\ spilled' = spilled \cup {Cfg(b).source}
    /\ Goto(b, "clean")
    /\ UNCHANGED <<Policyfiles, Outputfiles, met>>

-----------------------------------------------------------------------------
(* go build *)

GeneratedFile == [first |-> "_", rest |-> "embedded_policies_gen.go"]

\* go build ignores the files of a package whose names begin so.
Ignored(file) == file.first \in {"_", "."}

\* The policies that go build compiles into the binary.
CompiledIn(source) == IF Ignored(GeneratedFile) THEN None ELSE generated[source]

Linked(b) == [by |-> b, whole |-> TRUE, policy |-> CompiledIn(Cfg(b).source),
              path |-> build[b].path]

\* go build renames what it has linked ...
Rename(b) ==
    /\ At(b, "build")
    /\ binaries' = [binaries EXCEPT ![Output(Cfg(b))] = Linked(b)]
    /\ Goto(b, "built")
    /\ UNCHANGED <<Policyfiles, generated, archives, History>>

\* A download that has the file open reads what is written into it.
Torn(o) ==
    [b \in Builds |->
        IF At(b, "downloading") /\ <<DefaultOut, BinaryName(Cfg(b))>> = o
        THEN [build[b] EXCEPT !.received.whole = FALSE] ELSE build[b]]

\* ... or copies it over the output file, where it cannot rename.
StartCopy(b) ==
    /\ At(b, "build")
    /\ binaries' = [binaries EXCEPT ![Output(Cfg(b))] = [Linked(b) EXCEPT !.whole = FALSE]]
    /\ build' = [Torn(Output(Cfg(b))) EXCEPT ![b].pc = "copying"]
    /\ UNCHANGED <<Policyfiles, generated, archives, History>>

\* When another build has written the file since, or is writing it, it may end as
\* either of the two or as a mixture.
FinishCopy(b) ==
    /\ At(b, "copying")
    /\ LET o == Output(Cfg(b))
           alone == /\ binaries[o].by = b
                    /\ \A a \in Builds \ {b} : ~(At(a, "copying") /\ Output(Cfg(a)) = o)
       IN  \E file \in IF alone THEN {Linked(b)}
                       ELSE {Linked(b), binaries[o], [binaries[o] EXCEPT !.whole = FALSE]} :
              binaries' = [binaries EXCEPT ![o] = file]
    /\ Goto(b, "built")
    /\ UNCHANGED <<Policyfiles, generated, archives, History>>

-----------------------------------------------------------------------------
(* The result and the deferred clean-ups *)

\* calculateChecksum(outputPath)
Checksum(b) ==
    /\ At(b, "built")
    /\ Becomes(b, [build[b] EXCEPT !.pc = "summed", !.checksum = binaries[Output(Cfg(b))]])
    /\ UNCHANGED <<Policyfiles, generated, Outputfiles, History>>

\* os.Stat(outputPath), and the result.
Stat(b) ==
    /\ At(b, "summed")
    /\ Becomes(b, [build[b] EXCEPT !.pc = "clean", !.ok = TRUE, !.size = binaries[Output(Cfg(b))]])
    /\ UNCHANGED <<Policyfiles, generated, Outputfiles, History>>

\* Deferred calls run in the reverse order.
RemoveGenerated(b) ==
    /\ At(b, "clean")
    /\ build[b].removeGenerated
    /\ generated' = [generated EXCEPT ![Cfg(b).source] = None]
    /\ Becomes(b, [build[b] EXCEPT !.removeGenerated = FALSE])
    /\ UNCHANGED <<Policyfiles, Outputfiles, History>>

RemovePolicies(b) ==
    /\ At(b, "clean")
    /\ ~build[b].removeGenerated
    /\ build[b].removePolicies
    /\ policies' = [policies EXCEPT ![Cfg(b).work] = None]
    /\ tempDirs' = tempDirs \ {Cfg(b).work}
    /\ Becomes(b, [build[b] EXCEPT !.removePolicies = FALSE])
    /\ UNCHANGED <<generated, Outputfiles, History>>

\* The response, or the last event of the stream: "done" or "error".
Respond(b) ==
    /\ At(b, "clean")
    /\ ~build[b].removeGenerated /\ ~build[b].removePolicies
    /\ Goto(b, IF build[b].ok THEN "done" ELSE "ended")
    /\ UNCHANGED <<Policyfiles, generated, Outputfiles, History>>

-----------------------------------------------------------------------------
(* What users do with a result *)

\* CreateArchive
CreateArchive(b) ==
    /\ At(b, "done")
    /\ build[b].archived = Absent
    /\ archives' = [archives EXCEPT ![Archive(Cfg(b))] = binaries[Output(Cfg(b))]]
    /\ Becomes(b, [build[b] EXCEPT !.archived = binaries[Output(Cfg(b))]])
    /\ UNCHANGED <<Policyfiles, generated, binaries, History>>

\* The file of that name in the server's own output directory.
Served(b) ==
    LET o == <<DefaultOut, BinaryName(Cfg(b))>>
    IN  IF o \in Outputs THEN binaries[o] ELSE Absent

\* Mutant: the file is not looked for before it is opened.
OpenDownloadUnchecked(b) ==
    /\ At(b, "done")
    /\ Becomes(b, [build[b] EXCEPT !.pc = "downloading", !.received = Served(b)])
    /\ UNCHANGED <<Policyfiles, generated, Outputfiles, History>>

\* handleDownload: 404, or the file is open and its length is announced.
OpenDownload(b) ==
    /\ At(b, "done")
    /\ Becomes(b, [build[b] EXCEPT !.pc = IF Served(b) = Absent THEN "ended" ELSE "downloading",
                                   !.received = Served(b)])
    /\ UNCHANGED <<Policyfiles, generated, Outputfiles, History>>

\* io.Copy has ended.
EndDownload(b) ==
    /\ At(b, "downloading")
    /\ Goto(b, "ended")
    /\ UNCHANGED <<Policyfiles, generated, Outputfiles, History>>

-----------------------------------------------------------------------------
Step(b) ==
    \/ Begin(b) \/ Fails(b)
    \/ Fetch(b) \/ MakeTempDir(b) \/ WritePolicy(b) \/ PolicyDirGone(b) \/ PolicyNotWritten(b)
    \/ NothingToEmbed(b) \/ ReadPolicies(b) \/ PolicyGone(b) \/ Generate(b) \/ NotGenerated(b)
    \/ Rename(b) \/ StartCopy(b) \/ FinishCopy(b)
    \/ Checksum(b) \/ Stat(b)
    \/ RemoveGenerated(b) \/ RemovePolicies(b) \/ Respond(b)
    \/ CreateArchive(b) \/ OpenDownload(b) \/ EndDownload(b)

Next == \E b \in Builds : Step(b)

Spec == Init /\ [][Next]_vars

-----------------------------------------------------------------------------
(* Properties *)

Building(b) == build[b].pc \notin {"idle", "done", "downloading", "ended"}

\* Two requests for one file: the same output directory, and the same name given
\* with or without ".exe", or the same version, platform and tag.
SameOutput(c, d) ==
    /\ c.out = d.out
    /\ c.filename = d.filename
    /\ IF c.filename # None THEN c.os = "windows" <=> d.os = "windows"
                            ELSE c.os = d.os /\ c.version = d.version /\ c.tag = d.tag

MetSameOutput(b) == \E a \in met[b] : SameOutput(Cfg(a), Cfg(b))

\* When no build is running, every temporary policy and every generated file is
\* gone, whatever failed and whichever builds ran at the same time: the deferred
\* clean-ups (builder.go:149, 164).  Only a write that fails half way leaves
\* something (builder.go:524, 611).
NothingLeftBehind ==
    (\A b \in Builds : ~Building(b)) =>
        \A d \in Dirs \ spilled :
            d \notin tempDirs /\ policies[d] = None /\ generated[d] = None

\* The checksum and the size that a build reports, what is put in its archive (builder.go:251, 257,
\* 374), and what the name in its result downloads (cmd/builder/main.go:298-350), are those of its
\* own, complete binary, unless another build of the same file ran in the meantime:
\* version, platform, tag, file name and output directory keep builds apart.  Only a
\* binary in the server's own output directory can be downloaded.
ResultsAreOwn ==
    \A b \in Builds : ~MetSameOutput(b) =>
        /\ \A file \in {build[b].checksum, build[b].size, build[b].archived} :
              file # Absent => file.by = b /\ file.whole
        /\ (build[b].pc = "ended" /\ build[b].ok /\ Cfg(b).out = DefaultOut)
              => build[b].received = build[b].checksum

\* A build embeds the policy that it downloaded, and finds it (builder.go:522, 530,
\* 543), unless a build that downloads into the same work directory ran at the same
\* time.
PoliciesAreOwn ==
    \A b \in Builds :
        (build[b].lost \/ (Downloads(Cfg(b)) /\ build[b].text \notin {None, b}))
            => \E a \in met[b] : Downloads(Cfg(a)) /\ Cfg(a).work = Cfg(b).work

\* docs/URL_POLICY_GUIDE.md:97: "The generated file is compiled into the binary", and
\* line 52, of a policy embedded from a URL: "The binary includes the policy content
\* (not the URL)".  A build that found the policies it was asked to embed, and succeeded
\* without meeting another, has them in its binary.
EmbeddedPolicyIsThere ==
    \A b \in Builds :
        (build[b].ok /\ met[b] = {} /\ (build[b].text # None \/ Downloads(Cfg(b))))
            => build[b].checksum.policy # None

=============================================================================
