------------------------------ MODULE VaultFS ------------------------------
(***************************************************************************)
(* pkg/filesystem/vaultfs.go: the FUSE handlers Getattr, Open, Read and    *)
(* Readdir.                                                                *)
(*                                                                         *)
(* Procs are processes that use the mount; each has at most one request in *)
(* a handler.  A handler checks the access, asks the Vault client or the   *)
(* path mapper, writes an audit record and replies; the checks and every   *)
(* call to the outside are steps of their own, because nothing is locked   *)
(* between them and secrets, files and policy decisions change meanwhile.  *)
(*                                                                         *)
(* A process that wants the contents of a file does what the kernel makes  *)
(* of cat: Getattr, Open, then Reads of at most Buffer pieces until a      *)
(* short read or until the size that Getattr reported.  The content of a   *)
(* file is a sequence of pieces, a piece of a Vault secret is one field.   *)
(***************************************************************************)
EXTENDS Integers, Sequences, FiniteSets, SequencesExt

CONSTANTS
    Procs,        \* processes that use the mount
    VaultPaths,   \* paths answered by the Vault client
    FilePaths,    \* mapped paths without injections
    InjectedPaths,\* mapped paths with secret injections
    Injections,   \* the Vault paths of the injections of each injected path
    InText,       \* the placeholders that are in each version of such a file
    FieldCount,   \* the number of fields, or the length of the value that is
                  \* injected, in each version of a secret
    FileLength,   \* pieces of a file without injections
    Buffer,       \* pieces one Read may return
    Placeholder,  \* the size Getattr reports for a secret, 4096 bytes
    MaxVersion,   \* bound: versions of a secret or of a file
    MaxDecisions  \* bound: changes of the access decision

MappedPaths == FilePaths \cup InjectedPaths
Paths == VaultPaths \cup MappedPaths
Versions == 1 .. MaxVersion

ASSUME ConstantsAssumption ==
    /\ Injections \in [InjectedPaths -> Seq(VaultPaths)]
    /\ InText \in [Versions -> SUBSET Nat]
    /\ FieldCount \in [Versions -> Nat \ {0}]
    /\ FileLength \in Nat \ {0}
    /\ Buffer \in Nat \ {0}
    /\ Placeholder \in Nat
    /\ MaxVersion \in Nat \ {0}
    /\ MaxDecisions \in Nat
    /\ VaultPaths \cap MappedPaths = {} /\ FilePaths \cap InjectedPaths = {}

VARIABLES
    vault,      \* what Vault holds at each path
    disk,       \* the real file behind each mapped path
    allowed,    \* the processes that checkAccess lets through now
    decisions,  \* how often that has changed
    req,        \* the request of each process, or its last one
    cat,        \* the file each process is reading
    late        \* history: requests of a process granted since it was last
                \* let through, counted while it is not

vars == <<vault, disk, allowed, decisions, req, cat, late>>

-----------------------------------------------------------------------------
(* Types *)

Ops == {"GETATTR", "OPEN", "READ", "READDIR"}
Codes == {"none", "OK", "EACCES", "ENOENT", "EIO"}
Pieces == [from : {"secret", "file"}, ver : Versions, part : Nat]

TypeOK ==
    /\ vault \in [VaultPaths -> [kind : {"file", "dir", "absent"}, ver : Versions]]
    /\ disk \in [MappedPaths -> [kind : {"file", "dir", "absent"}, ver : Versions]]
    /\ allowed \subseteq Procs
    /\ decisions \in 0 .. MaxDecisions
    /\ \A p \in Procs :
          /\ req[p].pc \in {"idle", "check", "allowed", "sized", "inject", "replied"}
          /\ req[p].op \in Ops
          /\ req[p].path \in Paths
          /\ req[p].text \in Seq(Pieces)
          /\ req[p].done \in Nat
          /\ req[p].code \in Codes
          /\ req[p].count \in Nat
          /\ req[p].audit \in Seq({"SUCCESS", "DENIED"})
          /\ cat[p].state \in {"none", "stat", "open", "eof"}
          /\ cat[p].path \in Paths
          /\ cat[p].size \in Nat
          /\ cat[p].text \in Seq(Pieces)
          /\ cat[p].undisturbed \in BOOLEAN
          /\ late[p] \in Nat

-----------------------------------------------------------------------------
(* Contents *)

Piece(from, v, i) == [from |-> from, ver |-> v, part |-> i]

\* formatSecretData ranges over a Go map: every call may order the fields anew.
FieldOrders(v) == SetToSeqs(1 .. FieldCount[v])

Formatted(v, order) == [i \in 1 .. Len(order) |-> Piece("secret", v, order[i])]

\* A file on disk; that of an injected path has one piece per injection, which is
\* its placeholder or, where that is not in the text, plain text (part 0).
RawText(path, v) ==
    [i \in 1 .. (IF path \in InjectedPaths THEN Len(Injections[path]) ELSE FileLength)
       |-> Piece("file", v, IF path \in InjectedPaths /\ i \notin InText[v] THEN 0 ELSE i)]

IsPlaceholder(piece, i) == piece.from = "file" /\ piece.part = i

Inject(text, i, v) ==
    LET value == Formatted(v, [k \in 1 .. FieldCount[v] |-> k])
    IN  FlattenSeq([j \in 1 .. Len(text) |->
                      IF IsPlaceholder(text[j], i) THEN value ELSE <<text[j]>>])

-----------------------------------------------------------------------------
NoCat(path) == [state |-> "none", path |-> path, size |-> 0, text |-> <<>>,
                undisturbed |-> TRUE]

Init ==
    /\ vault = [s \in VaultPaths |-> [kind |-> "file", ver |-> 1]]
    /\ disk = [f \in MappedPaths |-> [kind |-> "file", ver |-> 1]]
    /\ allowed = Procs
    /\ decisions = 0
    /\ \E path \in Paths :
          /\ req = [p \in Procs |-> [pc |-> "idle", op |-> "READDIR", path |-> path,
                                     text |-> <<>>, done |-> 0, code |-> "none",
                                     count |-> 0, audit |-> <<>>]]
          /\ cat = [p \in Procs |-> NoCat(path)]
    /\ late = [p \in Procs |-> 0]

-----------------------------------------------------------------------------
(* The environment *)

\* The processes in the middle of a file that a change touches.
Disturb(paths) ==
    cat' = [p \in Procs |->
              IF cat[p].path \in paths THEN [cat[p] EXCEPT !.undisturbed = FALSE] ELSE cat[p]]

\* Someone writes, deletes or replaces a secret, or the file behind a mapping.
SecretChanges(s) ==
    /\ vault[s].ver < MaxVersion
    /\ \E kind \in {"file", "dir", "absent"} :
          vault' = [vault EXCEPT ![s] = [kind |-> kind, ver |-> @.ver + 1]]
    /\ Disturb({s} \cup {path \in InjectedPaths : Contains(Injections[path], s)})
    /\ UNCHANGED <<disk, allowed, decisions, req, late>>

FileChanges(f) ==
    /\ disk[f].ver < MaxVersion
    /\ \E kind \in {"file", "dir", "absent"} :
          disk' = [disk EXCEPT ![f] = [kind |-> kind, ver |-> @.ver + 1]]
    /\ Disturb({f})
    /\ UNCHANGED <<vault, allowed, decisions, req, late>>

\* The outcome of checkAccess changes for a process: policies are reloaded, or
\* decide by the time of day.
DecisionChanges(p) ==
    /\ decisions < MaxDecisions
    /\ decisions' = decisions + 1
    /\ allowed' = IF p \in allowed THEN allowed \ {p} ELSE allowed \cup {p}
    /\ late' = [late EXCEPT ![p] = 0]
    /\ UNCHANGED <<vault, disk, req, cat>>

-----------------------------------------------------------------------------
(* Requests *)

Arrive(p, op, path) ==
    req' = [req EXCEPT ![p] = [pc |-> "check", op |-> op, path |-> path, text |-> <<>>,
                               done |-> 0, code |-> "none", count |-> 0, audit |-> <<>>]]

Free(p) == req[p].pc \in {"idle", "replied"}

\* ls
AskReaddir(p, path) ==
    /\ Free(p)
    /\ cat[p].state \in {"none", "eof"}
    /\ Arrive(p, "READDIR", path)
    /\ cat' = [cat EXCEPT ![p] = NoCat(path)]
    /\ UNCHANGED <<vault, disk, allowed, decisions, late>>

\* cat: the next request for the file that p reads.
AskGetattr(p, path) ==
    /\ Free(p)
    /\ cat[p].state \in {"none", "eof"}
    /\ Arrive(p, "GETATTR", path)
    /\ cat' = [cat EXCEPT ![p] = NoCat(path)]
    /\ UNCHANGED <<vault, disk, allowed, decisions, late>>

AskOpen(p) ==
    /\ Free(p)
    /\ cat[p].state = "stat"
    /\ Arrive(p, "OPEN", cat[p].path)
    /\ UNCHANGED <<vault, disk, allowed, decisions, late, cat>>

AskRead(p) ==
    /\ Free(p)
    /\ cat[p].state = "open"
    /\ Arrive(p, "READ", cat[p].path)
    /\ UNCHANGED <<vault, disk, allowed, decisions, late, cat>>

-----------------------------------------------------------------------------
(* Handlers *)

\* The handler returns code after it has written the audit records.
Reply(p, code, audit) ==
    /\ req' = [req EXCEPT ![p] = [req[p] EXCEPT !.pc = "replied", !.code = code,
                                                !.audit = @ \o audit, !.text = <<>>]]
    /\ late' = [late EXCEPT ![p] = IF code = "OK" /\ p \notin allowed THEN @ + 1 ELSE @]

\* What a process makes of an error, or of a directory: it gives up.
GiveUp(p) == cat' = [cat EXCEPT ![p] = NoCat(@.path)]

Handling(p, op) == req[p].pc = "allowed" /\ req[p].op = op

Outside == <<vault, disk, allowed, decisions>>

\* Mutant: the access is checked when a file is opened, as for a plain file system.
CheckAccessAtOpen(p) ==
    /\ req[p].pc = "check"
    /\ \/ /\ p \in allowed \/ req[p].op = "READ"
          /\ req' = [req EXCEPT ![p] =
                       [@ EXCEPT !.pc = "allowed",
                                 !.audit = IF req[p].op = "READDIR" THEN <<"SUCCESS">> ELSE <<>>]]
          /\ UNCHANGED <<cat, late>>
       \/ p \notin allowed /\ req[p].op # "READ" /\ Reply(p, "EACCES", <<"DENIED">>) /\ GiveUp(p)
    /\ UNCHANGED Outside

\* checkAccess, and the common head of the four handlers.  Readdir writes its
\* record of success here, before it has listed anything.
CheckAccess(p) ==
    /\ req[p].pc = "check"
    /\ \/ /\ p \in allowed
          /\ req' = [req EXCEPT ![p] =
                       [@ EXCEPT !.pc = "allowed",
                                 !.audit = IF req[p].op = "READDIR" THEN <<"SUCCESS">> ELSE <<>>]]
          /\ UNCHANGED <<cat, late>>
       \/ p \notin allowed /\ Reply(p, "EACCES", <<"DENIED">>) /\ GiveUp(p)
    /\ UNCHANGED Outside

\* The client may also fail, whatever Vault holds.
PathExists(s) == {vault[s].kind, "error"}

Stat(p, size) == cat' = [cat EXCEPT ![p] = [@ EXCEPT !.state = "stat", !.size = size]]

GetattrVault(p) ==
    /\ Handling(p, "GETATTR")
    /\ req[p].path \in VaultPaths
    /\ \E found \in PathExists(req[p].path) :
          \/ found = "file" /\ Reply(p, "OK", <<"SUCCESS">>) /\ Stat(p, Placeholder)
          \/ found = "dir" /\ Reply(p, "OK", <<"SUCCESS">>) /\ GiveUp(p)
          \/ found \in {"absent", "error"} /\ Reply(p, "ENOENT", <<>>) /\ GiveUp(p)
    /\ UNCHANGED Outside

\* The file is there and injections are to be applied to its text.
StartInjecting(p) ==
    /\ LET path == req[p].path
       IN  req' = [req EXCEPT ![p].pc = "inject", ![p].text = RawText(path, disk[path].ver)]
    /\ UNCHANGED <<cat, late>>

\* os.Stat: kind and size of the file.
GetattrMapped(p) ==
    /\ Handling(p, "GETATTR")
    /\ req[p].path \in MappedPaths
    /\ LET path == req[p].path
           file == disk[path]
       IN  \/ file.kind = "absent" /\ Reply(p, "ENOENT", <<>>) /\ GiveUp(p)
           \/ file.kind = "dir" /\ Reply(p, "OK", <<"SUCCESS">>) /\ GiveUp(p)
           \/ /\ file.kind = "file" /\ path \in FilePaths
              /\ Reply(p, "OK", <<"SUCCESS">>)
              /\ Stat(p, Len(RawText(path, file.ver)))
           \/ /\ file.kind = "file" /\ path \in InjectedPaths
              /\ req' = [req EXCEPT ![p].pc = "sized"]
              /\ UNCHANGED <<cat, late>>
    /\ UNCHANGED Outside

\* ReadMappedPath, for the size with the injections: the size of the stat stays
\* if there is no file any more.
GetattrContent(p) ==
    /\ req[p].pc = "sized"
    /\ \/ disk[req[p].path].kind = "file" /\ StartInjecting(p)
       \/ /\ disk[req[p].path].kind # "file"
          /\ Reply(p, "OK", <<"SUCCESS">>)
          /\ Stat(p, Len(Injections[req[p].path]))
    /\ UNCHANGED Outside

\* ApplyInjections reads the secrets one by one, each by a call of its own, unless
\* the text has no such placeholder.
ToInject(p) == req[p].pc = "inject" /\ req[p].done < Len(Injections[req[p].path])

NextSecret(p) == Injections[req[p].path][req[p].done + 1]

NextInText(p) == \E j \in DOMAIN req[p].text : IsPlaceholder(req[p].text[j], req[p].done + 1)

SkipInjection(p) ==
    /\ ToInject(p) /\ ~NextInText(p)
    /\ req' = [req EXCEPT ![p].done = @ + 1]
    /\ UNCHANGED <<vault, disk, allowed, decisions, cat, late>>

InjectSecret(p) ==
    /\ ToInject(p) /\ NextInText(p)
    /\ LET s == vault[NextSecret(p)]
       IN  /\ s.kind = "file"
           /\ req' = [req EXCEPT ![p].text = Inject(@, req[p].done + 1, s.ver), ![p].done = @ + 1]
    /\ UNCHANGED <<vault, disk, allowed, decisions, cat, late>>

\* Getattr falls back to the size on disk; Read fails.
InjectFails(p) ==
    /\ ToInject(p) /\ NextInText(p)
    /\ \/ /\ req[p].op = "GETATTR"
          /\ Reply(p, "OK", <<"SUCCESS">>)
          /\ Stat(p, Len(Injections[req[p].path]))
       \/ req[p].op = "READ" /\ Reply(p, "EIO", <<>>) /\ GiveUp(p)
    /\ UNCHANGED Outside

Injected(p, op) ==
    req[p].pc = "inject" /\ req[p].op = op /\ req[p].done = Len(Injections[req[p].path])

GetattrInjected(p) ==
    /\ Injected(p, "GETATTR")
    /\ Reply(p, "OK", <<"SUCCESS">>)
    /\ Stat(p, Len(req[p].text))
    /\ UNCHANGED Outside

OpenVault(p) ==
    /\ Handling(p, "OPEN")
    /\ req[p].path \in VaultPaths
    /\ \E found \in PathExists(req[p].path) :
          \/ /\ found = "file"
             /\ Reply(p, "OK", <<"SUCCESS">>)
             /\ cat' = [cat EXCEPT ![p].state = "open"]
          \/ found # "file" /\ Reply(p, "ENOENT", <<>>) /\ GiveUp(p)
    /\ UNCHANGED Outside

\* A mapped path opens without a look at the disk.
OpenMapped(p) ==
    /\ Handling(p, "OPEN")
    /\ req[p].path \in MappedPaths
    /\ Reply(p, "OK", <<"SUCCESS">>)
    /\ cat' = [cat EXCEPT ![p].state = "open"]
    /\ UNCHANGED Outside

\* Mutant: no look at an offset past the end.
CopiedUnchecked(content, ofst, want) ==
    LET rest == Len(content) - ofst IN IF rest < want THEN rest ELSE want

\* Mutant: the last piece is taken for the end.
CopiedShort(content, ofst, want) ==
    LET rest == Len(content) - ofst
    IN  IF ofst + 1 >= Len(content) THEN 0 ELSE IF rest < want THEN rest ELSE want

\* Read returns what content holds from the offset on, up to the length asked for;
\* nothing when the offset is past its end.
Copied(content, ofst, want) ==
    LET rest == Len(content) - ofst
    IN  IF ofst >= Len(content) THEN 0 ELSE IF rest < want THEN rest ELSE want

\* The offset is how much p has already; the kernel asks for no more than the size
\* it knows of and takes a short read for the end.
Deliver(p, content) ==
    LET ofst == Len(cat[p].text)
        want == IF cat[p].size - ofst < Buffer THEN cat[p].size - ofst ELSE Buffer
        n    == Copied(content, ofst, want)
    IN  /\ req' = [req EXCEPT ![p] = [@ EXCEPT !.pc = "replied", !.code = "OK", !.count = n,
                                               !.audit = <<"SUCCESS">>, !.text = <<>>]]
        /\ late' = [late EXCEPT ![p] = IF p \notin allowed THEN @ + 1 ELSE @]
        /\ cat' = [cat EXCEPT ![p] =
                     [cat[p] EXCEPT !.text = @ \o SubSeq(content, ofst + 1, ofst + n),
                                    !.state = IF n < Buffer \/ ofst + n = cat[p].size
                                              THEN "eof" ELSE "open"]]

\* Client.Read: the data of the current version, or an error.
ReadVault(p) ==
    /\ Handling(p, "READ")
    /\ req[p].path \in VaultPaths
    /\ LET s == vault[req[p].path]
       IN  \/ /\ s.kind = "file"
              /\ \E order \in FieldOrders(s.ver) : Deliver(p, Formatted(s.ver, order))
           \/ Reply(p, "EIO", <<>>) /\ GiveUp(p)
    /\ UNCHANGED Outside

ReadMapped(p) ==
    /\ Handling(p, "READ")
    /\ req[p].path \in MappedPaths
    /\ LET path == req[p].path
           file == disk[path]
       IN  \/ file.kind # "file" /\ Reply(p, "EIO", <<>>) /\ GiveUp(p)
           \/ file.kind = "file" /\ path \in FilePaths /\ Deliver(p, RawText(path, file.ver))
           \/ file.kind = "file" /\ path \in InjectedPaths /\ StartInjecting(p)
    /\ UNCHANGED Outside

ReadInjected(p) ==
    /\ Injected(p, "READ")
    /\ Deliver(p, req[p].text)
    /\ UNCHANGED Outside

\* Mutant: the record of success is written at the end, as the others do, as well.
ReaddirRecordedAgain(p) ==
    /\ Handling(p, "READDIR")
    /\ \/ /\ req[p].path \in VaultPaths
          /\ Reply(p, "OK", <<"SUCCESS">>) \/ Reply(p, "ENOENT", <<>>)
       \/ /\ req[p].path \in MappedPaths
          /\ IF disk[req[p].path].kind = "dir" THEN Reply(p, "OK", <<"SUCCESS">>)
                                               ELSE Reply(p, "ENOENT", <<>>)
    /\ UNCHANGED <<vault, disk, allowed, decisions, cat>>

\* Client.List gives entries or an error, also for what is not a directory;
\* ListMappedDirectory wants a directory on disk.
Readdir(p) ==
    /\ Handling(p, "READDIR")
    /\ \/ req[p].path \in VaultPaths /\ \E code \in {"OK", "ENOENT"} : Reply(p, code, <<>>)
       \/ /\ req[p].path \in MappedPaths
          /\ Reply(p, IF disk[req[p].path].kind = "dir" THEN "OK" ELSE "ENOENT", <<>>)
    /\ UNCHANGED <<vault, disk, allowed, decisions, cat>>

-----------------------------------------------------------------------------
Environment ==
    \/ \E s \in VaultPaths : SecretChanges(s)
    \/ \E f \in MappedPaths : FileChanges(f)
    \/ \E p \in Procs : DecisionChanges(p)

Ask(p) ==
    \/ \E path \in Paths : AskReaddir(p, path) \/ AskGetattr(p, path)
    \/ AskOpen(p) \/ AskRead(p)

Handle(p) ==
    \/ CheckAccess(p)
    \/ GetattrVault(p) \/ GetattrMapped(p) \/ GetattrContent(p) \/ GetattrInjected(p)
    \/ SkipInjection(p) \/ InjectSecret(p) \/ InjectFails(p)
    \/ OpenVault(p) \/ OpenMapped(p)
    \/ ReadVault(p) \/ ReadMapped(p) \/ ReadInjected(p)
    \/ Readdir(p)

Next == Environment \/ \E p \in Procs : Ask(p) \/ Handle(p)

Spec == Init /\ [][Next]_vars

-----------------------------------------------------------------------------
(* Properties *)

\* A process that loses its access gets at most one more request granted: the one
\* whose check had passed.  In particular a file that is open already gives it at
\* most one more Read, because every handler checks anew (vaultfs.go:301, 634).
RevocationTakesEffect == \A p \in Procs : late[p] <= 1

Replied(p) == req[p].pc = "replied"

\* The audit log can be trusted for what is in it, whichever branch of its handler
\* answers a request (vaultfs.go:318, 620, 712): DENIED stands for those that were
\* refused and for no other, what was granted is there as SUCCESS, and nothing is
\* there twice.  A request that fails after its check is not there, although
\* docs/PROCESS_MONITORING.md:49 says "Log all access attempts" (vaultfs.go:332, 383,
\* 617, 665, 708), but that of Readdir is, as SUCCESS (431).
OneRecordPerAnswer ==
    \A p \in Procs : Replied(p) =>
       /\ req[p].audit = <<"DENIED">> <=> req[p].code = "EACCES"
       /\ req[p].code = "OK" => req[p].audit = <<"SUCCESS">>
       /\ Len(req[p].audit) <= 1

\* One version of the secret, or of a file without injections, in full and each
\* piece once.
Whole(path, text) ==
    IF path \in VaultPaths
    THEN \E v \in Versions : \E order \in FieldOrders(v) : text = Formatted(v, order)
    ELSE \E v \in Versions : text = RawText(path, v)

CatIsWhole(p) == cat[p].state = "eof" => Whole(cat[p].path, cat[p].text)

\* A file that nobody changes while it is read arrives in full, however many Reads
\* it takes; a secret does if it fits into one Read and into the size that Getattr
\* gave out, also when it changes meanwhile (vaultfs.go:690, 720).
FitsOneRead == \A v \in Versions : FieldCount[v] < Buffer /\ FieldCount[v] < Placeholder

WholeReads ==
    \A p \in Procs :
       /\ cat[p].path \in VaultPaths /\ FitsOneRead => CatIsWhole(p)
       /\ cat[p].path \in FilePaths /\ cat[p].undisturbed => CatIsWhole(p)

\* What README.md:130 shows of cat: the fields of the secret, each with its value.
SecretReadsWhole ==
    \A p \in Procs : cat[p].path \in VaultPaths => CatIsWhole(p)

=============================================================================
