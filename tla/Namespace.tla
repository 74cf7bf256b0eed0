----------------------------- MODULE Namespace -----------------------------
(***************************************************************************)
(* pkg/filesystem/pathmapper.go and the parts of vaultfs.go that decide    *)
(* what a path names: the mappings of a config file are loaded one by one  *)
(* (LoadMappings), a path is answered from a mapping, from a virtual       *)
(* directory that leads to one, or from Vault (Getattr), and a directory   *)
(* lists the entries of all three (Readdir).                               *)
(*                                                                         *)
(* A path is the sequence of its components, as normalizePath leaves it;   *)
(* the root is <<>>.  Go's range over the map of mappings takes them in    *)
(* any order, so an operation has a set of possible answers.  What the     *)
(* kernel was last told, one listing and one Getattr, is kept until the    *)
(* disk or Vault changes; neither is written by the filesystem itself.     *)
(* Access checks, sizes and contents are in VaultFS.                       *)
(***************************************************************************)
EXTENDS Naturals, Sequences, FiniteSets, SequencesExt

CONSTANTS
    Paths,      \* the paths a process asks for
    Configs,    \* config files: sequences of [virtual, real]
    RealPaths,  \* the places on disk
    LinkPlaces, \* the ones of them where there may be a link
    Mounts,     \* the mounts of Vault
    Secrets     \* the paths of its secrets

Config == UNION {{cfg[i] : i \in DOMAIN cfg} : cfg \in Configs}
EntryNames == {p[Len(p)] : p \in (Paths \cup RealPaths \cup Secrets) \ {<<>>}}
Kinds == {"none", "file", "dir"}

\* A link to a directory and one that leads nowhere; one to a file is as a file.
Links == {"dirlink", "deadlink"}

KindsAt(real) == IF real \in LinkPlaces THEN Kinds \cup Links ELSE Kinds

ASSUME NamespaceAssumption ==
    /\ <<>> \in Paths
    /\ <<>> \notin RealPaths \cup Secrets
    /\ {c.real : c \in Config} \subseteq RealPaths
    /\ {c.virtual : c \in Config} \subseteq Paths
    /\ Configs \subseteq Seq(Config)
    /\ Paths \cup RealPaths \cup Secrets \subseteq Seq(EntryNames)
    /\ {s[1] : s \in Secrets} \subseteq Mounts
    /\ \A s \in Secrets : Len(s) > 1

VARIABLES
    config,   \* the config file of this mount
    phase,    \* "loading" | "mounted"
    loaded,   \* the mappings of the file that LoadMappings is done with
    mapper,   \* fs.pathMapper.mappings; empty also when there is no pathMapper
    disk,     \* what lstat says of each real path
    up,       \* Vault answers
    listing,  \* the last answer to a Readdir
    answer    \* the last answer to a Getattr

vars == <<config, phase, loaded, mapper, disk, up, listing, answer>>

NoListing == [path |-> <<>>, ok |-> FALSE, fresh |-> FALSE, entries |-> {}]
NoAnswer == [path |-> <<>>, fresh |-> FALSE, kind |-> "none"]

Entry(n, k) == [name |-> n, kind |-> k]

TypeOK ==
    /\ config \in Configs
    /\ phase \in {"loading", "mounted"}
    /\ loaded \in 0 .. Len(config)
    /\ DOMAIN mapper \subseteq {c.virtual : c \in Config}
    /\ \A v \in DOMAIN mapper : mapper[v].real \in RealPaths /\ mapper[v].dir \in BOOLEAN
    /\ disk \in [RealPaths -> Kinds \cup Links]
    /\ up \in BOOLEAN
    /\ listing.path \in Paths
    /\ listing.entries \subseteq [name : EntryNames \cup Mounts, kind : {"file", "dir"}]
    /\ answer \in [path : Paths, fresh : BOOLEAN, kind : Kinds]

-----------------------------------------------------------------------------
(* The disk and Vault *)

Lstat(real) == IF real \in RealPaths THEN disk[real] ELSE "none"

\* os.Stat follows a link; "none" if it fails.
At(real) ==
    IF Lstat(real) = "dirlink" THEN "dir"
    ELSE IF Lstat(real) = "deadlink" THEN "none"
    ELSE Lstat(real)

\* Mutant: names that are no longer there are listed as well.
ContentsUnchecked(real) == {Entry(n, Lstat(Append(real, n))) : n \in EntryNames}

\* os.ReadDir: DirEntry.IsDir is of the entry itself, false for every link.
Contents(real) ==
    {Entry(n, IF Lstat(Append(real, n)) = "dir" THEN "dir" ELSE "file")
       : n \in {n \in EntryNames : Lstat(Append(real, n)) # "none"}}

\* PathExists: a path with entries is a directory, even if it is a secret too.
VaultKind(path) ==
    IF ~up THEN "none"
    ELSE IF \E s \in Secrets : IsStrictPrefix(path, s) THEN "dir"
    ELSE IF path \in Secrets THEN "file"
    ELSE "none"

\* List: the mounts at the root; below, a secret that is a directory too has
\* two entries.
VaultEntries(path) ==
    IF path = <<>> THEN {Entry(n, "dir") : n \in Mounts}
    ELSE {Entry(s[Len(path) + 1], IF Len(s) = Len(path) + 1 THEN "file" ELSE "dir")
            : s \in {s \in Secrets : IsStrictPrefix(path, s)}}

-----------------------------------------------------------------------------
(* PathMapper *)

\* strings.HasPrefix(path, dir+"/"): never so for the root, whose text is "".
IsUnder(path, dir) == dir # <<>> /\ IsStrictPrefix(dir, path)

\* The real paths ResolveMappedPath may return, {} if it returns nil.
ResolveMappedPath(path) ==
    IF path \in DOMAIN mapper THEN {mapper[path].real}
    ELSE {mapper[v].real \o SubSeq(path, Len(v) + 1, Len(path))
            : v \in {v \in DOMAIN mapper : mapper[v].dir /\ IsUnder(path, v)}}

\* The mappings that a virtual directory leads to.
Below(path) == {v \in DOMAIN mapper : IsStrictPrefix(path, v)}

\* Mutant: only the parent of a mapping is a virtual directory.
IsParent(path) == \E v \in DOMAIN mapper : v # <<>> /\ Front(v) = path

IsVirtualDirectory(path) == Below(path) # {}

IsMappedOrUnder(path) == ResolveMappedPath(path) # {} \/ IsVirtualDirectory(path)

\* Mutant: only the flag of the mapping makes a directory.
ChildByFlag(path, v) == Entry(v[Len(path) + 1], IF mapper[v].dir THEN "dir" ELSE "file")

\* What a mapping contributes to the listing of a virtual directory.
Child(path, v) ==
    Entry(v[Len(path) + 1],
          IF Len(v) > Len(path) + 1 \/ mapper[v].dir THEN "dir" ELSE "file")

\* entries[firstComponent] = isDir, in any order: one of the kinds of a name.
\* GetRootEntries is the same for the root.
ListVirtualDirectory(path) ==
    LET all == {Child(path, v) : v \in Below(path)}
    IN  {es \in SUBSET all : \A e \in all : Cardinality({f \in es : f.name = e.name}) = 1}

\* The possible listings, {} if every one is an error.
ListMappedDirectory(path) ==
    IF ResolveMappedPath(path) = {} THEN ListVirtualDirectory(path)
    ELSE {Contents(r) : r \in {r \in ResolveMappedPath(path) : At(r) = "dir"}}

\* "none" if the stat fails.
GetMappedPathInfo(path) ==
    IF ResolveMappedPath(path) = {} THEN {"dir"} ELSE {At(r) : r \in ResolveMappedPath(path)}

-----------------------------------------------------------------------------
(* VaultFS *)

\* What Getattr may say of a path, "none" for ENOENT.
Kind(path) ==
    IF IsMappedOrUnder(path) THEN GetMappedPathInfo(path)
    ELSE IF path = <<>> THEN {"dir"} ELSE {VaultKind(path)}

\* Mutant: Vault is listed only where nothing is mapped.
MergeNothing(es, more) == IF es = {} THEN more ELSE es

\* addedEntries: an entry is left out if an earlier source has its name.
Merge(es, more) == es \cup {e \in more : \A f \in es : f.name # e.name}

FromVault(path) == IF up THEN VaultEntries(path) ELSE {}

-----------------------------------------------------------------------------
Init ==
    /\ config \in Configs
    /\ phase = "loading"
    /\ loaded = 0
    /\ mapper = <<>>
    /\ disk \in [RealPaths -> Kinds \cup Links]
    /\ \A r \in RealPaths : disk[r] \in KindsAt(r)
    /\ \A r \in RealPaths : disk[r] # "none" /\ Len(r) > 1 => At(Front(r)) = "dir"
    /\ up \in BOOLEAN
    /\ listing = NoListing
    /\ answer = NoAnswer

\* LoadMappings: one mapping, whose real path is looked at now and never again.
LoadMapping ==
    /\ phase = "loading" /\ loaded < Len(config)
    /\ LET c == config[loaded + 1]
       IN  /\ At(c.real) # "none"
           /\ mapper' = [v \in DOMAIN mapper \cup {c.virtual} |->
                           IF v = c.virtual
                           THEN [real |-> c.real, dir |-> At(c.real) = "dir"]
                           ELSE mapper[v]]
    /\ loaded' = loaded + 1
    /\ UNCHANGED <<config, phase, disk, up, listing, answer>>

\* Mutant: the mappings before the one that fails are kept.
LoadFailsAndKeeps ==
    /\ phase = "loading" /\ loaded < Len(config)
    /\ At(config[loaded + 1].real) = "none"
    /\ phase' = "mounted"
    /\ UNCHANGED <<config, loaded, mapper, disk, up, listing, answer>>

\* NewVaultFSWithOptions goes on without a path mapper if one mapping fails.  A
\* mapping with an empty path, a file that does not parse and one that cannot be
\* read end here too; Configs has none of them.
LoadFails ==
    /\ phase = "loading" /\ loaded < Len(config)
    /\ At(config[loaded + 1].real) = "none"
    /\ phase' = "mounted"
    /\ mapper' = <<>>
    /\ UNCHANGED <<config, loaded, disk, up, listing, answer>>

Loaded ==
    /\ phase = "loading" /\ loaded = Len(config)
    /\ phase' = "mounted"
    /\ UNCHANGED <<config, loaded, mapper, disk, up, listing, answer>>

Getattr(path) ==
    /\ phase = "mounted"
    /\ \E k \in Kind(path) : answer' = [path |-> path, fresh |-> TRUE, kind |-> k]
    /\ UNCHANGED <<config, phase, loaded, mapper, disk, up, listing>>

Listed(path, ok, es) ==
    /\ listing' = [path |-> path, ok |-> ok, fresh |-> TRUE, entries |-> es]
    /\ UNCHANGED <<config, phase, loaded, mapper, disk, up, answer>>

\* The root: a mapping of it, the mappings below it and Vault, each left out
\* if it fails.
ReaddirRoot ==
    /\ phase = "mounted"
    /\ \E mapped \in IF ListMappedDirectory(<<>>) = {} THEN {{}} ELSE ListMappedDirectory(<<>>),
          roots \in ListVirtualDirectory(<<>>) :
          Listed(<<>>, TRUE, Merge(Merge(mapped, roots), FromVault(<<>>)))

ReaddirMapped(path) ==
    /\ phase = "mounted" /\ path # <<>> /\ IsMappedOrUnder(path)
    /\ \/ \E es \in ListMappedDirectory(path) : Listed(path, TRUE, es)
       \/ /\ \E r \in ResolveMappedPath(path) : At(r) # "dir"
          /\ Listed(path, FALSE, {})

ReaddirVault(path) ==
    /\ phase = "mounted" /\ path # <<>> /\ ~IsMappedOrUnder(path)
    /\ Listed(path, up, FromVault(path))

\* The answers so far no longer say what is there now.
Forget ==
    /\ listing' = NoListing
    /\ answer' = NoAnswer

\* Someone makes or removes a file, directory or link on disk.  What is below a
\* link is what it leads to.
DiskChanges(r) ==
    /\ \E k \in KindsAt(r) \ {disk[r]} :
          /\ disk' = [disk EXCEPT ![r] = k]
          /\ k # "none" /\ Len(r) > 1 => At(Front(r)) = "dir"
    /\ \A s \in RealPaths : IsStrictPrefix(r, s) => disk[s] = "none"
    /\ Forget
    /\ UNCHANGED <<config, phase, loaded, mapper, up>>

VaultComesAndGoes ==
    /\ up' = ~up
    /\ Forget
    /\ UNCHANGED <<config, phase, loaded, mapper, disk>>

Next ==
    \/ LoadMapping
    \/ LoadFails
    \/ Loaded
    \/ ReaddirRoot
    \/ VaultComesAndGoes
    \/ \E path \in Paths : Getattr(path) \/ ReaddirMapped(path) \/ ReaddirVault(path)
    \/ \E r \in RealPaths : DiskChanges(r)

Spec == Init /\ [][Next]_vars

-----------------------------------------------------------------------------
(* Properties *)

\* No mapping is the root, and none is below another.
Apart == \A v, w \in DOMAIN mapper : v # <<>> /\ (v # w => ~IsPrefix(v, w))

\* Every mapping is still what it was when LoadMappings looked.
AsLoaded ==
    \A v \in DOMAIN mapper : At(mapper[v].real) = IF mapper[v].dir THEN "dir" ELSE "file"

EmptyMounts == {<<n>> : n \in Mounts \ {s[1] : s \in Secrets}}

\* However Go orders the map, a path is resolved to one real path as long as no
\* mapping is below another (pathmapper.go:352).
OneResolution ==
    Apart => \A path \in Paths : \A r, s \in ResolveMappedPath(path) : r = s

\* The name of the last Getattr is a child of the last listing.
BothFresh(n) ==
    /\ listing.fresh /\ listing.ok /\ answer.fresh
    /\ answer.path = Append(listing.path, n)

\* A link inside a mapped directory; not a mapping that is a link itself.
IsLink(path) ==
    path \notin DOMAIN mapper /\ \E r \in ResolveMappedPath(path) : Lstat(r) \in Links

\* A name that Readdir lists is one that Getattr finds, of the kind that was
\* listed, although the two are put together by different code (Readdir,
\* GetRootEntries and ListVirtualDirectory; Getattr and ResolveMappedPath).
\* Not so for mappings that are not Apart or have changed on disk, for a link in
\* a mapped directory, which is listed as a file wherever it leads
\* (pathmapper.go:513; docs/PATH_MAPPING.md:251: "Symlinks are followed"), nor for
\* a mount with no secret, which Vault itself lists and does not find.
ListedNamesAreFound ==
    Apart /\ AsLoaded =>
      \A n \in {e.name : e \in listing.entries} :
         /\ BothFresh(n) /\ ~IsLink(answer.path)
         /\ answer.kind = "none" => IsMappedOrUnder(answer.path) \/ answer.path \notin EmptyMounts
         => Entry(n, answer.kind) \in listing.entries

\* A name that Getattr finds is listed, at the root whatever is mapped there;
\* only in a virtual directory is what Vault has left out.
FoundNamesAreListed ==
    Apart /\ AsLoaded /\ answer.kind # "none" /\ answer.path # <<>> /\ BothFresh(Last(answer.path))
    /\ (listing.path = <<>> \/ ~IsVirtualDirectory(listing.path))
      => \E e \in listing.entries : e.name = Last(answer.path)

\* The way to a mapping is open: every directory above it is one to Getattr,
\* and lists the next step.
MappingsAreReachable ==
    phase = "mounted" /\ Apart =>
      \A v \in DOMAIN mapper : \A i \in 1 .. Len(v) :
         LET above == SubSeq(v, 1, i - 1)
         IN  /\ answer.fresh /\ answer.path = above => answer.kind = "dir"
             /\ listing.fresh /\ listing.path = above
                  => listing.ok /\ Child(above, v) \in listing.entries

\* A mount has all mappings of its config file or none: a mapping that fails
\* does not leave the ones before it behind.
AllMappingsOrNone ==
    phase = "mounted" => DOMAIN mapper \in {{}, {config[i].virtual : i \in DOMAIN config}}

=============================================================================
