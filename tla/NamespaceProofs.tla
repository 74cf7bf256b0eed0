-------------------------- MODULE NamespaceProofs --------------------------
(***************************************************************************)
(* Proofs about Namespace, for every config file, disk and Vault: a mount  *)
(* has all mappings of its config file or none, mappings of which none is  *)
(* below another resolve a path in one way and can be reached, and what a  *)
(* listing shows and what a lookup finds agree.                            *)
(***************************************************************************)
EXTENDS Namespace, TLAPS, FiniteSetTheorems, SequenceTheorems

\* What LoadMappings has stored after so many mappings.
LoadInv ==
    /\ config \in Seq(Config)
    /\ loaded \in 0 .. Len(config)
    /\ phase \in {"loading", "mounted"}
    /\ DOMAIN mapper \subseteq {c.virtual : c \in Config}
    /\ phase = "loading" => DOMAIN mapper = {config[i].virtual : i \in 1 .. loaded}
    /\ phase = "mounted" => DOMAIN mapper \in {{}, {config[i].virtual : i \in 1 .. Len(config)}}

\* Only the three load steps touch the mapper.
LEMMA OtherSteps ==
  ASSUME [Next]_vars, ~LoadMapping, ~LoadFails, ~Loaded
  PROVE  UNCHANGED <<config, phase, loaded, mapper>>
<1>1. CASE ReaddirRoot
  BY <1>1 DEF ReaddirRoot, Listed
<1>2. CASE VaultComesAndGoes
  BY <1>2 DEF VaultComesAndGoes
<1>3. ASSUME NEW path \in Paths, Getattr(path) \/ ReaddirMapped(path) \/ ReaddirVault(path)
      PROVE  UNCHANGED <<config, phase, loaded, mapper>>
  BY <1>3 DEF Getattr, ReaddirMapped, ReaddirVault, Listed
<1>4. ASSUME NEW r \in RealPaths, DiskChanges(r)
      PROVE  UNCHANGED <<config, phase, loaded, mapper>>
  BY <1>4 DEF DiskChanges
<1>5. CASE UNCHANGED vars
  BY <1>5 DEF vars
<1> QED
  BY <1>1, <1>2, <1>3, <1>4, <1>5 DEF Next

LEMMA LoadInit == Init => LoadInv
<1> SUFFICES ASSUME Init PROVE LoadInv
  OBVIOUS
<1>1. config \in Seq(Config) /\ loaded = 0 /\ phase = "loading" /\ mapper = <<>>
  BY NamespaceAssumption DEF Init
<1>2. DOMAIN mapper = {}
  BY <1>1
<1>3. {config[i].virtual : i \in 1 .. loaded} = {}
  BY <1>1
<1> QED
  BY <1>1, <1>2, <1>3 DEF LoadInv

LEMMA LoadStep == LoadInv /\ [Next]_vars => LoadInv'
<1> SUFFICES ASSUME LoadInv, [Next]_vars PROVE LoadInv'
  OBVIOUS
<1> USE DEF LoadInv
<1>1. CASE LoadMapping
  <2> DEFINE c == config[loaded + 1]
  <2>1. /\ config' = config /\ loaded' = loaded + 1 /\ loaded < Len(config)
        /\ phase = "loading" /\ phase' = "loading"
        /\ DOMAIN mapper' = DOMAIN mapper \cup {c.virtual}
    BY <1>1 DEF LoadMapping
  <2>2. c \in Config /\ loaded + 1 \in 1 .. Len(config)
    BY <2>1
  <2>3. 1 .. loaded' = (1 .. loaded) \cup {loaded + 1}
    BY <2>1
  <2>4. {config[i].virtual : i \in 1 .. loaded'}
          = {config[i].virtual : i \in 1 .. loaded} \cup {c.virtual}
    BY <2>3
  <2> QED
    BY <2>1, <2>2, <2>4
<1>2. CASE LoadFails
  <2>1. DOMAIN mapper' = {} /\ phase' = "mounted" /\ UNCHANGED <<config, loaded>>
    BY <1>2 DEF LoadFails
  <2> QED
    BY <2>1
<1>3. CASE Loaded
  BY <1>3 DEF Loaded
<1>4. CASE ~LoadMapping /\ ~LoadFails /\ ~Loaded
  BY <1>4, OtherSteps
<1> QED
  BY <1>1, <1>2, <1>3, <1>4

\* LoadMappings stops at the first mapping that fails, and NewVaultFSWithOptions
\* then drops the whole mapper (vaultfs.go:185): every mount has all or nothing.
THEOREM AllOrNone == Spec => []AllMappingsOrNone
<1>1. Spec => []LoadInv
  BY LoadInit, LoadStep, PTL DEF Spec
<1>2. LoadInv => AllMappingsOrNone
  <2> SUFFICES ASSUME LoadInv PROVE AllMappingsOrNone
    OBVIOUS
  <2>1. DOMAIN config = 1 .. Len(config)
    BY DEF LoadInv
  <2> QED
    BY <2>1, Zenon DEF LoadInv, AllMappingsOrNone
<1> QED
  BY <1>1, <1>2, PTL

-----------------------------------------------------------------------------

\* Prefixes, component by component.
LEMMA PrefixOf ==
  ASSUME NEW S, NEW s \in Seq(S), NEW t \in Seq(S)
  PROVE  /\ IsPrefix(s, t) <=> Len(s) <= Len(t) /\ \A i \in 1 .. Len(s) : s[i] = t[i]
         /\ IsStrictPrefix(s, t) <=> Len(s) < Len(t) /\ \A i \in 1 .. Len(s) : s[i] = t[i]
<1>1. ASSUME Len(s) <= Len(t)
      PROVE  SubSeq(s, 1, Len(s)) = SubSeq(t, 1, Len(s)) <=> \A i \in 1 .. Len(s) : s[i] = t[i]
  <2> DEFINE a == SubSeq(s, 1, Len(s))
             b == SubSeq(t, 1, Len(s))
  <2>1. /\ a \in Seq(S) /\ Len(a) = Len(s) /\ \A i \in 1 .. Len(s) : a[i] = s[i]
        /\ b \in Seq(S) /\ Len(b) = Len(s) /\ \A i \in 1 .. Len(s) : b[i] = t[i]
    BY <1>1
  <2> HIDE DEF a, b
  <2>2. a = b <=> \A i \in 1 .. Len(s) : a[i] = b[i]
    BY <2>1, SeqEqual
  <2> USE DEF a, b
  <2> QED
    BY <2>1, <2>2
<1>2. IsPrefix(s, t) <=> Len(s) <= Len(t) /\ \A i \in 1 .. Len(s) : s[i] = t[i]
  BY <1>1 DEF IsPrefix
<1>3. Len(s) = Len(t) /\ (\A i \in 1 .. Len(s) : s[i] = t[i]) => s = t
  BY SeqEqual
<1> QED
  BY <1>2, <1>3 DEF IsStrictPrefix

\* Two prefixes of one path: one is a prefix of the other.
LEMMA PrefixesComparable ==
  ASSUME NEW S, NEW s \in Seq(S), NEW t \in Seq(S), NEW u \in Seq(S),
         IsPrefix(s, u), IsPrefix(t, u)
  PROVE  IsPrefix(s, t) \/ IsPrefix(t, s)
  BY PrefixOf

\* The order in which Go ranges over the map does not matter to ResolveMappedPath
\* as long as no mapping is below another (pathmapper.go:352).
THEOREM ResolutionIsUnique == Spec => []OneResolution
<1>1. Spec => []LoadInv
  BY LoadInit, LoadStep, PTL DEF Spec
<1>2. LoadInv => OneResolution
  <2> SUFFICES ASSUME LoadInv, Apart, NEW path \in Paths,
                      NEW r \in ResolveMappedPath(path), NEW s \in ResolveMappedPath(path)
               PROVE  r = s
    BY DEF OneResolution
  <2>1. CASE path \in DOMAIN mapper
    BY <2>1 DEF ResolveMappedPath
  <2>2. CASE path \notin DOMAIN mapper
    <3> DEFINE Real(v) == mapper[v].real \o SubSeq(path, Len(v) + 1, Len(path))
    <3>1. PICK v \in DOMAIN mapper : IsUnder(path, v) /\ r = Real(v)
      BY <2>2 DEF ResolveMappedPath
    <3>2. PICK w \in DOMAIN mapper : IsUnder(path, w) /\ s = Real(w)
      BY <2>2 DEF ResolveMappedPath
    <3>3. v \in Seq(EntryNames) /\ w \in Seq(EntryNames) /\ path \in Seq(EntryNames)
      BY NamespaceAssumption DEF LoadInv
    <3>4. IsPrefix(v, path) /\ IsPrefix(w, path)
      BY <3>1, <3>2 DEF IsUnder, IsStrictPrefix
    <3>5. IsPrefix(v, w) \/ IsPrefix(w, v)
      BY <3>3, <3>4, PrefixesComparable
    <3>6. v = w
      BY <3>5 DEF Apart
    <3> QED
      BY <3>1, <3>2, <3>6
  <2> QED
    BY <2>1, <2>2
<1> QED
  BY <1>1, <1>2, PTL

-----------------------------------------------------------------------------
(* Types *)

Entries == [name : EntryNames \cup Mounts, kind : {"file", "dir"}]

TypeInv ==
    /\ LoadInv
    /\ config \in Configs
    /\ \A v \in DOMAIN mapper : mapper[v].real \in RealPaths /\ mapper[v].dir \in BOOLEAN
    /\ disk \in [RealPaths -> Kinds \cup Links]
    /\ up \in BOOLEAN
    /\ listing \in [path : Paths, ok : BOOLEAN, fresh : BOOLEAN, entries : SUBSET Entries]
    /\ answer \in [path : Paths, fresh : BOOLEAN, kind : Kinds]

\* Everything that is compared with a path is one.
LEMMA Texts ==
  ASSUME TypeInv
  PROVE  /\ \A p \in Paths \cup RealPaths \cup Secrets \cup DOMAIN mapper : p \in Seq(EntryNames)
         /\ DOMAIN mapper \subseteq Paths
         /\ \A s \in Secrets : Len(s) > 1 /\ s[1] \in Mounts
         /\ <<>> \in Paths /\ <<>> \notin RealPaths \cup Secrets
  BY NamespaceAssumption DEF TypeInv, LoadInv

LEMMA AtType == ASSUME TypeInv, NEW r PROVE At(r) \in Kinds
  BY DEF TypeInv, At, Lstat, Kinds, Links

LEMMA ContentsType == ASSUME TypeInv, NEW r PROVE Contents(r) \subseteq Entries
  BY DEF Contents, Entry, Entries

LEMMA VaultEntriesType ==
  ASSUME TypeInv, NEW path \in Paths
  PROVE  VaultEntries(path) \subseteq Entries
<1>1. ASSUME NEW s \in Secrets, IsStrictPrefix(path, s)
      PROVE  s[Len(path) + 1] \in EntryNames
  <2>1. path \in Seq(EntryNames) /\ s \in Seq(EntryNames)
    BY Texts
  <2>2. Len(path) + 1 \in 1 .. Len(s)
    BY <1>1, <2>1, PrefixOf
  <2> QED
    BY <2>1, <2>2
<1> QED
  BY <1>1 DEF VaultEntries, Entry, Entries

LEMMA ChildType ==
  ASSUME TypeInv, NEW path \in Paths, NEW v \in Below(path)
  PROVE  Child(path, v) \in Entries
<1>1. path \in Seq(EntryNames) /\ v \in Seq(EntryNames) /\ IsStrictPrefix(path, v)
  BY Texts DEF Below
<1>2. Len(path) + 1 \in 1 .. Len(v)
  BY <1>1, PrefixOf
<1> QED
  BY <1>1, <1>2 DEF Child, Entry, Entries

LEMMA ListedType ==
  ASSUME TypeInv, NEW path \in Paths
  PROVE  /\ \A es \in ListVirtualDirectory(path) : es \subseteq Entries
         /\ \A es \in ListMappedDirectory(path) : es \subseteq Entries
         /\ FromVault(path) \subseteq Entries
<1>1. \A es \in ListVirtualDirectory(path) : es \subseteq Entries
  BY ChildType DEF ListVirtualDirectory
<1> QED
  BY <1>1, ContentsType, VaultEntriesType DEF ListMappedDirectory, FromVault

LEMMA KindType ==
  ASSUME TypeInv, NEW path, NEW k \in Kind(path)
  PROVE  k \in Kinds
<1>1. CASE IsMappedOrUnder(path)
  BY <1>1, AtType DEF Kind, GetMappedPathInfo, Kinds
<1>2. CASE ~IsMappedOrUnder(path)
  BY <1>2 DEF Kind, VaultKind, Kinds
<1> QED
  BY <1>1, <1>2

-----------------------------------------------------------------------------
(* What the kernel was told is what an operation would say now *)

ListingOf(path, es) ==
    \/ /\ path = <<>>
       /\ \E mapped \in IF ListMappedDirectory(<<>>) = {} THEN {{}} ELSE ListMappedDirectory(<<>>),
             roots \in ListVirtualDirectory(<<>>) :
             es = Merge(Merge(mapped, roots), FromVault(<<>>))
    \/ path # <<>> /\ IsMappedOrUnder(path) /\ es \in ListMappedDirectory(path)
    \/ path # <<>> /\ ~IsMappedOrUnder(path) /\ up /\ es = FromVault(path)

MayFail(path) ==
    /\ path # <<>>
    /\ IF IsMappedOrUnder(path) THEN \E r \in ResolveMappedPath(path) : At(r) # "dir" ELSE ~up

FreshInv ==
    /\ \A path \in {listing.path}, es \in {listing.entries} :
         listing.fresh =>
           /\ phase = "mounted"
           /\ listing.ok => ListingOf(path, es)
           /\ ~listing.ok => MayFail(path)
    /\ \A path \in {answer.path} :
         answer.fresh => phase = "mounted" /\ answer.kind \in Kind(path)

IInv == TypeInv /\ FreshInv

LEMMA TypeInit == Init => TypeInv
<1> SUFFICES ASSUME Init PROVE TypeInv
  OBVIOUS
<1>1. LoadInv
  BY LoadInit
<1>2. DOMAIN mapper = {}
  BY DEF Init
<1>3. <<>> \in Paths
  BY NamespaceAssumption
<1>4. listing \in [path : Paths, ok : BOOLEAN, fresh : BOOLEAN, entries : SUBSET Entries]
  BY <1>3 DEF Init, NoListing
<1>5. answer \in [path : Paths, fresh : BOOLEAN, kind : Kinds]
  BY <1>3 DEF Init, NoAnswer, Kinds
<1> QED
  BY <1>1, <1>2, <1>4, <1>5 DEF Init, TypeInv

LEMMA ListingType ==
  ASSUME TypeInv, NEW path \in Paths, NEW ok \in BOOLEAN, NEW es, Listed(path, ok, es),
         es \subseteq Entries, LoadInv'
  PROVE  TypeInv'
  BY DEF TypeInv, Listed

LEMMA TypeStep == TypeInv /\ [Next]_vars => TypeInv'
<1> SUFFICES ASSUME TypeInv, [Next]_vars PROVE TypeInv'
  OBVIOUS
<1>0. LoadInv'
  BY LoadStep DEF TypeInv
<1>1. CASE LoadMapping
  <2> DEFINE c == config[loaded + 1]
  <2>1. loaded + 1 \in 1 .. Len(config) /\ config \in Seq(Config)
    BY <1>1 DEF LoadMapping, TypeInv, LoadInv
  <2>2. c \in Config /\ c.real \in RealPaths
    BY <2>1, NamespaceAssumption
  <2>3. \A v \in DOMAIN mapper' : mapper'[v].real \in RealPaths /\ mapper'[v].dir \in BOOLEAN
    BY <1>1, <2>2 DEF LoadMapping, TypeInv
  <2> QED
    BY <1>0, <1>1, <2>3 DEF LoadMapping, TypeInv
<1>2. CASE LoadFails
  <2>1. DOMAIN mapper' = {}
    BY <1>2 DEF LoadFails
  <2> QED
    BY <1>0, <1>2, <2>1 DEF LoadFails, TypeInv
<1>3. CASE Loaded
  BY <1>0, <1>3 DEF Loaded, TypeInv
<1>4. CASE ReaddirRoot
  <2>1. PICK mapped \in IF ListMappedDirectory(<<>>) = {} THEN {{}} ELSE ListMappedDirectory(<<>>),
             roots \in ListVirtualDirectory(<<>>) :
             Listed(<<>>, TRUE, Merge(Merge(mapped, roots), FromVault(<<>>)))
    BY <1>4 DEF ReaddirRoot
  <2>2. <<>> \in Paths
    BY Texts
  <2>3. mapped \subseteq Entries /\ roots \subseteq Entries /\ FromVault(<<>>) \subseteq Entries
    BY <2>1, <2>2, ListedType
  <2>4. Merge(Merge(mapped, roots), FromVault(<<>>)) \subseteq Entries
    BY <2>3 DEF Merge
  <2> QED
    BY <1>0, <2>1, <2>2, <2>4, ListingType
<1>5. CASE VaultComesAndGoes
  <2>1. <<>> \in Paths
    BY Texts
  <2>2. /\ listing' \in [path : Paths, ok : BOOLEAN, fresh : BOOLEAN, entries : SUBSET Entries]
        /\ answer' \in [path : Paths, fresh : BOOLEAN, kind : Kinds]
    BY <1>5, <2>1 DEF VaultComesAndGoes, Forget, NoListing, NoAnswer, Kinds
  <2> QED
    BY <1>0, <1>5, <2>2 DEF VaultComesAndGoes, TypeInv
<1>6. ASSUME NEW path \in Paths, Getattr(path) PROVE TypeInv'
  <2>1. PICK k \in Kind(path) : answer' = [path |-> path, fresh |-> TRUE, kind |-> k]
    BY <1>6 DEF Getattr
  <2>2. k \in Kinds
    BY KindType
  <2> QED
    BY <1>0, <1>6, <2>1, <2>2 DEF Getattr, TypeInv
<1>7. ASSUME NEW path \in Paths, ReaddirMapped(path) PROVE TypeInv'
  <2>1. CASE \E es \in ListMappedDirectory(path) : Listed(path, TRUE, es)
    BY <1>0, <2>1, ListedType, ListingType
  <2>2. CASE Listed(path, FALSE, {})
    <3> DEFINE es == {}
    <3>1. es \subseteq Entries /\ Listed(path, FALSE, es) /\ FALSE \in BOOLEAN
      BY <2>2
    <3> HIDE DEF es
    <3> QED
      BY <1>0, <3>1, ListingType
  <2> QED
    BY <1>7, <2>1, <2>2 DEF ReaddirMapped
<1>8. ASSUME NEW path \in Paths, ReaddirVault(path) PROVE TypeInv'
  <2>1. up \in BOOLEAN
    BY DEF TypeInv
  <2> QED
    BY <1>0, <1>8, <2>1, ListedType, ListingType DEF ReaddirVault
<1>9. ASSUME NEW r \in RealPaths, DiskChanges(r) PROVE TypeInv'
  <2>1. <<>> \in Paths
    BY Texts
  <2>2. /\ listing' \in [path : Paths, ok : BOOLEAN, fresh : BOOLEAN, entries : SUBSET Entries]
        /\ answer' \in [path : Paths, fresh : BOOLEAN, kind : Kinds]
    BY <1>9, <2>1 DEF DiskChanges, Forget, NoListing, NoAnswer, Kinds
  <2>3. disk' \in [RealPaths -> Kinds \cup Links]
    BY <1>9 DEF DiskChanges, KindsAt, TypeInv
  <2> QED
    BY <1>0, <1>9, <2>2, <2>3 DEF DiskChanges, TypeInv
<1>10. CASE UNCHANGED vars
  BY <1>0, <1>10 DEF vars, TypeInv
<1> QED
  BY <1>1, <1>2, <1>3, <1>4, <1>5, <1>6, <1>7, <1>8, <1>9, <1>10 DEF Next

\* Every variable of Namespace keeps its type; a listing names components of
\* paths and mounts only.
THEOREM TypeCorrect == Spec => []TypeOK
<1>1. TypeInv => TypeOK
  BY DEF TypeInv, LoadInv, TypeOK, Entries
<1> QED
  BY <1>1, TypeInit, TypeStep, PTL DEF Spec

\* An operation answers alike as long as mapper, disk and Vault are the same.
LEMMA SameAnswers ==
  ASSUME UNCHANGED <<mapper, disk, up>>
  PROVE  /\ \A path : Kind(path)' = Kind(path)
         /\ \A path, es : ListingOf(path, es)' <=> ListingOf(path, es)
         /\ \A path : MayFail(path)' <=> MayFail(path)
<1>1. \A r : At(r)' = At(r) /\ Contents(r)' = Contents(r)
  BY DEF Lstat, At, Contents
<1>2. \A path : /\ ResolveMappedPath(path)' = ResolveMappedPath(path)
                /\ Below(path)' = Below(path)
                /\ VaultKind(path)' = VaultKind(path)
                /\ FromVault(path)' = FromVault(path)
  BY DEF ResolveMappedPath, Below, VaultKind, FromVault, VaultEntries
<1>3. \A path : ListVirtualDirectory(path)' = ListVirtualDirectory(path)
  BY <1>2 DEF ListVirtualDirectory, Child
<1>4. \A path : /\ ListMappedDirectory(path)' = ListMappedDirectory(path)
                /\ GetMappedPathInfo(path)' = GetMappedPathInfo(path)
                /\ IsMappedOrUnder(path)' <=> IsMappedOrUnder(path)
  BY <1>1, <1>2, <1>3
     DEF ListMappedDirectory, GetMappedPathInfo, IsMappedOrUnder, IsVirtualDirectory
<1>5. \A path : Kind(path)' = Kind(path)
  BY <1>2, <1>4 DEF Kind
<1>6. ASSUME NEW path, NEW es
      PROVE  /\ ListingOf(path, es)' <=> ListingOf(path, es)
             /\ MayFail(path)' <=> MayFail(path)
  <2>1. /\ ListMappedDirectory(<<>>)' = ListMappedDirectory(<<>>)
        /\ ListVirtualDirectory(<<>>)' = ListVirtualDirectory(<<>>)
        /\ FromVault(<<>>)' = FromVault(<<>>)
    BY <1>2, <1>3, <1>4, Zenon
  <2>2. /\ IsMappedOrUnder(path)' <=> IsMappedOrUnder(path)
        /\ ListMappedDirectory(path)' = ListMappedDirectory(path)
        /\ ResolveMappedPath(path)' = ResolveMappedPath(path)
        /\ FromVault(path)' = FromVault(path)
    BY <1>2, <1>4, Zenon
  <2>3. (\E r \in ResolveMappedPath(path) : At(r) # "dir")'
          <=> \E r \in ResolveMappedPath(path) : At(r) # "dir"
    BY <1>1, <2>2
  <2>4. ListingOf(path, es)' <=> ListingOf(path, es)
    BY <2>1, <2>2 DEF ListingOf
  <2>5. MayFail(path)' <=> MayFail(path)
    BY <2>2, <2>3 DEF MayFail
  <2> QED
    BY <2>4, <2>5
<1> QED
  BY <1>5, <1>6

LEMMA FreshStep == TypeInv /\ FreshInv /\ [Next]_vars => FreshInv'
<1> SUFFICES ASSUME TypeInv, FreshInv, [Next]_vars PROVE FreshInv'
  OBVIOUS
<1>1. CASE LoadMapping \/ LoadFails \/ Loaded
  <2>1. phase = "loading" /\ UNCHANGED <<listing, answer>>
    BY <1>1 DEF LoadMapping, LoadFails, Loaded
  <2> QED
    BY <2>1 DEF FreshInv
<1>2. ASSUME UNCHANGED <<mapper, disk, up, phase, answer>>, phase = "mounted",
             NEW path, NEW es,
             \/ /\ listing' = [path |-> path, ok |-> TRUE, fresh |-> TRUE, entries |-> es]
                /\ ListingOf(path, es)
             \/ /\ listing' = [path |-> path, ok |-> FALSE, fresh |-> TRUE, entries |-> es]
                /\ MayFail(path)
      PROVE  FreshInv'
  <2>1. /\ \A p, e : ListingOf(p, e)' <=> ListingOf(p, e)
        /\ \A p : MayFail(p)' <=> MayFail(p)
    BY <1>2, SameAnswers
  <2>2. \A p : Kind(p)' = Kind(p)
    BY <1>2, SameAnswers
  <2> QED
    BY <1>2, <2>1, <2>2 DEF FreshInv
<1>3. CASE ReaddirRoot
  <2>1. PICK mapped \in IF ListMappedDirectory(<<>>) = {} THEN {{}} ELSE ListMappedDirectory(<<>>),
             roots \in ListVirtualDirectory(<<>>) :
             Listed(<<>>, TRUE, Merge(Merge(mapped, roots), FromVault(<<>>)))
    BY <1>3 DEF ReaddirRoot
  <2>2. ListingOf(<<>>, Merge(Merge(mapped, roots), FromVault(<<>>)))
    BY Zenon DEF ListingOf
  <2> QED
    BY <1>2, <1>3, <2>1, <2>2 DEF Listed, ReaddirRoot
<1>4. ASSUME NEW path \in Paths, ReaddirMapped(path) PROVE FreshInv'
  <2>1. CASE \E es \in ListMappedDirectory(path) : Listed(path, TRUE, es)
    <3>1. PICK es : Listed(path, TRUE, es) /\ ListingOf(path, es)
      BY <1>4, <2>1 DEF ReaddirMapped, ListingOf
    <3> QED
      BY <1>2, <1>4, <3>1 DEF Listed, ReaddirMapped
  <2>2. CASE (\E r \in ResolveMappedPath(path) : At(r) # "dir") /\ Listed(path, FALSE, {})
    <3>1. MayFail(path)
      BY <1>4, <2>2 DEF ReaddirMapped, MayFail
    <3> QED
      BY <1>2, <1>4, <2>2, <3>1 DEF Listed, ReaddirMapped
  <2> QED
    BY <1>4, <2>1, <2>2 DEF ReaddirMapped
<1>5. ASSUME NEW path \in Paths, ReaddirVault(path) PROVE FreshInv'
  <2>1. CASE up = TRUE
    <3>1. ListingOf(path, FromVault(path))
      BY <1>5, <2>1 DEF ReaddirVault, ListingOf
    <3> QED
      BY <1>2, <1>5, <2>1, <3>1 DEF Listed, ReaddirVault
  <2>2. CASE up = FALSE
    <3>1. MayFail(path)
      BY <1>5, <2>2 DEF ReaddirVault, MayFail
    <3> QED
      BY <1>2, <1>5, <2>2, <3>1 DEF Listed, ReaddirVault
  <2> QED
    BY <2>1, <2>2 DEF TypeInv
<1>6. ASSUME NEW path \in Paths, Getattr(path) PROVE FreshInv'
  <2>1. PICK k \in Kind(path) : answer' = [path |-> path, fresh |-> TRUE, kind |-> k]
    BY <1>6 DEF Getattr
  <2>2. phase = "mounted" /\ UNCHANGED <<mapper, disk, up, phase, listing>>
    BY <1>6 DEF Getattr
  <2>3. \A p : Kind(p)' = Kind(p)
    BY <2>2, SameAnswers
  <2>4. /\ \A p, e : ListingOf(p, e)' <=> ListingOf(p, e)
        /\ \A p : MayFail(p)' <=> MayFail(p)
    BY <2>2, SameAnswers
  <2> QED
    BY <2>1, <2>2, <2>3, <2>4 DEF FreshInv
<1>7. CASE Forget
  BY <1>7 DEF Forget, NoListing, NoAnswer, FreshInv
<1>8. CASE UNCHANGED vars
  <2>1. UNCHANGED <<mapper, disk, up, phase, listing, answer>>
    BY <1>8 DEF vars
  <2>2. /\ \A p : Kind(p)' = Kind(p)
        /\ \A p, e : ListingOf(p, e)' <=> ListingOf(p, e)
        /\ \A p : MayFail(p)' <=> MayFail(p)
    BY <2>1, SameAnswers
  <2> QED
    BY <2>1, <2>2 DEF FreshInv
<1> QED
  BY <1>1, <1>3, <1>4, <1>5, <1>6, <1>7, <1>8 DEF Next, VaultComesAndGoes, DiskChanges

LEMMA Invariant == Spec => []IInv
<1>1. Init => IInv
  BY TypeInit DEF Init, IInv, FreshInv, NoListing, NoAnswer
<1>2. IInv /\ [Next]_vars => IInv'
  BY TypeStep, FreshStep DEF IInv
<1> QED
  BY <1>1, <1>2, PTL DEF Spec

-----------------------------------------------------------------------------
(* Virtual directories *)

AllChildren(path) == {Child(path, v) : v \in Below(path)}

\* What Append does to the components of a path.
LEMMA AppendOf ==
  ASSUME NEW S, NEW s \in Seq(S), NEW n, Append(s, n) \in Seq(S)
  PROVE  /\ n \in S
         /\ Append(s, n) # <<>>
         /\ Len(Append(s, n)) = Len(s) + 1
         /\ Append(s, n)[Len(s) + 1] = n
         /\ \A i \in 1 .. Len(s) : Append(s, n)[i] = s[i]
<1>1. /\ Len(Append(s, n)) = Len(s) + 1
      /\ Append(s, n)[Len(s) + 1] = n
      /\ \A i \in 1 .. Len(s) : Append(s, n)[i] = s[i]
  OBVIOUS
<1>2. Append(s, n)[Len(s) + 1] \in S
  BY <1>1
<1> QED
  BY <1>1, <1>2

\* Of mappings that are apart, at most one gives a name to a directory, or all
\* that do say it is a directory.
LEMMA OneKind ==
  ASSUME TypeInv, Apart, NEW path \in Paths, NEW v \in Below(path), NEW w \in Below(path),
         v[Len(path) + 1] = w[Len(path) + 1]
  PROVE  Child(path, v) = Child(path, w)
<1>1. /\ path \in Seq(EntryNames) /\ v \in Seq(EntryNames) /\ w \in Seq(EntryNames)
      /\ v \in DOMAIN mapper /\ w \in DOMAIN mapper
      /\ IsStrictPrefix(path, v) /\ IsStrictPrefix(path, w)
  BY Texts DEF Below
<1>2. /\ Len(path) < Len(v) /\ \A i \in 1 .. Len(path) : path[i] = v[i]
      /\ Len(path) < Len(w) /\ \A i \in 1 .. Len(path) : path[i] = w[i]
  BY <1>1, PrefixOf
<1>3. CASE Len(v) > Len(path) + 1 /\ Len(w) > Len(path) + 1
  BY <1>3 DEF Child
<1>4. CASE Len(v) = Len(path) + 1
  <2>1. Len(v) <= Len(w) /\ \A i \in 1 .. Len(v) : v[i] = w[i]
    BY <1>1, <1>2, <1>4
  <2>2. IsPrefix(v, w)
    BY <1>1, <2>1, PrefixOf
  <2> QED
    BY <1>1, <2>2 DEF Apart
<1>5. CASE Len(w) = Len(path) + 1
  <2>1. IsPrefix(w, v)
    BY <1>1, <1>2, <1>5, PrefixOf
  <2> QED
    BY <1>1, <2>1 DEF Apart
<1> QED
  BY <1>1, <1>2, <1>3, <1>4, <1>5

\* So the order in which Go ranges over the map does not matter to a listing.
LEMMA OneListing ==
  ASSUME TypeInv, Apart, NEW path \in Paths
  PROVE  \A es : es \in ListVirtualDirectory(path) <=> es = AllChildren(path)
<1> DEFINE all == AllChildren(path)
<1>1. ASSUME NEW e \in all, NEW f \in all, e.name = f.name
      PROVE  e = f
  <2>1. PICK v \in Below(path) : e = Child(path, v)
    BY DEF AllChildren
  <2>2. PICK w \in Below(path) : f = Child(path, w)
    BY DEF AllChildren
  <2>3. e.name = v[Len(path) + 1] /\ f.name = w[Len(path) + 1]
    BY <2>1, <2>2 DEF Child, Entry
  <2> QED
    BY <1>1, <2>1, <2>2, <2>3, OneKind
<1>2. ASSUME NEW es \in SUBSET all,
             \A e \in all : Cardinality({f \in es : f.name = e.name}) = 1
      PROVE  es = all
  <2>1. ASSUME NEW e \in all PROVE e \in es
    <3>1. {f \in es : f.name = e.name} # {}
      BY <1>2, FS_EmptySet
    <3>2. PICK f \in es : f.name = e.name
      BY <3>1
    <3> QED
      BY <1>1, <3>2
  <2> QED
    BY <2>1
<1>3. ASSUME NEW e \in all
      PROVE  Cardinality({f \in all : f.name = e.name}) = 1
  <2>1. {f \in all : f.name = e.name} = {e}
    BY <1>1
  <2> QED
    BY <2>1, FS_Singleton
<1> QED
  BY <1>2, <1>3 DEF ListVirtualDirectory, AllChildren

\* A directory above a mapping is below none.
LEMMA VirtualIsUnmapped ==
  ASSUME TypeInv, Apart, NEW path \in Paths, IsVirtualDirectory(path)
  PROVE  ResolveMappedPath(path) = {}
<1>1. PICK v \in DOMAIN mapper : IsStrictPrefix(path, v)
  BY DEF IsVirtualDirectory, Below
<1>2. v \in Seq(EntryNames) /\ path \in Seq(EntryNames)
  BY Texts
<1>3. ASSUME NEW w \in DOMAIN mapper, IsPrefix(w, path) PROVE FALSE
  <2>1. w \in Seq(EntryNames)
    BY Texts
  <2>2. IsStrictPrefix(w, v)
    BY <1>1, <1>2, <1>3, <2>1, PrefixOf
  <2> QED
    BY <1>1, <2>2 DEF Apart, IsStrictPrefix
<1>4. IsPrefix(path, path)
  BY <1>2, PrefixOf
<1> QED
  BY <1>3, <1>4 DEF ResolveMappedPath, IsUnder, IsStrictPrefix

\* No mapping applies to the root.
LEMMA RootIsUnmapped ==
  ASSUME TypeInv, Apart
  PROVE  ResolveMappedPath(<<>>) = {}
<1>1. <<>> \notin DOMAIN mapper
  BY DEF Apart
<1>2. ASSUME NEW v \in DOMAIN mapper, IsUnder(<<>>, v) PROVE FALSE
  <2>1. v \in Seq(EntryNames) /\ <<>> \in Seq(EntryNames)
    BY Texts
  <2>2. Len(v) < Len(<<>>)
    BY <1>2, <2>1, PrefixOf DEF IsUnder
  <2> QED
    BY <2>1, <2>2
<1> QED
  BY <1>1, <1>2 DEF ResolveMappedPath

\* The next step to a mapping is found as it is listed.
LEMMA ChildKind ==
  ASSUME TypeInv, Apart, AsLoaded, NEW path \in Paths, NEW n, Append(path, n) \in Paths,
         NEW v \in Below(path), v[Len(path) + 1] = n, NEW k \in Kind(Append(path, n))
  PROVE  Entry(n, k) = Child(path, v)
<1> DEFINE child == Append(path, n)
<1>1. /\ path \in Seq(EntryNames) /\ v \in Seq(EntryNames) /\ child \in Seq(EntryNames)
      /\ v \in DOMAIN mapper /\ IsStrictPrefix(path, v)
  BY Texts DEF Below
<1>2. Len(path) < Len(v) /\ \A i \in 1 .. Len(path) : path[i] = v[i]
  BY <1>1, PrefixOf
<1>3. /\ Len(child) = Len(path) + 1 /\ child[Len(path) + 1] = n
      /\ \A i \in 1 .. Len(path) : child[i] = path[i]
  BY <1>1, AppendOf
<1>4. \A i \in 1 .. Len(child) : child[i] = v[i]
  BY <1>1, <1>2, <1>3
<1> HIDE DEF child
<1>5. IsPrefix(child, v)
  BY <1>1, <1>2, <1>3, <1>4, PrefixOf
<1>6. CASE child = v
  <2>1. ResolveMappedPath(child) = {mapper[v].real}
    BY <1>1, <1>6 DEF ResolveMappedPath
  <2>2. Kind(child) = {At(mapper[v].real)}
    BY <2>1 DEF Kind, IsMappedOrUnder, GetMappedPathInfo
  <2>3. k = IF mapper[v].dir THEN "dir" ELSE "file"
    BY <1>1, <2>2 DEF AsLoaded, child
  <2> QED
    BY <1>1, <1>3, <1>6, <2>3 DEF Child
<1>7. CASE child # v
  <2>1. IsVirtualDirectory(child)
    BY <1>1, <1>5, <1>7 DEF IsVirtualDirectory, Below, IsStrictPrefix
  <2>2. ResolveMappedPath(child) = {}
    BY <2>1, VirtualIsUnmapped DEF child
  <2>3. k = "dir"
    BY <2>1, <2>2 DEF Kind, IsMappedOrUnder, GetMappedPathInfo, child
  <2>4. Len(v) > Len(path) + 1
    BY <1>1, <1>3, <1>5, <1>7, PrefixOf DEF IsStrictPrefix
  <2> QED
    BY <2>3, <2>4 DEF Child
<1> QED
  BY <1>6, <1>7

-----------------------------------------------------------------------------
(* Mapped directories and Vault *)

\* One path below another, one component longer, by what it is a prefix of.
LEMMA ChildPrefix ==
  ASSUME NEW S, NEW s \in Seq(S), NEW n, Append(s, n) \in Seq(S), NEW t \in Seq(S)
  PROVE  /\ IsPrefix(Append(s, n), t) <=> IsStrictPrefix(s, t) /\ t[Len(s) + 1] = n
         /\ IsStrictPrefix(t, Append(s, n)) <=> IsPrefix(t, s)
<1> DEFINE child == Append(s, n)
<1>1. /\ child \in Seq(S) /\ Len(child) = Len(s) + 1 /\ child[Len(s) + 1] = n
      /\ \A i \in 1 .. Len(s) : child[i] = s[i]
  BY AppendOf
<1> HIDE DEF child
<1>2. (\A i \in 1 .. Len(child) : child[i] = t[i])
        <=> (\A i \in 1 .. Len(s) : s[i] = t[i]) /\ t[Len(s) + 1] = n
  BY <1>1
<1>3. IsPrefix(child, t) <=> Len(child) <= Len(t) /\ \A i \in 1 .. Len(child) : child[i] = t[i]
  BY <1>1, PrefixOf
<1>4. IsStrictPrefix(s, t) <=> Len(s) < Len(t) /\ \A i \in 1 .. Len(s) : s[i] = t[i]
  BY PrefixOf
<1>5. IsPrefix(child, t) <=> IsStrictPrefix(s, t) /\ t[Len(s) + 1] = n
  BY <1>1, <1>2, <1>3, <1>4
<1>6. IsStrictPrefix(t, child) <=> Len(t) < Len(child) /\ \A i \in 1 .. Len(t) : t[i] = child[i]
  BY <1>1, PrefixOf
<1>7. IsPrefix(t, s) <=> Len(t) <= Len(s) /\ \A i \in 1 .. Len(t) : t[i] = s[i]
  BY PrefixOf
<1>8. IsStrictPrefix(t, child) <=> IsPrefix(t, s)
  BY <1>1, <1>6, <1>7
<1> QED
  BY <1>5, <1>8 DEF child

LEMMA ConcatAppend ==
  ASSUME NEW S, NEW s \in Seq(S), NEW t \in Seq(S), NEW n \in S
  PROVE  s \o Append(t, n) = Append(s \o t, n)
<1> DEFINE a == s \o Append(t, n)
           b == Append(s \o t, n)
<1>1. a \in Seq(S) /\ b \in Seq(S) /\ Len(a) = Len(b)
  OBVIOUS
<1>2. \A i \in 1 .. Len(a) : a[i] = b[i]
  OBVIOUS
<1> HIDE DEF a, b
<1>3. a = b
  BY <1>1, <1>2, SeqEqual
<1> QED
  BY <1>3 DEF a, b

\* A mapped directory has one place on disk, and a name in it is what is there.
LEMMA MappedKind ==
  ASSUME TypeInv, Apart, AsLoaded, NEW path \in Paths, path # <<>>, NEW n,
         Append(path, n) \in Paths, NEW r \in ResolveMappedPath(path), At(r) = "dir"
  PROVE  /\ Kind(Append(path, n)) = {At(Append(r, n))}
         /\ Append(path, n) \notin DOMAIN mapper
         /\ Append(r, n) \in ResolveMappedPath(Append(path, n))
<1> DEFINE child == Append(path, n)
           Rest(p, v) == SubSeq(p, Len(v) + 1, Len(p))
<1>1. path \in Seq(EntryNames) /\ child \in Seq(EntryNames)
  BY Texts
<1>2. PICK v \in DOMAIN mapper : /\ mapper[v].dir /\ v # <<>> /\ IsPrefix(v, path)
                                 /\ r = mapper[v].real \o Rest(path, v)
  <2>1. CASE path \in DOMAIN mapper
    <3>1. r = mapper[path].real
      BY <2>1 DEF ResolveMappedPath
    <3>2. mapper[path].dir
      BY <2>1, <3>1 DEF AsLoaded
    <3>3. mapper[path].real \in Seq(EntryNames)
      BY <2>1, Texts DEF TypeInv
    <3>4. r = mapper[path].real \o Rest(path, path)
      BY <1>1, <3>1, <3>3
    <3>5. IsPrefix(path, path)
      BY <1>1, PrefixOf
    <3> QED
      BY <2>1, <3>2, <3>4, <3>5
  <2>2. CASE path \notin DOMAIN mapper
    BY <2>2 DEF ResolveMappedPath, IsUnder, IsStrictPrefix
  <2> QED
    BY <2>1, <2>2
<1>3. v \in Seq(EntryNames) /\ mapper[v].real \in Seq(EntryNames)
  BY Texts DEF TypeInv
<1>4. IsStrictPrefix(v, child)
  BY <1>1, <1>2, <1>3, ChildPrefix
<1>5. child \notin DOMAIN mapper
  BY <1>2, <1>4 DEF Apart, IsStrictPrefix
<1>6. ASSUME NEW w \in DOMAIN mapper, IsUnder(child, w) PROVE w = v
  <2>1. w \in Seq(EntryNames)
    BY Texts
  <2>2. IsPrefix(w, child) /\ IsPrefix(v, child)
    BY <1>4, <1>6 DEF IsUnder, IsStrictPrefix
  <2>3. IsPrefix(v, w) \/ IsPrefix(w, v)
    BY <1>1, <1>3, <2>1, <2>2, PrefixesComparable
  <2> QED
    BY <1>2, <2>3 DEF Apart
<1>7. ResolveMappedPath(child) = {mapper[v].real \o Rest(child, v)}
  BY <1>2, <1>4, <1>5, <1>6 DEF ResolveMappedPath, IsUnder
<1>8. mapper[v].real \o Rest(child, v) = Append(r, n)
  <2>1. Len(v) <= Len(path) /\ n \in EntryNames
    BY <1>1, <1>2, <1>3, PrefixOf, AppendOf
  <2>2. Rest(child, v) = Append(Rest(path, v), n)
    <3>1. Len(Rest(path, v)) = Len(path) - Len(v) /\ Rest(path, v) \in Seq(EntryNames)
      BY <1>1, <1>3, <2>1
    <3>2. Len(Rest(child, v)) = Len(path) + 1 - Len(v) /\ Rest(child, v) \in Seq(EntryNames)
      BY <1>1, <1>3, <2>1
    <3>3. \A i \in 1 .. Len(path) - Len(v) : Rest(child, v)[i] = Rest(path, v)[i]
      BY <1>1, <1>3, <2>1
    <3>4. Rest(child, v)[Len(path) + 1 - Len(v)] = n
      BY <1>1, <1>3, <2>1
    <3>5. /\ Append(Rest(path, v), n) \in Seq(EntryNames)
          /\ Len(Append(Rest(path, v), n)) = Len(path) + 1 - Len(v)
          /\ Append(Rest(path, v), n)[Len(path) + 1 - Len(v)] = n
          /\ \A i \in 1 .. Len(path) - Len(v) : Append(Rest(path, v), n)[i] = Rest(path, v)[i]
      BY <1>1, <1>3, <2>1, <3>1
    <3> HIDE DEF Rest
    <3> DEFINE a == Rest(child, v)
               b == Append(Rest(path, v), n)
    <3>6. \A i \in 1 .. Len(a) : a[i] = b[i]
      BY <1>1, <1>3, <2>1, <3>2, <3>3, <3>4, <3>5
    <3>7. a \in Seq(EntryNames) /\ b \in Seq(EntryNames) /\ Len(a) = Len(b)
      BY <3>2, <3>5
    <3> HIDE DEF a, b
    <3>8. a = b
      BY <3>6, <3>7, SeqEqual
    <3> QED
      BY <3>8 DEF a, b
  <2>3. Rest(path, v) \in Seq(EntryNames)
    BY <1>1, <1>3, <2>1
  <2> DEFINE s == mapper[v].real
             t == Rest(path, v)
  <2>4. s \in Seq(EntryNames) /\ t \in Seq(EntryNames) /\ n \in EntryNames
    BY <1>3, <2>1, <2>3
  <2>5. r = s \o t /\ mapper[v].real \o Rest(child, v) = s \o Append(t, n)
    BY <1>2, <2>2
  <2> HIDE DEF s, t, Rest, child
  <2>6. s \o Append(t, n) = Append(s \o t, n)
    BY <2>4, ConcatAppend
  <2> QED
    BY <2>5, <2>6
<1>9. ~IsVirtualDirectory(child)
  <2> SUFFICES ASSUME NEW w \in DOMAIN mapper, IsStrictPrefix(child, w) PROVE FALSE
    BY DEF IsVirtualDirectory, Below
  <2>1. w \in Seq(EntryNames)
    BY Texts
  <2> HIDE DEF child
  <2>2. IsPrefix(v, w) /\ Len(v) < Len(w)
    BY <1>1, <1>3, <1>4, <2>1, PrefixOf
  <2> QED
    BY <2>2 DEF Apart
<1> HIDE DEF child
<1>10. Kind(child) = {At(mapper[v].real \o Rest(child, v))}
  BY <1>7 DEF Kind, IsMappedOrUnder, GetMappedPathInfo
<1>11. /\ Kind(child) = {At(Append(r, n))}
       /\ child \notin DOMAIN mapper
       /\ Append(r, n) \in ResolveMappedPath(child)
  BY <1>5, <1>7, <1>8, <1>10
<1> QED
  BY <1>11 DEF child

\* What is below an unmapped directory that leads to no mapping is no mapping.
LEMMA UnmappedKind ==
  ASSUME TypeInv, NEW path \in Paths, path # <<>>, ~IsMappedOrUnder(path), NEW n,
         Append(path, n) \in Paths
  PROVE  Kind(Append(path, n)) = {VaultKind(Append(path, n))}
<1> DEFINE child == Append(path, n)
<1>0. path \in Seq(EntryNames) /\ child \in Seq(EntryNames)
  BY Texts
<1>1. path \in Seq(EntryNames) /\ child \in Seq(EntryNames) /\ child # <<>>
  BY <1>0, AppendOf
<1>2. ASSUME NEW v \in DOMAIN mapper PROVE ~IsStrictPrefix(path, v)
  BY DEF IsMappedOrUnder, IsVirtualDirectory, Below
<1>3. ASSUME NEW v \in DOMAIN mapper, IsPrefix(child, v) PROVE FALSE
  <2>1. v \in Seq(EntryNames)
    BY Texts
  <2> QED
    BY <1>1, <1>2, <1>3, <2>1, ChildPrefix
<1>4. ASSUME NEW v \in DOMAIN mapper, mapper[v].dir, IsUnder(child, v) PROVE FALSE
  <2>1. v \in Seq(EntryNames)
    BY Texts
  <2>2. IsPrefix(v, path)
    BY <1>1, <1>4, <2>1, ChildPrefix DEF IsUnder
  <2> QED
    BY <1>4, <2>2 DEF IsMappedOrUnder, ResolveMappedPath, IsUnder, IsStrictPrefix
<1> HIDE DEF child
<1>5. IsPrefix(child, child)
  BY <1>1, PrefixOf
<1>6. ~IsMappedOrUnder(child)
  BY <1>3, <1>4, <1>5
     DEF IsMappedOrUnder, ResolveMappedPath, IsVirtualDirectory, Below, IsStrictPrefix
<1> QED
  BY <1>1, <1>6 DEF Kind, child

\* Below the root, Vault finds what it lists and lists what it finds.
LEMMA VaultAgrees ==
  ASSUME TypeInv, up, NEW path \in Paths, path # <<>>, NEW n, Append(path, n) \in Paths
  PROVE  /\ (\E e \in VaultEntries(path) : e.name = n)
              => Entry(n, VaultKind(Append(path, n))) \in VaultEntries(path)
         /\ VaultKind(Append(path, n)) # "none" => \E e \in VaultEntries(path) : e.name = n
<1> DEFINE child == Append(path, n)
           In(s) == Entry(s[Len(path) + 1], IF Len(s) = Len(path) + 1 THEN "file" ELSE "dir")
<1>1. path \in Seq(EntryNames) /\ child \in Seq(EntryNames) /\ Len(child) = Len(path) + 1
  BY Texts, AppendOf
<1>2. VaultEntries(path) = {In(s) : s \in {s \in Secrets : IsStrictPrefix(path, s)}}
  BY DEF VaultEntries
<1>3. ASSUME NEW s \in Secrets
      PROVE  /\ s \in Seq(EntryNames)
             /\ IsPrefix(child, s) <=> IsStrictPrefix(path, s) /\ s[Len(path) + 1] = n
  BY <1>1, Texts, ChildPrefix
<1> HIDE DEF child
<1>4. ASSUME NEW s \in Secrets, IsPrefix(child, s)
      PROVE  Entry(n, VaultKind(child)) \in VaultEntries(path)
  <2>1. CASE \E t \in Secrets : IsStrictPrefix(child, t)
    <3>1. PICK t \in Secrets : IsStrictPrefix(child, t)
      BY <2>1
    <3>2. VaultKind(child) = "dir"
      BY <2>1 DEF VaultKind
    <3>3. Len(t) > Len(path) + 1
      BY <1>1, <1>3, <3>1, PrefixOf
    <3>4. IsStrictPrefix(path, t) /\ In(t) = Entry(n, "dir")
      BY <1>1, <1>3, <3>1, <3>3 DEF IsStrictPrefix
    <3> QED
      BY <1>2, <3>2, <3>4
  <2>2. CASE ~\E t \in Secrets : IsStrictPrefix(child, t)
    <3>1. child = s
      BY <1>4, <2>2 DEF IsStrictPrefix
    <3>2. VaultKind(child) = "file"
      BY <2>2, <3>1 DEF VaultKind
    <3>3. In(s) = Entry(n, "file") /\ IsStrictPrefix(path, s)
      BY <1>1, <1>3, <1>4, <3>1
    <3> QED
      BY <1>2, <3>2, <3>3
  <2> QED
    BY <2>1, <2>2
<1>5. ASSUME NEW e \in VaultEntries(path), e.name = n
      PROVE  Entry(n, VaultKind(child)) \in VaultEntries(path)
  <2>1. PICK s \in Secrets : IsStrictPrefix(path, s) /\ e = In(s)
    BY <1>2
  <2>2. s[Len(path) + 1] = n
    BY <1>5, <2>1 DEF Entry
  <2> QED
    BY <1>3, <1>4, <2>1, <2>2
<1>6. ASSUME VaultKind(child) # "none"
      PROVE  \E e \in VaultEntries(path) : e.name = n
  <2>1. PICK s \in Secrets : IsPrefix(child, s)
    <3>1. IsPrefix(child, child)
      BY <1>1, PrefixOf
    <3> QED
      BY <1>6, <3>1 DEF VaultKind, IsStrictPrefix
  <2>2. Entry(n, VaultKind(child)) \in VaultEntries(path)
    BY <1>4, <2>1
  <2> QED
    BY <2>2 DEF Entry
<1> QED
  BY <1>5, <1>6 DEF child

-----------------------------------------------------------------------------
(* Readdir and Getattr agree *)

\* The root lists the next step to every mapping, then what Vault adds.
LEMMA RootListing ==
  ASSUME TypeInv, Apart, NEW es, ListingOf(<<>>, es)
  PROVE  es = Merge(AllChildren(<<>>), FromVault(<<>>))
<1>1. <<>> \in Paths
  BY Texts
<1>2. PICK mapped \in IF ListMappedDirectory(<<>>) = {} THEN {{}} ELSE ListMappedDirectory(<<>>),
           roots \in ListVirtualDirectory(<<>>) :
           es = Merge(Merge(mapped, roots), FromVault(<<>>))
  BY DEF ListingOf
<1>3. ListMappedDirectory(<<>>) = ListVirtualDirectory(<<>>)
  BY RootIsUnmapped DEF ListMappedDirectory
<1>4. mapped = AllChildren(<<>>) /\ roots = AllChildren(<<>>)
  BY <1>1, <1>2, <1>3, OneListing
<1>5. Merge(AllChildren(<<>>), AllChildren(<<>>)) = AllChildren(<<>>)
  BY DEF Merge
<1> QED
  BY <1>2, <1>4, <1>5

\* A name at the root that is mapped or leads to a mapping is one of a mapping.
LEMMA MappedAtRoot ==
  ASSUME TypeInv, NEW n, <<n>> \in Paths, IsMappedOrUnder(<<n>>)
  PROVE  \E v \in Below(<<>>) : v[1] = n
<1> DEFINE name == <<n>>
<1>1. /\ <<>> \in Seq(EntryNames) /\ name \in Seq(EntryNames)
      /\ Len(name) = 1 /\ name[1] = n
  BY Texts
<1>2. IsMappedOrUnder(name)
  OBVIOUS
<1> HIDE DEF name
<1>3. ASSUME NEW v \in DOMAIN mapper, IsPrefix(name, v)
      PROVE  v \in Below(<<>>) /\ v[1] = n
  <2>1. v \in Seq(EntryNames)
    BY Texts
  <2>2. Len(name) <= Len(v) /\ \A i \in 1 .. Len(name) : name[i] = v[i]
    BY <1>1, <1>3, <2>1, PrefixOf
  <2>3. Len(<<>>) < Len(v) /\ (\A i \in 1 .. Len(<<>>) : <<>>[i] = v[i]) /\ v[1] = n
    BY <1>1, <2>1, <2>2
  <2>4. IsStrictPrefix(<<>>, v)
    BY <1>1, <2>1, <2>3, PrefixOf
  <2> QED
    BY <2>3, <2>4 DEF Below
<1>4. ASSUME NEW v \in DOMAIN mapper, IsUnder(name, v) PROVE FALSE
  <2>1. v \in Seq(EntryNames) /\ v # <<>>
    BY <1>4, Texts DEF IsUnder
  <2>2. Len(v) < Len(name)
    BY <1>1, <1>4, <2>1, PrefixOf DEF IsUnder
  <2> QED
    BY <1>1, <2>1, <2>2
<1>5. \E v \in DOMAIN mapper : IsPrefix(name, v)
  <2>1. CASE ResolveMappedPath(name) # {}
    <3>1. name \in DOMAIN mapper
      BY <1>4, <2>1 DEF ResolveMappedPath
    <3>2. IsPrefix(name, name)
      BY <1>1, PrefixOf
    <3> QED
      BY <3>1, <3>2
  <2>2. CASE IsVirtualDirectory(name)
    BY <2>2 DEF IsVirtualDirectory, Below, IsStrictPrefix
  <2> QED
    BY <1>2, <2>1, <2>2 DEF IsMappedOrUnder
<1> QED
  BY <1>3, <1>5

\* What Vault has at the root.
LEMMA VaultAtRoot ==
  ASSUME TypeInv, NEW name \in Paths, Len(name) = 1
  PROVE  /\ VaultKind(name) \in {"none", "dir"}
         /\ VaultKind(name) = "dir" => Entry(name[1], "dir") \in FromVault(<<>>)
         /\ up /\ name[1] \in Mounts /\ name \notin EmptyMounts => VaultKind(name) = "dir"
<1> DEFINE n == name[1]
<1>1. name \in Seq(EntryNames)
  BY Texts
<1>2. name \notin Secrets
  <2> SUFFICES ASSUME name \in Secrets PROVE FALSE
    OBVIOUS
  <2>1. Len(name) > 1
    BY Texts
  <2> QED
    BY <2>1
<1>3. ASSUME NEW s \in Secrets
      PROVE  IsStrictPrefix(name, s) <=> s[1] = n
  <2>1. s \in Seq(EntryNames) /\ Len(s) > 1
    BY Texts
  <2>2. IsStrictPrefix(name, s) <=> Len(name) < Len(s) /\ \A i \in 1 .. Len(name) : name[i] = s[i]
    BY <1>1, <2>1, PrefixOf
  <2> QED
    BY <1>1, <2>1, <2>2
<1>4. VaultKind(name) = IF up /\ \E s \in Secrets : s[1] = n THEN "dir" ELSE "none"
  BY <1>2, <1>3 DEF VaultKind
<1>5. ASSUME NEW s \in Secrets, s[1] = n PROVE n \in Mounts
  BY <1>5, Texts
<1>6. n \in Mounts /\ name \notin EmptyMounts => \E s \in Secrets : s[1] = n
  <2>1. name = <<n>>
    BY <1>1
  <2> QED
    BY <2>1 DEF EmptyMounts
<1>7. /\ VaultKind(name) \in {"none", "dir"}
      /\ VaultKind(name) = "dir" => Entry(n, "dir") \in FromVault(<<>>)
      /\ up /\ n \in Mounts /\ name \notin EmptyMounts => VaultKind(name) = "dir"
  BY <1>4, <1>5, <1>6 DEF FromVault, VaultEntries
<1> QED
  BY <1>7

\* A name that is listed is found, of that kind.
LEMMA ListedIsFound ==
  ASSUME TypeInv, Apart, AsLoaded, NEW path \in Paths,
         NEW es, ListingOf(path, es),
         NEW n, Append(path, n) \in Paths, \E e \in es : e.name = n,
         NEW k \in Kind(Append(path, n)),
         ~IsLink(Append(path, n)),
         k = "none" => IsMappedOrUnder(Append(path, n)) \/ Append(path, n) \notin EmptyMounts
  PROVE  Entry(n, k) \in es
<1>1. CASE path = <<>>
  <2>0. ListingOf(<<>>, es)
    BY <1>1
  <2>1. es = Merge(AllChildren(<<>>), FromVault(<<>>))
    BY <2>0, RootListing
  <2>2. Append(path, n) = <<n>>
    BY <1>1
  <2>3. CASE \E v \in Below(<<>>) : v[1] = n
    <3>1. PICK v \in Below(<<>>) : v[1] = n
      BY <2>3
    <3>2. v[Len(path) + 1] = n /\ v \in Below(path)
      BY <1>1, <3>1
    <3>3. Entry(n, k) = Child(path, v)
      BY <3>2, ChildKind
    <3> QED
      BY <1>1, <2>1, <3>1, <3>3 DEF Merge, AllChildren
  <2>4. CASE ~\E v \in Below(<<>>) : v[1] = n
    <3>1. ~IsMappedOrUnder(<<n>>)
      BY <2>2, <2>4, MappedAtRoot
    <3>2. k = VaultKind(<<n>>)
      BY <2>2, <3>1 DEF Kind
    <3>3. \A f \in AllChildren(<<>>) : f.name # n
      BY <2>4 DEF AllChildren, Child, Entry
    <3>4. PICK e \in FromVault(<<>>) : e.name = n
      BY <2>1, <3>3 DEF Merge
    <3>5. up /\ n \in Mounts /\ e = Entry(n, "dir")
      BY <3>4 DEF FromVault, VaultEntries, Entry
    <3>7. <<n>> \in Paths /\ Len(<<n>>) = 1 /\ <<n>>[1] = n
      BY <2>2
    <3>6. k = "dir"
      BY <2>2, <3>1, <3>2, <3>5, <3>7, VaultAtRoot
    <3> QED
      BY <2>1, <3>3, <3>4, <3>5, <3>6 DEF Merge
  <2> QED
    BY <2>3, <2>4
<1>2. CASE path # <<>> /\ IsMappedOrUnder(path)
  <2>0. es \in ListMappedDirectory(path)
    BY <1>2 DEF ListingOf
  <2>1. CASE ResolveMappedPath(path) = {}
    <3>1. es = AllChildren(path)
      BY <2>0, <2>1, OneListing DEF ListMappedDirectory
    <3>2. PICK v \in Below(path) : v[Len(path) + 1] = n
      BY <3>1 DEF AllChildren, Child, Entry
    <3>3. Entry(n, k) = Child(path, v)
      BY <3>2, ChildKind
    <3> QED
      BY <3>1, <3>2, <3>3 DEF AllChildren
  <2>2. CASE ResolveMappedPath(path) # {}
    <3>1. PICK r \in ResolveMappedPath(path) : At(r) = "dir" /\ es = Contents(r)
      BY <2>0, <2>2 DEF ListMappedDirectory
    <3>2. /\ k = At(Append(r, n))
          /\ Append(path, n) \notin DOMAIN mapper
          /\ Append(r, n) \in ResolveMappedPath(Append(path, n))
      BY <1>2, <3>1, MappedKind
    <3>3. Lstat(Append(r, n)) \notin Links
      BY <3>2 DEF IsLink
    <3>4. k = Lstat(Append(r, n))
      BY <3>2, <3>3 DEF At, Links
    <3>5. n \in EntryNames /\ k # "none" /\ Entry(n, IF k = "dir" THEN "dir" ELSE "file") \in es
      BY <3>1, <3>4 DEF Contents, Entry
    <3>6. k \in {"dir", "file"}
      BY <3>2, <3>5, AtType DEF Kinds
    <3> QED
      BY <3>5, <3>6
  <2> QED
    BY <2>1, <2>2
<1>3. CASE path # <<>> /\ ~IsMappedOrUnder(path)
  <2>1. up /\ es = VaultEntries(path)
    BY <1>3 DEF ListingOf, FromVault
  <2>2. k = VaultKind(Append(path, n))
    BY <1>3, UnmappedKind
  <2> QED
    BY <1>3, <2>1, <2>2, VaultAgrees
<1> QED
  BY <1>1, <1>2, <1>3

\* A name that is found is listed.
LEMMA FoundIsListed ==
  ASSUME TypeInv, Apart, AsLoaded, NEW path \in Paths,
         NEW es, ListingOf(path, es),
         NEW n, Append(path, n) \in Paths, NEW k \in Kind(Append(path, n)), k # "none",
         IsVirtualDirectory(path) => path = <<>>
  PROVE  \E e \in es : e.name = n
<1>1. CASE path = <<>>
  <2>0. ListingOf(<<>>, es)
    BY <1>1
  <2>1. es = Merge(AllChildren(<<>>), FromVault(<<>>))
    BY <2>0, RootListing
  <2>2. Append(path, n) = <<n>>
    BY <1>1
  <2>3. CASE \E v \in Below(<<>>) : v[1] = n
    <3>1. PICK v \in Below(<<>>) : v[1] = n
      BY <2>3
    <3>2. Child(<<>>, v) \in es /\ Child(<<>>, v).name = n
      BY <2>1, <3>1 DEF Merge, AllChildren, Child, Entry
    <3> QED
      BY <3>2
  <2>4. CASE ~\E v \in Below(<<>>) : v[1] = n
    <3>1. ~IsMappedOrUnder(<<n>>)
      BY <2>2, <2>4, MappedAtRoot
    <3>2. k = VaultKind(<<n>>)
      BY <2>2, <3>1 DEF Kind
    <3>3. Entry(n, "dir") \in FromVault(<<>>)
      <4>1. <<n>> \in Paths /\ Len(<<n>>) = 1 /\ <<n>>[1] = n
        BY <2>2
      <4> QED
        BY <3>2, <4>1, VaultAtRoot
    <3>4. Entry(n, "dir").name = n
      BY DEF Entry
    <3> QED
      BY <2>1, <3>3, <3>4 DEF Merge
  <2> QED
    BY <2>3, <2>4
<1>2. CASE path # <<>> /\ IsMappedOrUnder(path)
  <2>1. ResolveMappedPath(path) # {} /\ es \in ListMappedDirectory(path)
    BY <1>2 DEF IsMappedOrUnder, ListingOf
  <2>2. PICK r \in ResolveMappedPath(path) : At(r) = "dir" /\ es = Contents(r)
    BY <2>1 DEF ListMappedDirectory
  <2>3. k = At(Append(r, n))
    BY <1>2, <2>2, MappedKind
  <2>4. n \in EntryNames
    <3>1. path \in Seq(EntryNames) /\ Append(path, n) \in Seq(EntryNames)
      BY Texts
    <3> QED
      BY <3>1, AppendOf
  <2>5. Lstat(Append(r, n)) # "none"
    BY <2>3 DEF At
  <2>6. \E e \in Contents(r) : e.name = n
    <3> DEFINE e == Entry(n, IF Lstat(Append(r, n)) = "dir" THEN "dir" ELSE "file")
    <3>1. e \in Contents(r)
      BY <2>4, <2>5 DEF Contents
    <3>2. e.name = n
      BY DEF Entry
    <3> QED
      BY <3>1, <3>2
  <2> QED
    BY <2>2, <2>6
<1>3. CASE path # <<>> /\ ~IsMappedOrUnder(path)
  <2>1. up /\ es = VaultEntries(path)
    BY <1>3 DEF ListingOf, FromVault
  <2>2. k = VaultKind(Append(path, n))
    BY <1>3, UnmappedKind
  <2> QED
    BY <1>3, <2>1, <2>2, VaultAgrees
<1> QED
  BY <1>1, <1>2, <1>3

\* What Readdir lists, Getattr finds, of the kind that was listed, whatever the
\* mappings, the disk and the secrets are; not a link inside a mapped directory.
THEOREM ListedAreFound == Spec => []ListedNamesAreFound
<1>1. IInv => ListedNamesAreFound
  <2> SUFFICES ASSUME IInv, Apart, AsLoaded, NEW e \in listing.entries, BothFresh(e.name),
                      ~IsLink(answer.path),
                      answer.kind = "none" =>
                        IsMappedOrUnder(answer.path) \/ answer.path \notin EmptyMounts
               PROVE  Entry(e.name, answer.kind) \in listing.entries
    BY DEF ListedNamesAreFound
  <2> DEFINE path == listing.path
             n == e.name
  <2>1. /\ ListingOf(path, listing.entries)
        /\ answer.kind \in Kind(Append(path, n))
        /\ answer.path = Append(path, n)
        /\ path \in Paths /\ answer.path \in Paths
        /\ TypeInv
    BY DEF IInv, FreshInv, BothFresh, TypeInv
  <2>2. /\ \E f \in listing.entries : f.name = n
        /\ Append(path, n) \in Paths /\ ~IsLink(Append(path, n))
    BY <2>1
  <2>3. answer.kind = "none" =>
          IsMappedOrUnder(Append(path, n)) \/ Append(path, n) \notin EmptyMounts
    BY <2>1
  <2> HIDE DEF path, n
  <2>4. Entry(n, answer.kind) \in listing.entries
    BY <2>1, <2>2, <2>3, ListedIsFound
  <2> QED
    BY <2>4 DEF n
<1> QED
  BY <1>1, Invariant, PTL

\* What Getattr finds, Readdir lists, but for a virtual directory below the root.
THEOREM FoundAreListed == Spec => []FoundNamesAreListed
<1>1. IInv => FoundNamesAreListed
  <2> DEFINE path == listing.path
             n == Last(answer.path)
  <2> SUFFICES ASSUME IInv, Apart, AsLoaded, answer.kind # "none", BothFresh(n),
                      path = <<>> \/ ~IsVirtualDirectory(path)
               PROVE  \E e \in listing.entries : e.name = n
    BY DEF FoundNamesAreListed
  <2>1. /\ ListingOf(path, listing.entries)
        /\ answer.kind \in Kind(Append(path, n))
        /\ answer.path = Append(path, n)
        /\ path \in Paths /\ answer.path \in Paths
        /\ TypeInv
    BY DEF IInv, FreshInv, BothFresh, TypeInv
  <2>2. Append(path, n) \in Paths /\ (path = <<>> \/ ~IsVirtualDirectory(path))
    BY <2>1
  <2> DEFINE es == listing.entries
             k == answer.kind
  <2>3. /\ TypeInv /\ Apart /\ AsLoaded /\ path \in Paths
        /\ ListingOf(path, es)
        /\ Append(path, n) \in Paths /\ k \in Kind(Append(path, n)) /\ k # "none"
    BY <2>1, <2>2
  <2>4. IsVirtualDirectory(path) => path = <<>>
    BY <2>2
  <2> HIDE DEF path, n, es, k
  <2>5. \E e \in es : e.name = n
    BY <2>3, <2>4, FoundIsListed
  <2> QED
    BY <2>5 DEF es
<1> QED
  BY <1>1, Invariant, PTL

\* Every directory on the way to a mapping is found and lists the next step.
THEOREM MappingsReachable == Spec => []MappingsAreReachable
<1>1. IInv => MappingsAreReachable
  <2> SUFFICES ASSUME IInv, Apart, NEW v \in DOMAIN mapper, NEW i \in 1 .. Len(v),
                      NEW above, above = SubSeq(v, 1, i - 1)
               PROVE  /\ answer.fresh /\ answer.path = above => answer.kind = "dir"
                      /\ listing.fresh /\ listing.path = above
                           => listing.ok /\ Child(above, v) \in listing.entries
    BY DEF MappingsAreReachable
  <2>1. TypeInv /\ v \in Seq(EntryNames)
    BY Texts DEF IInv
  <2>2. /\ above \in Seq(EntryNames) /\ Len(above) = i - 1
        /\ \A j \in 1 .. Len(above) : above[j] = v[j]
    BY <2>1
  <2>3. Len(above) < Len(v)
    BY <2>1, <2>2
  <2>4. v \in Below(above)
    BY <2>1, <2>2, <2>3, PrefixOf DEF Below
  <2>5. ASSUME NEW path \in Paths, path = above
        PROVE  ResolveMappedPath(path) = {} /\ IsMappedOrUnder(path)
    BY <2>1, <2>4, <2>5, VirtualIsUnmapped DEF IsMappedOrUnder, IsVirtualDirectory
  <2>6. ASSUME answer.fresh, answer.path = above PROVE answer.kind = "dir"
    <3>1. answer.kind \in Kind(above) /\ above \in Paths
      BY <2>1, <2>6 DEF IInv, FreshInv, TypeInv
    <3> QED
      BY <2>5, <3>1 DEF Kind, GetMappedPathInfo
  <2>7. ASSUME listing.fresh, listing.path = above
        PROVE  listing.ok /\ Child(above, v) \in listing.entries
    <3>0. above \in Paths
      BY <2>1, <2>7 DEF TypeInv
    <3>1. ~MayFail(above)
      BY <2>5, <3>0 DEF MayFail
    <3>2. listing.ok /\ ListingOf(above, listing.entries)
      BY <2>7, <3>1 DEF IInv, FreshInv
    <3>3. Child(above, v) \in AllChildren(above)
      BY <2>4 DEF AllChildren
    <3>4. CASE above = <<>>
      <4>1. ListingOf(<<>>, listing.entries)
        BY <3>2, <3>4
      <4>2. listing.entries = Merge(AllChildren(<<>>), FromVault(<<>>))
        BY <2>1, <4>1, RootListing
      <4> QED
        BY <3>2, <3>3, <3>4, <4>2 DEF Merge
    <3>5. CASE above # <<>>
      <4>1. listing.entries \in ListVirtualDirectory(above)
        BY <2>5, <3>0, <3>2, <3>5 DEF ListingOf, ListMappedDirectory
      <4> QED
        BY <2>1, <3>0, <3>2, <3>3, <4>1, OneListing
    <3> QED
      BY <3>4, <3>5
  <2> QED
    BY <2>6, <2>7
<1> QED
  BY <1>1, Invariant, PTL
=============================================================================
