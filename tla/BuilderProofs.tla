--------------------------- MODULE BuilderProofs ---------------------------
(***************************************************************************)
(* Proofs about Builder, for any number of builds and any requests: what   *)
(* concurrent builds leave behind, and whose binary and whose policy they  *)
(* end up with.                                                            *)
(***************************************************************************)
EXTENDS Builder, TLAPS

-----------------------------------------------------------------------------
(* Types *)

LEMMA Constants ==
  ASSUME NEW c \in Configs
  PROVE  /\ c.work \in Dirs /\ c.source \in Dirs /\ c.out \in Dirs
         /\ c.policy \in {"none", "url", "local"}
         /\ c.embedFromURL \in BOOLEAN /\ c.embedFiles \in BOOLEAN
         /\ c.os \in {"linux", "darwin", "windows"}
         /\ Output(c) \in Outputs /\ Archive(c) \in Archives
  BY ConfigAssumption DEF Outputs, Archives

LEMMA ContentsType ==
  /\ Absent \in Contents
  /\ \A f \in Contents : [f EXCEPT !.whole = FALSE] \in Contents
  /\ \A f \in Contents : f # Absent =>
       /\ f.by \in Builds /\ f.whole \in BOOLEAN
       /\ [f EXCEPT !.whole = FALSE] # Absent
<1> USE NamesAssumption DEF Contents, Absent
<1>1. Absent \in Contents
  OBVIOUS
<1>2. ASSUME NEW f \in Contents PROVE [f EXCEPT !.whole = FALSE] \in Contents
  <2>1. CASE f = Absent
    <3>1. /\ f \in [by : {None}, whole : BOOLEAN, policy : {None}, path : {"none"}]
          /\ f.whole = FALSE
      BY <2>1
    <3>2. [f EXCEPT !.whole = FALSE] = f
      BY <3>1
    <3> QED
      BY <3>2
  <2>2. CASE f \in [by : Builds, whole : BOOLEAN, policy : Policies,
                    path : {"none", "url", "local", "temp"}]
    BY <2>2
  <2> QED
    BY <2>1, <2>2
<1>3. ASSUME NEW f \in Contents, f # Absent
      PROVE  f.by \in Builds /\ f.whole \in BOOLEAN /\ [f EXCEPT !.whole = FALSE] # Absent
  BY <1>3
<1> QED
  BY <1>1, <1>2, <1>3

LEMMA LinkedType ==
  ASSUME TypeOK, NEW b \in Builds
  PROVE  /\ Linked(b) \in Contents
         /\ Linked(b).by = b /\ Linked(b).whole
<1>1. CompiledIn(Cfg(b).source) = None
  BY DEF CompiledIn, Ignored, GeneratedFile
<1>2. build[b].path \in {"none", "url", "local", "temp"}
  BY DEF TypeOK, States
<1> QED
  BY <1>1, <1>2 DEF Linked, Contents, Policies

LEMMA BuildType ==
  ASSUME TypeOK, NEW b \in Builds
  PROVE  build[b] \in States /\ Cfg(b) \in Configs
  BY DEF TypeOK, States, Cfg

\* What go build's copy does to the other builds: downloads of the file are torn.
LEMMA CopyEffect ==
  ASSUME TypeOK, NEW b \in Builds, StartCopy(b)
  PROVE  /\ build' \in [Builds -> States]
         /\ build'[b] = [build[b] EXCEPT !.pc = "copying"]
         /\ \A a \in Builds \ {b} :
              build'[a] =
                 IF At(a, "downloading") /\ <<DefaultOut, BinaryName(Cfg(a))>> = Output(Cfg(b))
                 THEN [build[a] EXCEPT
                         !.received = [build[a].received EXCEPT !.whole = FALSE]]
                 ELSE build[a]
<1> DEFINE o == Output(Cfg(b))
           New(a) == IF At(a, "downloading") /\ <<DefaultOut, BinaryName(Cfg(a))>> = o
                     THEN [build[a] EXCEPT !.received.whole = FALSE] ELSE build[a]
           torn == Torn(o)
<1>1. torn = [a \in Builds |-> New(a)]
  BY DEF Torn
<1>2. build' = [torn EXCEPT ![b].pc = "copying"]
  BY DEF StartCopy
<1>3. ASSUME NEW a \in Builds
      PROVE  New(a) = IF At(a, "downloading") /\ <<DefaultOut, BinaryName(Cfg(a))>> = o
                      THEN [build[a] EXCEPT !.received = [build[a].received EXCEPT !.whole = FALSE]]
                      ELSE build[a]
  BY DEF TypeOK, States
<1>4. ASSUME NEW a \in Builds PROVE New(a) \in States
  <2>1. build[a] \in States /\ [build[a].received EXCEPT !.whole = FALSE] \in Contents
    BY BuildType, ContentsType DEF States
  <2> HIDE DEF New
  <2> QED
    BY <1>3, <2>1 DEF States
<1>5. ~At(b, "downloading")
  BY DEF StartCopy, At
<1>6. New(b) = build[b]
  BY <1>5
<1> HIDE DEF New, torn
<1>7. [New(b) EXCEPT !.pc = "copying"] \in States
  BY <1>4 DEF States, Stages
<1>8. build' = [a \in Builds |-> IF a = b THEN [New(b) EXCEPT !.pc = "copying"] ELSE New(a)]
  BY <1>1, <1>2
<1> QED
  BY <1>3, <1>4, <1>6, <1>7, <1>8 DEF o

LEMMA TypeInit == Init => TypeOK
<1> SUFFICES ASSUME Init PROVE TypeOK
  OBVIOUS
<1>1. ASSUME NEW c \in Configs
      PROVE  [Fresh(c) EXCEPT !.pc = "idle"] \in States
  BY Constants, ContentsType DEF Fresh, States, Stages, Policies
<1>2. build \in [Builds -> States]
  BY <1>1 DEF Init
<1>3. ASSUME NEW b \in Builds PROVE build[b].pc = "idle"
  <2>1. PICK c \in Configs : build[b] = [Fresh(c) EXCEPT !.pc = "idle"]
    BY DEF Init
  <2> QED
    BY <2>1 DEF Fresh
<1> QED
  BY <1>2, <1>3, ContentsType DEF Init, TypeOK, Policies

\* A step that gives one build a new state.
LEMMA BecomesType ==
  ASSUME TypeOK, NEW b \in Builds, NEW s \in States, Becomes(b, s),
         s.pc = "downloading" => s.received # Absent
  PROVE  /\ build' \in [Builds -> States]
         /\ \A a \in Builds : build'[a].pc = "downloading" => build'[a].received # Absent
  BY DEF Becomes, TypeOK

\* What a step may do to the files.
FilesType ==
    /\ policies \in [Dirs -> Policies]
    /\ tempDirs \subseteq Dirs
    /\ generated \in [Dirs -> Policies]
    /\ binaries \in [Outputs -> Contents]
    /\ archives \in [Archives -> Contents]
    /\ met \in [Builds -> SUBSET Builds]
    /\ spilled \subseteq Dirs

LEMMA TypeByParts ==
  ASSUME FilesType', build' \in [Builds -> States],
         \A a \in Builds : build'[a].pc = "downloading" => build'[a].received # Absent
  PROVE  TypeOK'
  BY DEF FilesType, TypeOK

LEMMA TypeStep == TypeOK /\ [Next]_vars => TypeOK'
<1> SUFFICES ASSUME TypeOK, [Next]_vars PROVE TypeOK'
  OBVIOUS
<1>0. FilesType
  BY DEF TypeOK, FilesType
<1>1. CASE UNCHANGED vars
  BY <1>1 DEF vars, TypeOK
<1>2. ASSUME NEW b \in Builds, Step(b) PROVE TypeOK'
  <2> USE DEF Goto, At, Policyfiles, Outputfiles, History
  <2>t. build[b] \in States /\ Cfg(b) \in Configs
    BY BuildType
  <2>c. /\ Cfg(b).work \in Dirs /\ Cfg(b).source \in Dirs /\ Cfg(b).out \in Dirs
        /\ Output(Cfg(b)) \in Outputs /\ Archive(Cfg(b)) \in Archives
    BY <2>t, Constants
  <2>n. ASSUME NEW s \in States, Becomes(b, s), s.pc # "downloading", FilesType'
        PROVE  TypeOK'
    BY <2>n, BecomesType, TypeByParts
  <2>1. CASE Begin(b)
    <3> DEFINE s == [build[b] EXCEPT !.pc = "start"]
    <3>1. s \in States /\ s.pc # "downloading"
      BY <2>t DEF States, Stages
    <3>2. FilesType'
      BY <1>0, <2>1 DEF Begin, FilesType, Active
    <3> QED
      BY <2>1, <2>n, <3>1, <3>2 DEF Begin
  <2>2. CASE Fails(b)
    <3> DEFINE s == [build[b] EXCEPT !.pc = "clean"]
    <3>1. s \in States /\ s.pc # "downloading"
      BY <2>t DEF States, Stages
    <3>2. FilesType'
      BY <1>0, <2>2 DEF Fails, FilesType
    <3> QED
      BY <2>2, <2>n, <3>1, <3>2 DEF Fails
  <2>3. CASE Fetch(b)
    <3> DEFINE s == [build[b] EXCEPT !.pc = IF Downloads(Cfg(b)) THEN "fetched" ELSE "embed"]
    <3>1. s \in States /\ s.pc # "downloading"
      BY <2>t DEF States, Stages
    <3>2. FilesType'
      BY <1>0, <2>3 DEF Fetch, FilesType
    <3> QED
      BY <2>3, <2>n, <3>1, <3>2 DEF Fetch
  <2>4. CASE MakeTempDir(b)
    <3> DEFINE s == [build[b] EXCEPT !.pc = "dirmade"]
    <3>1. s \in States /\ s.pc # "downloading"
      BY <2>t DEF States, Stages
    <3>2. FilesType'
      BY <1>0, <2>4, <2>c DEF MakeTempDir, FilesType
    <3> QED
      BY <2>4, <2>n, <3>1, <3>2 DEF MakeTempDir
  <2>5. CASE WritePolicy(b)
    <3> DEFINE s == [build[b] EXCEPT !.pc = "embed", !.path = "temp", !.removePolicies = TRUE]
    <3>1. s \in States /\ s.pc # "downloading"
      BY <2>t DEF States, Stages
    <3>2. FilesType'
      BY <1>0, <2>5, <2>c DEF WritePolicy, FilesType, Policies
    <3> QED
      BY <2>5, <2>n, <3>1, <3>2 DEF WritePolicy
  <2>6. CASE PolicyDirGone(b) \/ PolicyGone(b)
    <3> DEFINE s == [build[b] EXCEPT !.pc = "clean", !.lost = TRUE]
    <3>1. s \in States /\ s.pc # "downloading"
      BY <2>t DEF States, Stages
    <3>2. FilesType'
      BY <1>0, <2>6 DEF PolicyDirGone, PolicyGone, FilesType
    <3> QED
      BY <2>6, <2>n, <3>1, <3>2 DEF PolicyDirGone, PolicyGone
  <2>7. CASE PolicyNotWritten(b) \/ NotGenerated(b)
    <3> DEFINE s == [build[b] EXCEPT !.pc = "clean"]
    <3>1. s \in States /\ s.pc # "downloading" /\ build[b].text \in Policies
      BY <2>t DEF States, Stages
    <3>2. FilesType'
      BY <1>0, <2>7, <2>c, <3>1 DEF PolicyNotWritten, NotGenerated, FilesType
    <3> QED
      BY <2>7, <2>n, <3>1, <3>2 DEF PolicyNotWritten, NotGenerated
  <2>8. CASE NothingToEmbed(b)
    <3> DEFINE s == [build[b] EXCEPT !.pc = "build"]
    <3>1. s \in States /\ s.pc # "downloading"
      BY <2>t DEF States, Stages
    <3>2. FilesType'
      BY <1>0, <2>8 DEF NothingToEmbed, FilesType
    <3> QED
      BY <2>8, <2>n, <3>1, <3>2 DEF NothingToEmbed
  <2>9. CASE ReadPolicies(b)
    <3>1. PICK text \in Policies : Becomes(b, [build[b] EXCEPT !.pc = "generate", !.text = text])
      BY <1>0, <2>9, <2>c DEF ReadPolicies, FilesType, Policies
    <3> DEFINE s == [build[b] EXCEPT !.pc = "generate", !.text = text]
    <3>2. s \in States /\ s.pc # "downloading"
      BY <2>t DEF States, Stages
    <3>3. FilesType'
      BY <1>0, <2>9 DEF ReadPolicies, FilesType
    <3> QED
      BY <2>n, <3>1, <3>2, <3>3
  <2>10. CASE Generate(b)
    <3> DEFINE s == [build[b] EXCEPT !.pc = "build", !.path = "none",
                                     !.removeGenerated = (build[b].text # None)]
    <3>1. s \in States /\ s.pc # "downloading" /\ build[b].text \in Policies
      BY <2>t DEF States, Stages
    <3>2. FilesType'
      BY <1>0, <2>10, <2>c, <3>1 DEF Generate, FilesType
    <3> QED
      BY <2>10, <2>n, <3>1, <3>2 DEF Generate
  <2>11. CASE Rename(b)
    <3> DEFINE s == [build[b] EXCEPT !.pc = "built"]
    <3>1. s \in States /\ s.pc # "downloading"
      BY <2>t DEF States, Stages
    <3>2. FilesType'
      BY <1>0, <2>11, <2>c, LinkedType DEF Rename, FilesType
    <3> QED
      BY <2>11, <2>n, <3>1, <3>2 DEF Rename
  <2>12. CASE StartCopy(b)
    <3>1. [Linked(b) EXCEPT !.whole = FALSE] \in Contents
      BY LinkedType, ContentsType
    <3>2. FilesType'
      BY <1>0, <2>12, <2>c, <3>1 DEF StartCopy, FilesType
    <3>3. ASSUME NEW a \in Builds, build'[a].pc = "downloading" PROVE build'[a].received # Absent
      <4>1. a # b /\ build[a] \in States
        BY <2>12, <2>t, <3>3, CopyEffect, BuildType DEF States
      <4>2. build[a].pc = "downloading" /\ build[a].received # Absent
        BY <2>12, <3>3, <4>1, CopyEffect DEF TypeOK, States
      <4> QED
        BY <2>12, <4>1, <4>2, CopyEffect, ContentsType DEF States
    <3>4. build' \in [Builds -> States]
      BY <2>12, CopyEffect
    <3> QED
      BY <3>2, <3>3, <3>4, TypeByParts
  <2>13. CASE FinishCopy(b)
    <3> DEFINE s == [build[b] EXCEPT !.pc = "built"]
    <3>1. s \in States /\ s.pc # "downloading"
      BY <2>t DEF States, Stages
    <3>2. binaries[Output(Cfg(b))] \in Contents
      BY <1>0, <2>c DEF FilesType
    <3>3. PICK file \in {Linked(b), binaries[Output(Cfg(b))],
                         [binaries[Output(Cfg(b))] EXCEPT !.whole = FALSE]} :
             binaries' = [binaries EXCEPT ![Output(Cfg(b))] = file]
      BY <2>13 DEF FinishCopy
    <3>4. file \in Contents
      BY <3>2, <3>3, LinkedType, ContentsType
    <3>5. FilesType'
      BY <1>0, <2>13, <3>3, <3>4 DEF FinishCopy, FilesType
    <3> QED
      BY <2>13, <2>n, <3>1, <3>5 DEF FinishCopy
  <2>14. CASE Checksum(b) \/ Stat(b)
    <3> DEFINE file == binaries[Output(Cfg(b))]
    <3>1. file \in Contents
      BY <1>0, <2>c DEF FilesType
    <3> HIDE DEF file
    <3> DEFINE s == [build[b] EXCEPT !.pc = "summed", !.checksum = file]
               t == [build[b] EXCEPT !.pc = "clean", !.ok = TRUE, !.size = file]
    <3>2. s \in States /\ s.pc # "downloading" /\ t \in States /\ t.pc # "downloading"
      BY <2>t, <3>1 DEF States, Stages
    <3>3. FilesType'
      BY <1>0, <2>14 DEF Checksum, Stat, FilesType
    <3> QED
      BY <2>14, <2>n, <3>2, <3>3 DEF Checksum, Stat, file
  <2>15. CASE RemoveGenerated(b)
    <3> DEFINE s == [build[b] EXCEPT !.removeGenerated = FALSE]
    <3>1. s \in States /\ s.pc # "downloading"
      BY <2>t, <2>15 DEF States, RemoveGenerated
    <3>2. FilesType'
      BY <1>0, <2>15, <2>c DEF RemoveGenerated, FilesType, Policies
    <3> QED
      BY <2>15, <2>n, <3>1, <3>2 DEF RemoveGenerated
  <2>16. CASE RemovePolicies(b)
    <3> DEFINE s == [build[b] EXCEPT !.removePolicies = FALSE]
    <3>1. s \in States /\ s.pc # "downloading"
      BY <2>t, <2>16 DEF States, RemovePolicies
    <3>2. FilesType'
      BY <1>0, <2>16, <2>c DEF RemovePolicies, FilesType, Policies
    <3> QED
      BY <2>16, <2>n, <3>1, <3>2 DEF RemovePolicies
  <2>17. CASE Respond(b)
    <3> DEFINE s == [build[b] EXCEPT !.pc = IF build[b].ok THEN "done" ELSE "ended"]
    <3>1. s \in States /\ s.pc # "downloading"
      BY <2>t DEF States, Stages
    <3>2. FilesType'
      BY <1>0, <2>17 DEF Respond, FilesType
    <3> QED
      BY <2>17, <2>n, <3>1, <3>2 DEF Respond
  <2>18. CASE CreateArchive(b)
    <3> DEFINE file == binaries[Output(Cfg(b))]
               s == [build[b] EXCEPT !.archived = file]
    <3>1. file \in Contents
      BY <1>0, <2>c DEF FilesType
    <3> HIDE DEF file
    <3>2. s \in States /\ s.pc # "downloading"
      BY <2>t, <2>18, <3>1 DEF States, Stages, CreateArchive
    <3>3. FilesType'
      BY <1>0, <2>18, <2>c, <3>1 DEF CreateArchive, FilesType, file
    <3> QED
      BY <2>18, <2>n, <3>2, <3>3 DEF CreateArchive, file
  <2>19. CASE OpenDownload(b)
    <3> DEFINE s == [build[b] EXCEPT !.pc = IF Served(b) = Absent THEN "ended" ELSE "downloading",
                                     !.received = Served(b)]
    <3>1. Served(b) \in Contents
      BY <1>0, ContentsType DEF Served, FilesType
    <3>2. s \in States /\ (s.pc = "downloading" => s.received # Absent)
      BY <2>t, <3>1 DEF States, Stages
    <3>3. FilesType'
      BY <1>0, <2>19 DEF OpenDownload, FilesType
    <3>4. Becomes(b, s)
      BY <2>19 DEF OpenDownload
    <3> HIDE DEF s
    <3> QED
      BY <3>2, <3>3, <3>4, BecomesType, TypeByParts
  <2>20. CASE EndDownload(b)
    <3> DEFINE s == [build[b] EXCEPT !.pc = "ended"]
    <3>1. s \in States /\ s.pc # "downloading"
      BY <2>t DEF States, Stages
    <3>2. FilesType'
      BY <1>0, <2>20 DEF EndDownload, FilesType
    <3> QED
      BY <2>20, <2>n, <3>1, <3>2 DEF EndDownload
  <2> QED
    BY <1>2, <2>1, <2>2, <2>3, <2>4, <2>5, <2>6, <2>7, <2>8, <2>9, <2>10, <2>11, <2>12, <2>13,
       <2>14, <2>15, <2>16, <2>17, <2>18, <2>19, <2>20 DEF Step
<1> QED
  BY <1>1, <1>2 DEF Next

\* Every variable of Builder keeps its type, and a download has a file open.
THEOREM TypeCorrect == Spec => []TypeOK
  BY TypeInit, TypeStep, PTL DEF Spec

-----------------------------------------------------------------------------
(* The inductive invariant *)

\* Of two builds under way, each has met the other.
MetInv ==
    /\ \A a, b \in Builds : a # b /\ Active(a) /\ Active(b) => a \in met[b]
    /\ \A b \in Builds : At(b, "idle") => met[b] = {}

Late == {"build", "copying", "built", "summed", "clean"}

\* Whatever is in the shared directories has a build that will remove it.
LeftInv ==
    /\ \A b \in Builds :
          /\ build[b].removeGenerated => build[b].pc \in Late
          /\ build[b].removePolicies => build[b].pc \in Late \cup {"embed", "generate"}
    /\ \A d \in Dirs \ spilled :
          /\ d \in tempDirs =>
               \E b \in Builds : Cfg(b).work = d /\ (At(b, "dirmade") \/ build[b].removePolicies)
          /\ policies[d] # None =>
               \E b \in Builds : Cfg(b).work = d /\ build[b].removePolicies
          /\ generated[d] # None =>
               \E b \in Builds : Cfg(b).source = d /\ build[b].removeGenerated

MetSameWork(b) == \E a \in met[b] : Downloads(Cfg(a)) /\ Cfg(a).work = Cfg(b).work

\* Where a build's policy comes from, and that it stays until the build has read it.
PolicyOf(b) ==
    /\ build[b].pc \in {"fetched", "dirmade"} => Downloads(Cfg(b))
    /\ build[b].path = "temp" \/ build[b].removePolicies => Downloads(Cfg(b))
    /\ build[b].pc \in {"idle", "start", "fetched", "dirmade", "embed"} =>
         build[b].path \in {Cfg(b).policy, "temp"}
    /\ ~MetSameWork(b) =>
         /\ At(b, "dirmade") => Cfg(b).work \in tempDirs
         /\ At(b, "embed") /\ build[b].path = "temp" => policies[Cfg(b).work] = b
         /\ ~build[b].lost
         /\ Downloads(Cfg(b)) => build[b].text \in {None, b}

PolicyInv == \A b \in Builds : PolicyOf(b)

Own(b, file) == file.by = b /\ file.whole

Result(b) == binaries[Output(Cfg(b))]

\* A build that has ended well has this file.
Finished(b) == At(b, "summed") \/ (build[b].ok /\ build[b].pc \in {"clean", "done"})

ResultOf(b) ==
    /\ build[b].ok => build[b].pc \in {"clean", "done", "downloading", "ended"}
    /\ At(b, "done") => build[b].ok
    /\ ~MetSameOutput(b) =>
         /\ At(b, "copying") => Result(b).by = b
         /\ At(b, "built") => Own(b, Result(b))
         /\ Finished(b) => Own(b, Result(b)) /\ build[b].checksum = Result(b)
         /\ \A file \in {build[b].checksum, build[b].size, build[b].archived} :
               file # Absent => Own(b, file)
         /\ build[b].ok /\ build[b].pc \in {"downloading", "ended"} /\ Cfg(b).out = DefaultOut
              => build[b].received = build[b].checksum

ResultInv == \A b \in Builds : ResultOf(b)


-----------------------------------------------------------------------------
(* What a step of one build does to the others *)

\* All of a build but the file that it downloads.
Kept(s, t) ==
    /\ t.cfg = s.cfg /\ t.pc = s.pc /\ t.path = s.path /\ t.text = s.text
    /\ t.removeGenerated = s.removeGenerated /\ t.removePolicies = s.removePolicies
    /\ t.ok = s.ok /\ t.lost = s.lost
    /\ t.checksum = s.checksum /\ t.size = s.size /\ t.archived = s.archived

LEMMA StepFrame ==
  ASSUME TypeOK, MetInv, NEW b \in Builds, Step(b)
  PROVE  /\ \A a \in Builds : build'[a].cfg = build[a].cfg
         /\ \A a \in Builds \ {b} : Kept(build[a], build'[a])
         /\ ~StartCopy(b) => \A a \in Builds \ {b} : build'[a] = build[a]
         /\ \A a \in Builds : met[a] \subseteq met'[a]
         /\ spilled \subseteq spilled'
         /\ build'[b].pc # "idle"
         /\ ~Begin(b) => Active(b) /\ met' = met
<1> USE DEF Goto, At, History
<1>1. build \in [Builds -> States] /\ met \in [Builds -> SUBSET Builds]
  BY DEF TypeOK
<1>2. ASSUME NEW s, Becomes(b, s), s.cfg = build[b].cfg, s.pc # "idle"
      PROVE  /\ build'[b].pc # "idle"
             /\ \A a \in Builds : build'[a].cfg = build[a].cfg
             /\ \A a \in Builds \ {b} : build'[a] = build[a]
             /\ \A a \in Builds \ {b} : Kept(build[a], build'[a])
  BY <1>1, <1>2 DEF Becomes, Kept
<1>3. CASE StartCopy(b)
  <2>1. ASSUME NEW a \in Builds \ {b} PROVE Kept(build[a], build'[a])
    <3> DEFINE s == [build[a] EXCEPT !.received = [build[a].received EXCEPT !.whole = FALSE]]
    <3>1. build'[a] \in {build[a], s}
      BY <1>3, CopyEffect
    <3>2. Kept(build[a], s)
      BY <1>1 DEF Kept, States
    <3> QED
      BY <3>1, <3>2 DEF Kept
  <2>2. build'[b].cfg = build[b].cfg /\ build'[b].pc # "idle"
    <3> DEFINE s == [build[b] EXCEPT !.pc = "copying"]
    <3>1. build'[b] = s
      BY <1>3, CopyEffect
    <3>2. s.cfg = build[b].cfg /\ s.pc # "idle"
      BY <1>1 DEF States
    <3> QED
      BY <3>1, <3>2
  <2>3. UNCHANGED <<met, spilled>> /\ Active(b)
    BY <1>3 DEF StartCopy, Active
  <2> QED
    BY <1>3, <2>1, <2>2, <2>3 DEF Kept
<1>4. CASE Begin(b)
  <2>0. \A a \in Builds : met'[a] = IF a = b THEN {c \in Builds : Active(c)}
                                   ELSE IF Active(a) THEN met[a] \cup {b} ELSE met[a]
    BY <1>4 DEF Begin
  <2>1. \A a \in Builds : met[a] \subseteq met'[a]
    BY <1>1, <1>4, <2>0 DEF Begin, MetInv
  <2>2. Becomes(b, [build[b] EXCEPT !.pc = "start"]) /\ spilled' = spilled
    BY <1>4 DEF Begin
  <2> DEFINE s == [build[b] EXCEPT !.pc = "start"]
  <2>3. s.cfg = build[b].cfg /\ s.pc # "idle"
    BY <1>1 DEF States
  <2> QED
    BY <1>2, <1>4, <2>1, <2>2, <2>3
<1>5. CASE ~StartCopy(b) /\ ~Begin(b)
  <2>1. UNCHANGED met /\ spilled \subseteq spilled'
    BY <1>5 DEF Step, Fails, Fetch, MakeTempDir, WritePolicy, PolicyDirGone, PolicyNotWritten,
         NothingToEmbed, ReadPolicies, PolicyGone, Generate, NotGenerated, Rename, FinishCopy,
         Checksum, Stat, RemoveGenerated, RemovePolicies, Respond, CreateArchive, OpenDownload,
         EndDownload
  <2>2. Active(b)
    BY <1>5 DEF Active, Step, Fails, Fetch, MakeTempDir, WritePolicy, PolicyDirGone,
         PolicyNotWritten, NothingToEmbed, ReadPolicies, PolicyGone, Generate, NotGenerated, Rename,
         FinishCopy, Checksum, Stat, RemoveGenerated, RemovePolicies, Respond, CreateArchive,
         OpenDownload, EndDownload
  <2>3. CASE WritePolicy(b) \/ PolicyDirGone(b) \/ PolicyGone(b)
    <3> DEFINE s == [build[b] EXCEPT !.pc = "embed", !.path = "temp", !.removePolicies = TRUE]
               t == [build[b] EXCEPT !.pc = "clean", !.lost = TRUE]
    <3>1. /\ s.cfg = build[b].cfg /\ s.pc # "idle"
          /\ t.cfg = build[b].cfg /\ t.pc # "idle"
      BY <1>1 DEF States
    <3>2. Becomes(b, s) \/ Becomes(b, t)
      BY <2>3 DEF WritePolicy, PolicyDirGone, PolicyGone
    <3> QED
      BY <1>2, <1>5, <2>1, <2>2, <3>1, <3>2
  <2>4. CASE ReadPolicies(b)
    <3>1. PICK text : Becomes(b, [build[b] EXCEPT !.pc = "generate", !.text = text])
      BY <2>4 DEF ReadPolicies
    <3> DEFINE s == [build[b] EXCEPT !.pc = "generate", !.text = text]
    <3>2. s.cfg = build[b].cfg /\ s.pc # "idle"
      BY <1>1 DEF States
    <3> QED
      BY <1>2, <1>5, <2>1, <2>2, <3>1, <3>2
  <2>5. CASE Generate(b)
    <3> DEFINE s == [build[b] EXCEPT !.pc = "build", !.path = "none",
                                     !.removeGenerated = (build[b].text # None)]
    <3>1. s.cfg = build[b].cfg /\ s.pc # "idle"
      BY <1>1 DEF States
    <3>2. Becomes(b, s)
      BY <2>5 DEF Generate
    <3> QED
      BY <1>2, <1>5, <2>1, <2>2, <3>1, <3>2
  <2>6. CASE Checksum(b) \/ Stat(b) \/ CreateArchive(b)
    <3> DEFINE s == [build[b] EXCEPT !.pc = "summed", !.checksum = binaries[Output(Cfg(b))]]
               t == [build[b] EXCEPT !.pc = "clean", !.ok = TRUE,
                                     !.size = binaries[Output(Cfg(b))]]
               u == [build[b] EXCEPT !.archived = binaries[Output(Cfg(b))]]
    <3>1. /\ s.cfg = build[b].cfg /\ s.pc # "idle"
          /\ t.cfg = build[b].cfg /\ t.pc # "idle"
          /\ u.cfg = build[b].cfg /\ u.pc # "idle"
      BY <1>1, <2>2 DEF States, Active
    <3>2. Becomes(b, s) \/ Becomes(b, t) \/ Becomes(b, u)
      BY <2>6 DEF Checksum, Stat, CreateArchive
    <3> QED
      BY <1>2, <1>5, <2>1, <2>2, <3>1, <3>2
  <2>7. CASE RemoveGenerated(b) \/ RemovePolicies(b) \/ OpenDownload(b)
    <3> DEFINE s == [build[b] EXCEPT !.removeGenerated = FALSE]
               t == [build[b] EXCEPT !.removePolicies = FALSE]
               u == [build[b] EXCEPT !.pc = IF Served(b) = Absent THEN "ended" ELSE "downloading",
                                     !.received = Served(b)]
    <3>1. /\ s.cfg = build[b].cfg /\ s.pc # "idle"
          /\ t.cfg = build[b].cfg /\ t.pc # "idle"
          /\ u.cfg = build[b].cfg /\ u.pc # "idle"
      BY <1>1, <2>2 DEF States, Active
    <3>2. Becomes(b, s) \/ Becomes(b, t) \/ Becomes(b, u)
      BY <2>7 DEF RemoveGenerated, RemovePolicies, OpenDownload
    <3> QED
      BY <1>2, <1>5, <2>1, <2>2, <3>1, <3>2
  <2>8. CASE \E pc \in Stages \ {"idle"} : Goto(b, pc)
    <3>1. PICK pc \in Stages \ {"idle"} : Goto(b, pc)
      BY <2>8
    <3> DEFINE s == [build[b] EXCEPT !.pc = pc]
    <3>2. s.cfg = build[b].cfg /\ s.pc # "idle"
      BY <1>1 DEF States
    <3> QED
      BY <1>2, <1>5, <2>1, <2>2, <3>1, <3>2
  <2>9. CASE \/ Fails(b) \/ Fetch(b) \/ MakeTempDir(b) \/ PolicyNotWritten(b) \/ NothingToEmbed(b)
             \/ NotGenerated(b) \/ Rename(b) \/ FinishCopy(b) \/ Respond(b) \/ EndDownload(b)
    <3>1. /\ {"clean", "fetched", "dirmade", "embed", "build", "built"} \subseteq Stages \ {"idle"}
          /\ {"done", "ended"} \subseteq Stages \ {"idle"}
      BY DEF Stages
    <3> QED
      BY <2>8, <2>9, <3>1 DEF Fails, Fetch, MakeTempDir, PolicyNotWritten, NothingToEmbed,
           NotGenerated, Rename, FinishCopy, Respond, EndDownload
  <2> QED
    BY <1>5, <2>3, <2>4, <2>5, <2>6, <2>7, <2>9 DEF Step
<1> QED
  BY <1>3, <1>4, <1>5

LEMMA MetStep == TypeOK /\ MetInv /\ [Next]_vars => MetInv'
<1> SUFFICES ASSUME TypeOK, MetInv, [Next]_vars PROVE MetInv'
  OBVIOUS
<1>1. CASE UNCHANGED vars
  BY <1>1, Zenon DEF vars, MetInv, Active, At
<1>2. ASSUME NEW b \in Builds, Step(b) PROVE MetInv'
  <2>1. CASE Begin(b)
    <3>1. \A a \in Builds \ {b} : /\ Active(a)' <=> Active(a)
                                  /\ At(a, "idle")' <=> At(a, "idle")
      BY <1>2, StepFrame DEF Active, At, Kept
    <3>2. \A a \in Builds : met'[a] = IF a = b THEN {c \in Builds : Active(c)}
                                     ELSE IF Active(a) THEN met[a] \cup {b} ELSE met[a]
      BY <2>1 DEF Begin
    <3>3. build'[b].pc = "start"
      BY <2>1 DEF Begin, Goto, Becomes, TypeOK, States
    <3>4. ~Active(b)
      BY <2>1 DEF Begin, At, Active
    <3>5. ASSUME NEW a \in Builds, NEW c \in Builds, a # c, Active(a)', Active(c)'
          PROVE  a \in met'[c]
      BY <3>1, <3>2, <3>5 DEF MetInv
    <3>6. ASSUME NEW a \in Builds, At(a, "idle")' PROVE met'[a] = {}
      BY <3>1, <3>2, <3>3, <3>6 DEF MetInv, At, Active
    <3> QED
      BY <3>5, <3>6 DEF MetInv
  <2>2. CASE ~Begin(b)
    <3>1. \A a \in Builds : Active(a)' => Active(a)
      BY <1>2, <2>2, StepFrame DEF Active, Kept
    <3>2. \A a \in Builds : met[a] \subseteq met'[a]
      BY <1>2, StepFrame
    <3>3. met' = met /\ build'[b].pc # "idle"
      BY <1>2, <2>2, StepFrame
    <3>4. \A a \in Builds : At(a, "idle")' => At(a, "idle")
      BY <1>2, <3>3, StepFrame DEF At, Kept
    <3> QED
      BY <3>1, <3>2, <3>3, <3>4 DEF MetInv
  <2> QED
    BY <2>1, <2>2
<1> QED
  BY <1>1, <1>2 DEF Next

-----------------------------------------------------------------------------
(* Clean-up *)

\* A build that will remove the directory for downloaded policies.
WillClear(s) == s.pc = "dirmade" \/ s.removePolicies

\* What a step of b must respect.
CleanStep(b) ==
    /\ build'[b].removeGenerated => build'[b].pc \in Late
    /\ build'[b].removePolicies => build'[b].pc \in Late \cup {"embed", "generate"}
    /\ \A d \in Dirs \ spilled' :
          /\ d \in tempDirs' =>
               ((d = Cfg(b).work /\ WillClear(build[b])) \/ d \notin tempDirs
                  => d = Cfg(b).work /\ WillClear(build'[b]))
          /\ policies'[d] # None =>
               ((d = Cfg(b).work /\ build[b].removePolicies) \/ policies[d] = None
                  => d = Cfg(b).work /\ build'[b].removePolicies)
          /\ generated'[d] # None =>
               ((d = Cfg(b).source /\ build[b].removeGenerated) \/ generated[d] = None
                  => d = Cfg(b).source /\ build'[b].removeGenerated)

LEMMA CleanStepKeeps ==
  ASSUME TypeOK, MetInv, LeftInv, NEW b \in Builds, Step(b), CleanStep(b)
  PROVE  LeftInv'
<1>1. /\ \A a \in Builds : Cfg(a)' = Cfg(a)
      /\ \A a \in Builds \ {b} : Kept(build[a], build'[a])
      /\ spilled \subseteq spilled'
  BY StepFrame DEF Cfg
<1>2. ASSUME NEW a \in Builds
      PROVE  /\ build'[a].removeGenerated => build'[a].pc \in Late
             /\ build'[a].removePolicies => build'[a].pc \in Late \cup {"embed", "generate"}
  BY <1>1 DEF CleanStep, Kept, LeftInv
<1>3. ASSUME NEW d \in Dirs \ spilled'
      PROVE  /\ d \in tempDirs' =>
                  \E a \in Builds : Cfg(a).work = d /\ WillClear(build'[a])
             /\ policies'[d] # None =>
                  \E a \in Builds : Cfg(a).work = d /\ build'[a].removePolicies
             /\ generated'[d] # None =>
                  \E a \in Builds : Cfg(a).source = d /\ build'[a].removeGenerated
  <2>1. d \in Dirs \ spilled
    BY <1>1
  <2>2. ASSUME d \in tempDirs'
        PROVE  \E a \in Builds : Cfg(a).work = d /\ WillClear(build'[a])
    <3>1. CASE (d = Cfg(b).work /\ WillClear(build[b])) \/ d \notin tempDirs
      BY <2>2, <3>1 DEF CleanStep
    <3>2. CASE ~(d = Cfg(b).work /\ WillClear(build[b])) /\ d \in tempDirs
      <4>1. PICK a \in Builds : Cfg(a).work = d /\ WillClear(build[a])
        BY <2>1, <3>2 DEF LeftInv, WillClear, At
      <4> QED
        BY <1>1, <3>2, <4>1 DEF Kept, WillClear
    <3> QED
      BY <3>1, <3>2
  <2>3. ASSUME policies'[d] # None
        PROVE  \E a \in Builds : Cfg(a).work = d /\ build'[a].removePolicies
    <3>1. CASE (d = Cfg(b).work /\ build[b].removePolicies) \/ policies[d] = None
      BY <1>3, <2>3, <3>1 DEF CleanStep
    <3>2. CASE ~(d = Cfg(b).work /\ build[b].removePolicies) /\ policies[d] # None
      <4>1. PICK a \in Builds : Cfg(a).work = d /\ build[a].removePolicies
        BY <2>1, <3>2 DEF LeftInv
      <4> QED
        BY <1>1, <3>2, <4>1 DEF Kept
    <3> QED
      BY <3>1, <3>2
  <2>4. ASSUME generated'[d] # None
        PROVE  \E a \in Builds : Cfg(a).source = d /\ build'[a].removeGenerated
    <3>1. CASE (d = Cfg(b).source /\ build[b].removeGenerated) \/ generated[d] = None
      BY <1>3, <2>4, <3>1 DEF CleanStep
    <3>2. CASE ~(d = Cfg(b).source /\ build[b].removeGenerated) /\ generated[d] # None
      <4>1. PICK a \in Builds : Cfg(a).source = d /\ build[a].removeGenerated
        BY <2>1, <3>2 DEF LeftInv
      <4> QED
        BY <1>1, <3>2, <4>1 DEF Kept
    <3> QED
      BY <3>1, <3>2
  <2> QED
    BY <2>2, <2>3, <2>4
<1> QED
  BY <1>1, <1>2, <1>3 DEF LeftInv, WillClear, At

LEMMA LeftStep == TypeOK /\ MetInv /\ LeftInv /\ [Next]_vars => LeftInv'
<1> SUFFICES ASSUME TypeOK, MetInv, LeftInv, [Next]_vars PROVE LeftInv'
  OBVIOUS
<1>1. CASE UNCHANGED vars
  <2>1. UNCHANGED <<policies, tempDirs, generated, build, spilled>>
    BY <1>1 DEF vars
  <2> QED
    BY <2>1 DEF LeftInv, Cfg, At
<1>2. ASSUME NEW b \in Builds, Step(b) PROVE LeftInv'
  <2> SUFFICES CleanStep(b)
    BY <1>2, CleanStepKeeps
  <2> USE DEF Goto, At, Becomes, Policyfiles, Outputfiles, History, CleanStep, WillClear, Late
  <2>0. /\ build \in [Builds -> States] /\ build[b] \in States
        /\ policies \in [Dirs -> Policies] /\ generated \in [Dirs -> Policies]
    BY DEF TypeOK
  <2>l. /\ build[b].removeGenerated => build[b].pc \in Late
        /\ build[b].removePolicies => build[b].pc \in Late \cup {"embed", "generate"}
    BY DEF LeftInv
  <2>1. ASSUME UNCHANGED <<policies, tempDirs, generated>>,
               /\ build'[b].removePolicies = build[b].removePolicies
               /\ build'[b].removeGenerated = build[b].removeGenerated,
               build[b].pc = "dirmade" => Cfg(b).work \notin tempDirs \/ Cfg(b).work \in spilled',
               \/ build'[b].pc \in Late
               \/ build'[b].pc = "generate" /\ build[b].pc = "embed"
               \/ build[b].pc \notin Late \cup {"embed", "generate"}
        PROVE  CleanStep(b)
    BY <2>0, <2>1, <2>l
  <2>2. CASE Begin(b) \/ Fails(b) \/ Fetch(b) \/ NothingToEmbed(b)
    BY <2>0, <2>1, <2>2 DEF Begin, Fails, Fetch, NothingToEmbed, States
  <2>3. CASE PolicyDirGone(b) \/ PolicyGone(b)
    <3> DEFINE x == [build[b] EXCEPT !.pc = "clean", !.lost = TRUE]
    <3>1. /\ x.removePolicies = build[b].removePolicies /\ x.pc = "clean"
          /\ x.removeGenerated = build[b].removeGenerated
      BY <2>0 DEF States
    <3>2. UNCHANGED <<policies, tempDirs, generated>> /\ build'[b] = x
      BY <2>0, <2>3 DEF PolicyDirGone, PolicyGone
    <3>3. build[b].pc = "dirmade" => Cfg(b).work \notin tempDirs
      BY <2>3 DEF PolicyDirGone, PolicyGone
    <3> HIDE DEF x
    <3> QED
      BY <2>1, <3>1, <3>2, <3>3
  <2>16. CASE ReadPolicies(b)
    BY <2>0, <2>1, <2>16 DEF ReadPolicies, States
  <2>4. CASE PolicyNotWritten(b)
    BY <2>0, <2>1, <2>4 DEF PolicyNotWritten, States
  <2>5. CASE Rename(b) \/ FinishCopy(b)
    BY <2>0, <2>1, <2>5 DEF Rename, FinishCopy, States
  <2>6. CASE StartCopy(b)
    <3>0. build'[b] = [build[b] EXCEPT !.pc = "copying"]
      BY <2>6, CopyEffect
    <3>1. /\ build'[b].removePolicies = build[b].removePolicies
          /\ build'[b].removeGenerated = build[b].removeGenerated
          /\ build'[b].pc = "copying"
      BY <2>0, <3>0 DEF States
    <3>2. UNCHANGED <<policies, tempDirs, generated>> /\ build[b].pc # "dirmade"
      BY <2>6 DEF StartCopy
    <3> QED
      BY <2>1, <3>1, <3>2
  <2>7. CASE Checksum(b) \/ Stat(b)
    <3> DEFINE file == binaries[Output(Cfg(b))]
               x == [build[b] EXCEPT !.pc = "summed", !.checksum = file]
               y == [build[b] EXCEPT !.pc = "clean", !.ok = TRUE, !.size = file]
    <3>1. /\ x.removePolicies = build[b].removePolicies /\ x.pc = "summed"
          /\ x.removeGenerated = build[b].removeGenerated
          /\ y.removePolicies = build[b].removePolicies /\ y.pc = "clean"
          /\ y.removeGenerated = build[b].removeGenerated
      BY <2>0 DEF States
    <3>2. /\ UNCHANGED <<policies, tempDirs, generated>> /\ build[b].pc # "dirmade"
          /\ build'[b] = x \/ build'[b] = y
      BY <2>0, <2>7 DEF Checksum, Stat
    <3> HIDE DEF x, y
    <3> QED
      BY <2>1, <3>1, <3>2
  <2>8. CASE Respond(b) \/ EndDownload(b)
    BY <2>0, <2>1, <2>8 DEF Respond, EndDownload, States
  <2>9. CASE CreateArchive(b) \/ OpenDownload(b)
    <3>1. /\ build'[b].removePolicies = build[b].removePolicies
          /\ build'[b].removeGenerated = build[b].removeGenerated
          /\ build[b].pc = "done"
      BY <2>0, <2>9 DEF CreateArchive, OpenDownload, States
    <3>2. UNCHANGED <<policies, tempDirs, generated>>
      BY <2>9 DEF CreateArchive, OpenDownload
    <3> QED
      BY <2>1, <3>1, <3>2
  <2>10. CASE MakeTempDir(b)
    BY <2>0, <2>10, <2>l DEF MakeTempDir, States
  <2>11. CASE WritePolicy(b)
    BY <2>0, <2>11, <2>l DEF WritePolicy, States
  <2>12. CASE Generate(b)
    <3>1. /\ build'[b].pc = "build"
          /\ build'[b].removePolicies = build[b].removePolicies
          /\ build'[b].removeGenerated = (build[b].text # None)
      BY <2>0, <2>12 DEF Generate, States
    <3>2. /\ UNCHANGED <<policies, tempDirs>>
          /\ build[b].pc = "generate"
          /\ \A d \in Dirs : generated'[d] = IF d = Cfg(b).source /\ build[b].text # None
                                           THEN build[b].text ELSE generated[d]
      BY <2>0, <2>12 DEF Generate
    <3>3. ~build[b].removeGenerated
      BY <2>l, <3>2
    <3> QED
      BY <2>l, <3>1, <3>2, <3>3
  <2>13. CASE NotGenerated(b)
    BY <2>0, <2>13, <2>l DEF NotGenerated, States
  <2>14. CASE RemoveGenerated(b)
    BY <2>0, <2>14, <2>l DEF RemoveGenerated, States
  <2>15. CASE RemovePolicies(b)
    BY <2>0, <2>15, <2>l DEF RemovePolicies, States
  <2> QED
    BY <1>2, <2>2, <2>3, <2>4, <2>5, <2>6, <2>7, <2>8, <2>9, <2>10, <2>11, <2>12, <2>13, <2>14,
       <2>15, <2>16 DEF Step
<1> QED
  BY <1>1, <1>2 DEF Next

LEMMA LeftInit == Init => MetInv /\ LeftInv
<1> SUFFICES ASSUME Init PROVE MetInv /\ LeftInv
  OBVIOUS
<1>1. ASSUME NEW b \in Builds
      PROVE  build[b].pc = "idle" /\ ~build[b].removePolicies /\ ~build[b].removeGenerated
  <2>1. PICK c \in Configs : build[b] = [Fresh(c) EXCEPT !.pc = "idle"]
    BY DEF Init
  <2> QED
    BY <2>1 DEF Fresh
<1> QED
  BY <1>1 DEF Init, MetInv, LeftInv, Active, At

\* Whatever fails and whichever builds run at the same time, the last build to end
\* leaves no temporary policy and no generated file, but for a write that failed half
\* way (builder.go:149, 164).
THEOREM CleanedUp == Spec => []NothingLeftBehind
<1>1. Init => TypeOK /\ MetInv /\ LeftInv
  BY TypeInit, LeftInit
<1>2. TypeOK /\ MetInv /\ LeftInv /\ [Next]_vars => (TypeOK /\ MetInv /\ LeftInv)'
  BY TypeStep, MetStep, LeftStep
<1>3. TypeOK /\ MetInv /\ LeftInv => NothingLeftBehind
  BY DEF LeftInv, NothingLeftBehind, Building, At, Late
<1> QED
  BY <1>1, <1>2, <1>3, PTL DEF Spec

-----------------------------------------------------------------------------
(* The policy of a build *)

\* Only a build that downloads a policy itself touches those of its work directory.
LEMMA PolicyFiles ==
  ASSUME TypeOK, PolicyInv, NEW b \in Builds, Step(b)
  PROVE  \/ policies' = policies /\ tempDirs \subseteq tempDirs'
         \/ /\ Downloads(Cfg(b)) /\ Active(b)
            /\ \A d \in Dirs \ {Cfg(b).work} :
                  policies'[d] = policies[d] /\ (d \in tempDirs => d \in tempDirs')
<1> USE DEF Policyfiles
<1>0. policies \in [Dirs -> Policies]
  BY DEF TypeOK
<1>1. CASE WritePolicy(b)
  BY <1>0, <1>1 DEF WritePolicy, PolicyInv, PolicyOf, Active, At
<1>2. CASE RemovePolicies(b)
  BY <1>0, <1>2 DEF RemovePolicies, PolicyInv, PolicyOf, Active, At
<1>3. CASE MakeTempDir(b)
  BY <1>3 DEF MakeTempDir
<1>4. CASE ~WritePolicy(b) /\ ~RemovePolicies(b) /\ ~MakeTempDir(b)
  BY <1>4 DEF Step, Begin, Fails, Fetch, PolicyDirGone, PolicyNotWritten, NothingToEmbed,
       ReadPolicies, PolicyGone, Generate, NotGenerated, Rename, StartCopy, FinishCopy, Checksum,
       Stat, RemoveGenerated, Respond, CreateArchive, OpenDownload, EndDownload
<1> QED
  BY <1>1, <1>2, <1>3, <1>4

\* What the other builds of a step rely on.
LEMMA PolicyOthers ==
  ASSUME TypeOK, MetInv, PolicyInv, NEW b \in Builds, Step(b), NEW a \in Builds \ {b}
  PROVE  PolicyOf(a)'
<1>1. /\ Cfg(a)' = Cfg(a) /\ Kept(build[a], build'[a]) /\ met[a] \subseteq met'[a]
      /\ \A c \in Builds : Cfg(c)' = Cfg(c)
  BY StepFrame DEF Cfg
<1>2. PolicyOf(a) /\ met \in [Builds -> SUBSET Builds] /\ Cfg(a).work \in Dirs
  BY BuildType, Constants DEF PolicyInv, TypeOK
<1>3. met'[a] \subseteq Builds
  BY TypeStep DEF TypeOK, Next
<1>4. MetSameWork(a) => MetSameWork(a)'
  BY <1>1, <1>2, <1>3 DEF MetSameWork
<1>5. ASSUME ~MetSameWork(a), Active(a)
      PROVE  /\ policies'[Cfg(a).work] = policies[Cfg(a).work]
             /\ Cfg(a).work \in tempDirs => Cfg(a).work \in tempDirs'
  <2>1. CASE policies' = policies /\ tempDirs \subseteq tempDirs'
    BY <2>1
  <2>2. CASE /\ Downloads(Cfg(b)) /\ Active(b)
             /\ \A d \in Dirs \ {Cfg(b).work} :
                   policies'[d] = policies[d] /\ (d \in tempDirs => d \in tempDirs')
    <3>1. b \in met[a]
      BY <1>5, <2>2 DEF MetInv
    <3>2. Cfg(a).work # Cfg(b).work
      BY <1>5, <2>2, <3>1 DEF MetSameWork
    <3> QED
      BY <1>2, <2>2, <3>2
  <2> QED
    BY <2>1, <2>2, PolicyFiles
<1>6. build[a].pc \in {"dirmade", "embed"} => Active(a)
  BY DEF Active
<1> QED
  BY <1>1, <1>2, <1>4, <1>5, <1>6 DEF PolicyOf, Kept, At

\* The build itself: it reads what it wrote, or met the build that did away with it.
LEMMA PolicyOwn ==
  ASSUME TypeOK, MetInv, PolicyInv, NEW b \in Builds, Step(b)
  PROVE  PolicyOf(b)'
<1> USE DEF Goto, At, Becomes, Policyfiles
<1>0. /\ build \in [Builds -> States] /\ build[b] \in States
      /\ policies \in [Dirs -> Policies] /\ tempDirs \subseteq Dirs
      /\ Cfg(b) \in Configs /\ Cfg(b).work \in Dirs
  BY BuildType, Constants DEF TypeOK
<1>1. Cfg(b)' = Cfg(b) /\ (\A c \in Builds : Cfg(c)' = Cfg(c)) /\ met[b] \subseteq met'[b]
  BY StepFrame DEF Cfg
<1>2. PolicyOf(b)
  BY DEF PolicyInv
<1>3. MetSameWork(b) => MetSameWork(b)'
  <2>1. met'[b] \subseteq Builds /\ met[b] \subseteq Builds
    BY TypeStep DEF TypeOK, Next
  <2> QED
    BY <1>1, <2>1 DEF MetSameWork
\* A step that does not touch what the policy is.
<1>4. ASSUME build'[b].path = build[b].path, build'[b].text = build[b].text,
             build'[b].lost = build[b].lost,
             build'[b].removePolicies => build[b].removePolicies,
             build'[b].pc \notin {"idle", "fetched", "dirmade", "embed"},
             build'[b].pc = "start" => build[b].pc = "idle"
      PROVE  PolicyOf(b)'
  BY <1>1, <1>2, <1>3, <1>4 DEF PolicyOf
<1>5. CASE Begin(b) \/ Fails(b) \/ NothingToEmbed(b)
  BY <1>0, <1>4, <1>5 DEF Begin, Fails, NothingToEmbed, States
<1>6. CASE PolicyNotWritten(b) \/ NotGenerated(b)
  BY <1>0, <1>4, <1>6 DEF PolicyNotWritten, NotGenerated, States
<1>7. CASE Rename(b) \/ FinishCopy(b)
  BY <1>0, <1>4, <1>7 DEF Rename, FinishCopy, States
<1>8. CASE StartCopy(b)
  <2>1. build'[b] = [build[b] EXCEPT !.pc = "copying"]
    BY <1>8, CopyEffect
  <2> QED
    BY <1>0, <1>4, <2>1 DEF States
<1>9. CASE Checksum(b) \/ Stat(b) \/ CreateArchive(b)
  <2> DEFINE file == binaries[Output(Cfg(b))]
             x == [build[b] EXCEPT !.pc = "summed", !.checksum = file]
             y == [build[b] EXCEPT !.pc = "clean", !.ok = TRUE, !.size = file]
             z == [build[b] EXCEPT !.archived = file]
             Same(s) == /\ s.path = build[b].path /\ s.text = build[b].text
                        /\ s.lost = build[b].lost
                        /\ s.removePolicies = build[b].removePolicies
  <2>1. /\ Same(x) /\ x.pc = "summed" /\ Same(y) /\ y.pc = "clean"
        /\ Same(z) /\ z.pc = build[b].pc
    BY <1>0 DEF States
  <2>2. build'[b] = x \/ build'[b] = y \/ (build'[b] = z /\ build[b].pc = "done")
    BY <1>0, <1>9 DEF Checksum, Stat, CreateArchive
  <2> HIDE DEF x, y, z
  <2> QED
    BY <1>4, <2>1, <2>2
<1>10. CASE RemoveGenerated(b) \/ RemovePolicies(b)
  BY <1>0, <1>4, <1>10 DEF RemoveGenerated, RemovePolicies, States
<1>11. CASE Respond(b) \/ EndDownload(b)
  BY <1>0, <1>4, <1>11 DEF Respond, EndDownload, States
<1>12. CASE OpenDownload(b)
  BY <1>0, <1>4, <1>12 DEF OpenDownload, States
<1>13. CASE Fetch(b)
  BY <1>0, <1>1, <1>2, <1>3, <1>13 DEF Fetch, States, PolicyOf, Downloads
<1>14. CASE MakeTempDir(b)
  BY <1>0, <1>1, <1>2, <1>3, <1>14 DEF MakeTempDir, States, PolicyOf
<1>15. CASE WritePolicy(b)
  BY <1>0, <1>1, <1>2, <1>3, <1>15 DEF WritePolicy, States, PolicyOf
<1>16. CASE PolicyDirGone(b)
  BY <1>0, <1>1, <1>2, <1>3, <1>16 DEF PolicyDirGone, States, PolicyOf
<1>17. CASE PolicyGone(b)
  BY <1>0, <1>1, <1>2, <1>3, <1>17, NamesAssumption DEF PolicyGone, States, PolicyOf
<1>18. CASE ReadPolicies(b)
  <2>1. PICK text : /\ Becomes(b, [build[b] EXCEPT !.pc = "generate", !.text = text])
                    /\ build[b].pc = "embed" /\ Embeds(b)
                    /\ text \in IF build[b].path = "local" THEN {Local, None}
                                                          ELSE {policies[Cfg(b).work]} \ {None}
    BY <1>18 DEF ReadPolicies
  <2> DEFINE s == [build[b] EXCEPT !.pc = "generate", !.text = text]
  <2>2. /\ s.pc = "generate" /\ s.text = text /\ s.path = build[b].path /\ s.lost = build[b].lost
        /\ s.removePolicies = build[b].removePolicies
    BY <1>0 DEF States
  <2>3. build'[b] = s
    BY <1>0, <2>1
  <2>4. ~MetSameWork(b) /\ Downloads(Cfg(b)) => text \in {None, b}
    <3>1. Downloads(Cfg(b)) => build[b].path = "temp"
      BY <1>2, <2>1 DEF PolicyOf, Downloads, Embeds
    <3> QED
      BY <1>2, <2>1, <3>1 DEF PolicyOf
  <2> HIDE DEF s
  <2> QED
    BY <1>1, <1>2, <1>3, <2>2, <2>3, <2>4 DEF PolicyOf
<1>19. CASE Generate(b)
  <2> DEFINE s == [build[b] EXCEPT !.pc = "build", !.path = "none",
                                   !.removeGenerated = (build[b].text # None)]
  <2>1. /\ s.pc = "build" /\ s.path = "none" /\ s.text = build[b].text /\ s.lost = build[b].lost
        /\ s.removePolicies = build[b].removePolicies
    BY <1>0 DEF States
  <2>2. build'[b] = s
    BY <1>0, <1>19 DEF Generate
  <2> HIDE DEF s
  <2> QED
    BY <1>1, <1>2, <1>3, <2>1, <2>2 DEF PolicyOf
<1> QED
  BY <1>5, <1>6, <1>7, <1>8, <1>9, <1>10, <1>11, <1>12, <1>13, <1>14, <1>15, <1>16, <1>17, <1>18,
     <1>19 DEF Step

LEMMA PolicyStep == TypeOK /\ MetInv /\ PolicyInv /\ [Next]_vars => PolicyInv'
<1> SUFFICES ASSUME TypeOK, MetInv, PolicyInv, [Next]_vars PROVE PolicyInv'
  OBVIOUS
<1>1. CASE UNCHANGED vars
  <2>1. UNCHANGED <<policies, tempDirs, build, met>>
    BY <1>1 DEF vars
  <2> QED
    BY <2>1 DEF PolicyInv, PolicyOf, MetSameWork, Cfg, At
<1>2. ASSUME NEW b \in Builds, Step(b) PROVE PolicyInv'
  BY <1>2, PolicyOwn, PolicyOthers DEF PolicyInv
<1> QED
  BY <1>1, <1>2 DEF Next

LEMMA PolicyInit == Init => PolicyInv
<1> SUFFICES ASSUME Init, NEW b \in Builds PROVE PolicyOf(b)
  BY DEF PolicyInv
<1>1. PICK c \in Configs : build[b] = [Fresh(c) EXCEPT !.pc = "idle"]
  BY DEF Init
<1>2. /\ build[b].pc = "idle" /\ ~build[b].removePolicies /\ ~build[b].lost
      /\ build[b].text = None /\ build[b].path = c.policy /\ Cfg(b) = c
  BY <1>1 DEF Fresh, Cfg
<1>3. c.policy # "temp"
  BY Constants
<1> QED
  BY <1>2, <1>3 DEF PolicyOf, At

\* A build embeds the policy it downloaded, and finds it, unless it met a build that
\* downloads into the same work directory (builder.go:522, 530, 543).
THEOREM OwnPolicies == Spec => []PoliciesAreOwn
<1>1. Init => TypeOK /\ MetInv /\ PolicyInv
  BY TypeInit, LeftInit, PolicyInit
<1>2. TypeOK /\ MetInv /\ PolicyInv /\ [Next]_vars => (TypeOK /\ MetInv /\ PolicyInv)'
  BY TypeStep, MetStep, PolicyStep
<1>3. PolicyInv => PoliciesAreOwn
  BY DEF PolicyInv, PolicyOf, PoliciesAreOwn, MetSameWork
<1> QED
  BY <1>1, <1>2, <1>3, PTL DEF Spec

-----------------------------------------------------------------------------
(* The results of a build *)

\* Two requests write one file only if they have the same output.
LEMMA OneFile ==
  ASSUME NEW c \in Configs, NEW d \in Configs, Output(c) = Output(d)
  PROVE  SameOutput(c, d)
<1>1. c.out = d.out /\ BinaryName(c) = BinaryName(d)
  BY DEF Output
<1>2. c.os \in {"linux", "darwin", "windows"} /\ d.os \in {"linux", "darwin", "windows"}
  BY Constants
<1>3. CASE c.filename # None /\ d.filename # None
  BY <1>1, <1>2, <1>3 DEF BinaryName, SameOutput
<1>4. CASE c.filename = None /\ d.filename = None
  BY <1>1, <1>4 DEF BinaryName, SameOutput
<1>5. CASE (c.filename = None) # (d.filename = None)
  BY <1>1, <1>5 DEF BinaryName
<1> QED
  BY <1>3, <1>4, <1>5

\* Of two builds under way that write one file, each has met one of its file.
LEMMA Meeting ==
  ASSUME TypeOK, MetInv, NEW a \in Builds, NEW b \in Builds, a # b, Active(a), Active(b),
         Output(Cfg(a)) = Output(Cfg(b))
  PROVE  MetSameOutput(a)
<1>1. b \in met[a]
  BY DEF MetInv
<1>2. SameOutput(Cfg(b), Cfg(a))
  BY BuildType, OneFile
<1> QED
  BY <1>1, <1>2 DEF MetSameOutput

\* What a step does to the output files.
LEMMA BinariesStep ==
  ASSUME TypeOK, NEW b \in Builds, Step(b)
  PROVE  /\ \A o \in Outputs \ {Output(Cfg(b))} : binaries'[o] = binaries[o]
         /\ binaries' # binaries => Active(b)
<1>1. binaries \in [Outputs -> Contents] /\ Output(Cfg(b)) \in Outputs
  BY BuildType, Constants DEF TypeOK
<1>2. CASE Rename(b) \/ StartCopy(b) \/ FinishCopy(b)
  BY <1>1, <1>2 DEF Rename, StartCopy, FinishCopy, At, Active
<1>3. CASE ~Rename(b) /\ ~StartCopy(b) /\ ~FinishCopy(b)
  BY <1>3 DEF Step, Outputfiles, Begin, Fails, Fetch, MakeTempDir, WritePolicy, PolicyDirGone,
       PolicyNotWritten, NothingToEmbed, ReadPolicies, PolicyGone, Generate, NotGenerated,
       Checksum, Stat, RemoveGenerated, RemovePolicies, Respond, CreateArchive, OpenDownload,
       EndDownload
<1> QED
  BY <1>2, <1>3

LEMMA MetGrows ==
  ASSUME TypeOK, MetInv, NEW b \in Builds, Step(b), NEW a \in Builds
  PROVE  MetSameOutput(a) => MetSameOutput(a)'
<1>1. \A c \in Builds : Cfg(c)' = Cfg(c)
  BY StepFrame DEF Cfg
<1>2. met[a] \subseteq met'[a] /\ met[a] \subseteq Builds
  BY StepFrame DEF TypeOK
<1> QED
  BY <1>1, <1>2 DEF MetSameOutput

\* The other builds keep their results.
LEMMA ResultOthers ==
  ASSUME TypeOK, MetInv, ResultInv, NEW b \in Builds, Step(b), NEW a \in Builds \ {b}
  PROVE  ResultOf(a)'
<1>1. Cfg(a)' = Cfg(a) /\ Kept(build[a], build'[a])
  BY StepFrame DEF Cfg
<1>2. ResultOf(a) /\ (MetSameOutput(a) => MetSameOutput(a)')
  BY MetGrows DEF ResultInv
<1>3. ASSUME ~MetSameOutput(a), Active(a)
      PROVE  Result(a)' = Result(a)
  <2>1. Output(Cfg(a)) \in Outputs
    BY BuildType, Constants
  <2>2. CASE binaries' = binaries
    BY <1>1, <2>2 DEF Result
  <2>3. CASE binaries' # binaries
    <3>1. Output(Cfg(a)) # Output(Cfg(b))
      BY <1>3, <2>3, BinariesStep, Meeting
    <3> QED
      BY <1>1, <2>1, <3>1, BinariesStep DEF Result
  <2> QED
    BY <2>2, <2>3
<1>4. ASSUME ~MetSameOutput(a), Cfg(a).out = DefaultOut
      PROVE  build'[a].received = build[a].received
  <2>1. CASE ~StartCopy(b)
    BY <2>1, StepFrame
  <2>2. CASE StartCopy(b)
    <3>1. SUFFICES ASSUME At(a, "downloading"),
                          <<DefaultOut, BinaryName(Cfg(a))>> = Output(Cfg(b))
                   PROVE  FALSE
      BY <2>2, CopyEffect
    <3>2. Output(Cfg(a)) = Output(Cfg(b))
      BY <1>4, <3>1 DEF Output
    <3>3. Active(a) /\ Active(b)
      BY <2>2, <3>1 DEF Active, At, StartCopy
    <3> QED
      BY <1>4, <3>2, <3>3, Meeting
  <2> QED
    BY <2>1, <2>2
<1>5. At(a, "copying") \/ At(a, "built") \/ Finished(a) => Active(a)
  BY DEF At, Finished, Active
<1> QED
  BY <1>1, <1>2, <1>3, <1>4, <1>5 DEF ResultOf, Kept, At, Finished

\* The build itself reports, packs and serves the file that it has written.
LEMMA ResultOwn ==
  ASSUME TypeOK, MetInv, ResultInv, NEW b \in Builds, Step(b)
  PROVE  ResultOf(b)'
<1> USE DEF Goto, At, Becomes, Outputfiles
<1> DEFINE o == Output(Cfg(b))
           Files(s) == {s.checksum, s.size, s.archived}
<1>0. /\ build \in [Builds -> States] /\ build[b] \in States
      /\ binaries \in [Outputs -> Contents] /\ Cfg(b) \in Configs /\ o \in Outputs
  BY BuildType, Constants DEF TypeOK
<1>1. Cfg(b)' = Cfg(b)
  BY StepFrame DEF Cfg
<1>2. ResultOf(b) /\ (MetSameOutput(b) => MetSameOutput(b)')
  BY MetGrows DEF ResultInv
<1>3. Result(b) = binaries[o] /\ Result(b)' = binaries'[o]
  BY <1>1 DEF Result
\* A step after which there is no result yet, or no longer.
<1>4. ASSUME Files(build'[b]) = Files(build[b]), ~build'[b].ok,
             build'[b].pc \notin {"copying", "built", "summed", "done"}
      PROVE  ResultOf(b)'
  BY <1>1, <1>2, <1>4 DEF ResultOf, Finished
\* A step with which a result is kept.
<1>5. ASSUME Files(build'[b]) = Files(build[b]), build'[b].checksum = build[b].checksum,
             build'[b].received = build[b].received, build'[b].ok = build[b].ok,
             build'[b].pc = build[b].pc, binaries' = binaries
      PROVE  ResultOf(b)'
  <2>1. Result(b)' = Result(b)
    BY <1>3, <1>5
  <2> QED
    BY <1>1, <1>2, <1>5, <2>1 DEF ResultOf, Finished
<1>6. build[b].ok => build[b].pc \in {"clean", "done", "downloading", "ended"}
  BY <1>2 DEF ResultOf
<1>7. CASE Begin(b) \/ Fails(b) \/ Fetch(b) \/ MakeTempDir(b) \/ NothingToEmbed(b)
  <2>1. PICK pc \in {"start", "clean", "fetched", "embed", "dirmade", "build"} :
           Becomes(b, [build[b] EXCEPT !.pc = pc])
    BY <1>7 DEF Begin, Fails, Fetch, MakeTempDir, NothingToEmbed
  <2>2. ~build[b].ok
    BY <1>6, <1>7 DEF Begin, Fails, Fetch, MakeTempDir, NothingToEmbed
  <2> QED
    BY <1>0, <1>4, <2>1, <2>2 DEF States
<1>8. CASE PolicyNotWritten(b) \/ NotGenerated(b)
  BY <1>0, <1>4, <1>6, <1>8 DEF PolicyNotWritten, NotGenerated, States
<1>9. CASE WritePolicy(b) \/ PolicyDirGone(b) \/ PolicyGone(b)
  <2> DEFINE x == [build[b] EXCEPT !.pc = "embed", !.path = "temp", !.removePolicies = TRUE]
             y == [build[b] EXCEPT !.pc = "clean", !.lost = TRUE]
  <2>1. /\ Files(x) = Files(build[b]) /\ x.pc = "embed" /\ x.ok = build[b].ok
        /\ Files(y) = Files(build[b]) /\ y.pc = "clean" /\ y.ok = build[b].ok
    BY <1>0 DEF States
  <2>2. (build'[b] = x \/ build'[b] = y) /\ ~build[b].ok
    BY <1>0, <1>6, <1>9 DEF WritePolicy, PolicyDirGone, PolicyGone
  <2> HIDE DEF x, y
  <2> QED
    BY <1>4, <2>1, <2>2
<1>10. CASE ReadPolicies(b)
  <2>1. PICK text : Becomes(b, [build[b] EXCEPT !.pc = "generate", !.text = text])
    BY <1>10 DEF ReadPolicies
  <2>2. ~build[b].ok
    BY <1>6, <1>10 DEF ReadPolicies
  <2> QED
    BY <1>0, <1>4, <2>1, <2>2 DEF States
<1>11. CASE Generate(b)
  <2> DEFINE x == [build[b] EXCEPT !.pc = "build", !.path = "none",
                                   !.removeGenerated = (build[b].text # None)]
  <2>1. Files(x) = Files(build[b]) /\ x.pc = "build" /\ x.ok = build[b].ok
    BY <1>0 DEF States
  <2>2. build'[b] = x /\ ~build[b].ok
    BY <1>0, <1>6, <1>11 DEF Generate
  <2> HIDE DEF x
  <2> QED
    BY <1>4, <2>1, <2>2
\* go build writes the file.
<1>12. CASE Rename(b)
  <2> DEFINE x == [build[b] EXCEPT !.pc = "built"]
  <2>1. Files(x) = Files(build[b]) /\ x.pc = "built" /\ x.ok = build[b].ok
    BY <1>0 DEF States
  <2>2. build'[b] = x /\ ~build[b].ok /\ binaries'[o] = Linked(b)
    BY <1>0, <1>6, <1>12 DEF Rename
  <2>3. Own(b, Result(b))'
    BY <1>3, <2>2, LinkedType DEF Own
  <2> HIDE DEF x
  <2> QED
    BY <1>1, <1>2, <2>1, <2>2, <2>3 DEF ResultOf, Finished
<1>13. CASE StartCopy(b)
  <2> DEFINE x == [build[b] EXCEPT !.pc = "copying"]
  <2>1. Files(x) = Files(build[b]) /\ x.pc = "copying" /\ x.ok = build[b].ok
    BY <1>0 DEF States
  <2>2. build'[b] = x /\ ~build[b].ok /\ binaries'[o] = [Linked(b) EXCEPT !.whole = FALSE]
    BY <1>0, <1>6, <1>13, CopyEffect DEF StartCopy
  <2>3. [Linked(b) EXCEPT !.whole = FALSE].by = b
    BY LinkedType DEF Linked
  <2> HIDE DEF x
  <2> QED
    BY <1>1, <1>2, <1>3, <2>1, <2>2, <2>3 DEF ResultOf, Finished
<1>14. CASE FinishCopy(b)
  <2> DEFINE x == [build[b] EXCEPT !.pc = "built"]
  <2>1. Files(x) = Files(build[b]) /\ x.pc = "built" /\ x.ok = build[b].ok
    BY <1>0 DEF States
  <2>2. build'[b] = x /\ ~build[b].ok
    BY <1>0, <1>6, <1>14 DEF FinishCopy
  <2>3. ASSUME ~MetSameOutput(b) PROVE Own(b, Result(b))'
    <3>1. binaries[o].by = b
      BY <1>2, <1>3, <1>14, <2>3 DEF ResultOf, FinishCopy
    <3>2. ASSUME NEW a \in Builds \ {b}, At(a, "copying"), Output(Cfg(a)) = o PROVE FALSE
      BY <1>14, <2>3, <3>2, Meeting DEF Active, FinishCopy
    <3>3. binaries'[o] = Linked(b)
      BY <1>0, <1>14, <3>1, <3>2 DEF FinishCopy
    <3> QED
      BY <1>3, <3>3, LinkedType DEF Own
  <2> HIDE DEF x
  <2> QED
    BY <1>1, <1>2, <2>1, <2>2, <2>3 DEF ResultOf, Finished
\* The result is made.
<1>15. CASE Checksum(b)
  <2> DEFINE file == binaries[o]
             x == [build[b] EXCEPT !.pc = "summed", !.checksum = file]
  <2>1. /\ x.checksum = file /\ x.size = build[b].size /\ x.archived = build[b].archived
        /\ x.pc = "summed" /\ x.ok = build[b].ok
    BY <1>0 DEF States
  <2>2. build'[b] = x /\ ~build[b].ok /\ binaries' = binaries /\ build[b].pc = "built"
    BY <1>0, <1>6, <1>15 DEF Checksum
  <2>3. Result(b)' = file /\ Result(b) = file
    BY <1>3, <2>2
  <2> HIDE DEF x, file
  <2> QED
    BY <1>1, <1>2, <2>1, <2>2, <2>3 DEF ResultOf, Finished, Own
<1>16. CASE Stat(b)
  <2> DEFINE file == binaries[o]
             x == [build[b] EXCEPT !.pc = "clean", !.ok = TRUE, !.size = file]
  <2>1. /\ x.checksum = build[b].checksum /\ x.size = file /\ x.archived = build[b].archived
        /\ x.pc = "clean" /\ x.ok
    BY <1>0 DEF States
  <2>2. build'[b] = x /\ binaries' = binaries /\ build[b].pc = "summed"
    BY <1>0, <1>16 DEF Stat
  <2>3. Result(b)' = file /\ Result(b) = file
    BY <1>3, <2>2
  <2> HIDE DEF x, file
  <2> QED
    BY <1>1, <1>2, <2>1, <2>2, <2>3 DEF ResultOf, Finished, Own
<1>17. CASE RemoveGenerated(b) \/ RemovePolicies(b)
  BY <1>0, <1>5, <1>17 DEF RemoveGenerated, RemovePolicies, States
<1>18. CASE Respond(b)
  <2> DEFINE x == [build[b] EXCEPT !.pc = IF build[b].ok THEN "done" ELSE "ended"]
  <2>1. /\ x.checksum = build[b].checksum /\ x.size = build[b].size
        /\ x.archived = build[b].archived /\ x.ok = build[b].ok
        /\ x.pc = IF build[b].ok THEN "done" ELSE "ended"
    BY <1>0 DEF States
  <2>2. build'[b] = x /\ binaries' = binaries /\ build[b].pc = "clean"
    BY <1>0, <1>18 DEF Respond
  <2>3. Result(b)' = Result(b)
    BY <1>3, <2>2
  <2> HIDE DEF x
  <2> QED
    BY <1>1, <1>2, <2>1, <2>2, <2>3 DEF ResultOf, Finished, Own
\* What the user does with it.
<1>19. CASE CreateArchive(b)
  <2> DEFINE file == binaries[o]
             x == [build[b] EXCEPT !.archived = file]
  <2>1. /\ x.checksum = build[b].checksum /\ x.size = build[b].size
        /\ x.archived = file /\ x.ok = build[b].ok /\ x.pc = build[b].pc
    BY <1>0 DEF States
  <2>2. build'[b] = x /\ binaries' = binaries /\ build[b].pc = "done"
    BY <1>0, <1>19 DEF CreateArchive
  <2>3. Result(b)' = file /\ Result(b) = file
    BY <1>3, <2>2
  <2>4. build[b].ok
    BY <1>2, <2>2 DEF ResultOf
  <2> HIDE DEF x, file
  <2> QED
    BY <1>1, <1>2, <2>1, <2>2, <2>3, <2>4 DEF ResultOf, Finished, Own
<1>20. CASE OpenDownload(b)
  <2> DEFINE x == [build[b] EXCEPT !.pc = IF Served(b) = Absent THEN "ended" ELSE "downloading",
                                   !.received = Served(b)]
  <2>1. /\ x.checksum = build[b].checksum /\ x.size = build[b].size
        /\ x.archived = build[b].archived /\ x.ok = build[b].ok
        /\ x.received = Served(b) /\ x.pc \in {"ended", "downloading"}
    BY <1>0 DEF States
  <2>2. build'[b] = x /\ binaries' = binaries /\ build[b].pc = "done"
    BY <1>0, <1>20 DEF OpenDownload
  <2>3. Cfg(b).out = DefaultOut => Served(b) = Result(b)
    BY <1>0, <1>3 DEF Served, Output
  <2> HIDE DEF x
  <2> QED
    BY <1>1, <1>2, <2>1, <2>2, <2>3 DEF ResultOf, Finished, Own
<1>21. CASE EndDownload(b)
  <2> DEFINE x == [build[b] EXCEPT !.pc = "ended"]
  <2>1. /\ x.checksum = build[b].checksum /\ x.size = build[b].size
        /\ x.archived = build[b].archived /\ x.ok = build[b].ok
        /\ x.received = build[b].received /\ x.pc = "ended"
    BY <1>0 DEF States
  <2>2. build'[b] = x /\ build[b].pc = "downloading"
    BY <1>0, <1>21 DEF EndDownload
  <2> HIDE DEF x
  <2> QED
    BY <1>1, <1>2, <2>1, <2>2 DEF ResultOf, Finished, Own
<1> QED
  BY <1>7, <1>8, <1>9, <1>10, <1>11, <1>12, <1>13, <1>14, <1>15, <1>16, <1>17, <1>18, <1>19,
     <1>20, <1>21 DEF Step

LEMMA ResultStep == TypeOK /\ MetInv /\ ResultInv /\ [Next]_vars => ResultInv'
<1> SUFFICES ASSUME TypeOK, MetInv, ResultInv, [Next]_vars PROVE ResultInv'
  OBVIOUS
<1>1. CASE UNCHANGED vars
  <2>1. UNCHANGED <<binaries, build, met>>
    BY <1>1 DEF vars
  <2> QED
    BY <2>1 DEF ResultInv, ResultOf, Result, Finished, MetSameOutput, Cfg, At
<1>2. ASSUME NEW b \in Builds, Step(b) PROVE ResultInv'
  BY <1>2, ResultOwn, ResultOthers DEF ResultInv
<1> QED
  BY <1>1, <1>2 DEF Next

LEMMA ResultInit == Init => ResultInv
<1> SUFFICES ASSUME Init, NEW b \in Builds PROVE ResultOf(b)
  BY DEF ResultInv
<1>1. PICK c \in Configs : build[b] = [Fresh(c) EXCEPT !.pc = "idle"]
  BY DEF Init
<1>2. /\ build[b].pc = "idle" /\ ~build[b].ok
      /\ build[b].checksum = Absent /\ build[b].size = Absent /\ build[b].archived = Absent
  BY <1>1 DEF Fresh
<1> QED
  BY <1>2 DEF ResultOf, Finished, At

\* The checksum, the size, the archive and the download of a build are those of its
\* own, complete binary, unless it met a build of the same file: version, platform,
\* tag, file name and output directory keep builds apart (builder.go:181-200).
THEOREM OwnResults == Spec => []ResultsAreOwn
<1>1. Init => TypeOK /\ MetInv /\ ResultInv
  BY TypeInit, LeftInit, ResultInit
<1>2. TypeOK /\ MetInv /\ ResultInv /\ [Next]_vars => (TypeOK /\ MetInv /\ ResultInv)'
  BY TypeStep, MetStep, ResultStep
<1>3. ResultInv => ResultsAreOwn
  BY DEF ResultInv, ResultOf, ResultsAreOwn, Own
<1> QED
  BY <1>1, <1>2, <1>3, PTL DEF Spec
=============================================================================
