----------------------- MODULE HashiCorpClientProofs -----------------------
(***************************************************************************)
(* Proofs about HashiCorpClient, for every set of callers, mounts, paths   *)
(* and requests and any number of changes of what Vault holds.             *)
(***************************************************************************)
EXTENDS HashiCorpClient, TLAPS

Active(c) == c.pc \notin {"idle", "returned"}

\* A call has seen what Vault shows of its target now, from its beginning on.
HasSeen(c, kinds, held) == Active(c) => View(c.target, kinds, held) \in c.seen

\* The List of the root takes its own way, and its table is one that Vault had.
OnItsWay(c) ==
    Active(c) =>
        \/ /\ c.target = Root /\ c.op = "list"
           /\ c.pc \in {"asking", "answered", "stored"}
           /\ c.pc # "asking" => KVMounts(c.table) \in c.seen
        \/ c.target \in Paths /\ c.pc \notin {"asking", "stored"}

\* A request is for the target of the call; the GET of a PathExists comes after a LIST
\* that has failed or shown no entries.
OnItsLeg(c) ==
    Active(c) =>
        /\ c.op = "list" => c.leg = "listing"
        /\ c.op = "read" => c.leg = "reading"
        /\ c.pc \in {"listing", "reading"} => c.leg = c.pc /\ c.api = c.target
        /\ (c.op = "pathexists" /\ c.leg = "reading") =>
              (\E v \in c.seen : "entries" \notin v) \/ c.listFailed

\* What PathExistsSound and RootIsASnapshot say of one call, and its type of result.
Sound(c) ==
    c.pc = "returned" =>
        /\ c.result \in ResultsOf(c.op)
        /\ c.op = "pathexists" =>
              /\ c.result = "dir" => \E v \in c.seen : "entries" \in v
              /\ c.result = "secret" => \E v \in c.seen : "secret" \in v
              /\ c.result = "none" =>
                    (\E v \in c.seen : "secret" \notin v) \/ c.words
              /\ c.result \in {"secret", "none"} =>
                    (\E v \in c.seen : "entries" \notin v) \/ c.listFailed
        /\ (c.op = "list" /\ c.target = Root /\ c.result # "error") => c.listing \in c.seen

CallInv(c, kinds, held) == HasSeen(c, kinds, held) /\ OnItsWay(c) /\ OnItsLeg(c) /\ Sound(c)

Tables ==
    /\ engine \in [Mounts -> Kinds]
    /\ content \in [Paths -> Contents]
    /\ changes \in 0 .. MaxChanges
    /\ mounts \in [Mounts -> Kinds]

IInv ==
    /\ Tables
    /\ call \in [Callers -> Calls]
    /\ \A p \in Callers : CallInv(call[p], engine, content)

-----------------------------------------------------------------------------
\* What Vault shows of a target, for every state of it.
LEMMA ViewType ==
  ASSUME NEW target, NEW kinds \in [Mounts -> Kinds], NEW held \in [Paths -> Contents]
  PROVE  View(target, kinds, held) \in Contents \cup SUBSET Mounts
  BY DEF View, Below, KVMounts, Contents

LEMMA InitIInv == Init => IInv
<1> SUFFICES ASSUME Init PROVE IInv
  OBVIOUS
<1>1. NoTable \in [Mounts -> Kinds]
  BY DEF NoTable, Kinds
<1>2. Tables
  BY <1>1, ClientAssumption DEF Init, Tables, Contents
<1>3. call \in [Callers -> Calls]
  BY <1>1 DEF Init, Calls, Stages, Operations
<1>4. \A p \in Callers : CallInv(call[p], engine, content)
  BY DEF Init, CallInv, HasSeen, OnItsWay, OnItsLeg, Sound, Active
<1> QED
  BY <1>2, <1>3, <1>4 DEF IInv

\* A change of Vault adds to what the calls under way have seen.
LEMMA ObservedInv ==
  ASSUME IInv, NEW kinds \in [Mounts -> Kinds], NEW held \in [Paths -> Contents],
         call' = Observed(kinds, held)
  PROVE  /\ call' \in [Callers -> Calls]
         /\ \A p \in Callers : CallInv(call'[p], kinds, held)
<1> SUFFICES ASSUME NEW p \in Callers
             PROVE  call'[p] \in Calls /\ CallInv(call'[p], kinds, held)
  BY DEF Observed
<1>1. call[p] \in Calls /\ CallInv(call[p], engine, content)
  BY DEF IInv
<1>2. CASE ~Active(call[p])
  <2>1. call'[p] = call[p]
    BY <1>2 DEF Observed, Active
  <2> QED
    BY <1>1, <1>2, <2>1 DEF CallInv, HasSeen, OnItsWay, OnItsLeg
<1>3. CASE Active(call[p])
  <2> DEFINE v == View(call[p].target, kinds, held)
  <2>1. call'[p] = [call[p] EXCEPT !.seen = @ \cup {v}]
    BY <1>3 DEF Observed, Active
  <2>2. v \in Contents \cup SUBSET Mounts
    BY ViewType
  <2>3. call'[p] \in Calls /\ call'[p].seen = call[p].seen \cup {v}
    BY <1>1, <2>1, <2>2 DEF Calls
  <2>4. /\ call'[p].pc = call[p].pc /\ call'[p].op = call[p].op
        /\ call'[p].target = call[p].target /\ call'[p].leg = call[p].leg
        /\ call'[p].api = call[p].api /\ call'[p].table = call[p].table
        /\ call'[p].listFailed = call[p].listFailed
    BY <1>1, <2>1 DEF Calls
  <2>5. CallInv(call'[p], kinds, held)
    BY <1>1, <1>3, <2>3, <2>4 DEF CallInv, HasSeen, OnItsWay, OnItsLeg, Sound, Active
  <2> QED
    BY <2>3, <2>5
<1> QED
  BY <1>2, <1>3

\* A step of one caller: what it makes of its call decides.
LEMMA OneCall ==
  ASSUME IInv, NEW p \in Callers, NEW c \in Calls, CallInv(c, engine, content),
         call' = [call EXCEPT ![p] = c],
         UNCHANGED <<engine, content, changes>>, mounts' \in [Mounts -> Kinds]
  PROVE  IInv'
  BY DEF IInv, Tables

\* A call that returns has nothing under way.
LEMMA FinishedCall ==
  ASSUME NEW c \in Calls, NEW result \in ResultsOf(c.op)
  PROVE  /\ Finished(c, result) \in Calls
         /\ Finished(c, result).pc = "returned" /\ Finished(c, result).op = c.op
         /\ Finished(c, result).target = c.target /\ Finished(c, result).result = result
         /\ Finished(c, result).seen = c.seen /\ Finished(c, result).listFailed = c.listFailed
         /\ Finished(c, result).listing = c.listing /\ Finished(c, result).words = c.words
<1>1. c.op \in Operations /\ result \in UNION {ResultsOf(op) : op \in Operations}
  BY DEF Calls
<1>2. NoTable \in [Mounts -> Kinds]
  BY DEF NoTable, Kinds
<1> QED
  BY <1>1, <1>2 DEF Finished, Calls, Stages

\* List, Read and PathExists begin with what Vault shows now.
LEMMA BeginInv == ASSUME IInv, NEW p \in Callers, NEW r \in Requests, Begin(p, r[1], r[2])
                  PROVE  IInv'
<1>1. PICK op \in Operations, target \in Paths \cup {Root} :
         op = r[1] /\ target = r[2] /\ (target = Root => op = "list")
  BY ClientAssumption DEF Operations
<1>2. PICK v \in Contents \cup SUBSET Mounts : v = View(target, engine, content)
  BY ViewType DEF IInv, Tables
<1> DEFINE c == [call[p] EXCEPT !.pc = IF target = Root THEN "asking" ELSE "resolve",
                                !.op = op, !.target = target, !.result = "pending",
                                !.leg = IF op = "read" THEN "reading" ELSE "listing",
                                !.listing = {}, !.seen = {v}, !.listFailed = FALSE,
                                !.words = FALSE]
<1>3. call[p] \in Calls /\ call' = [call EXCEPT ![p] = c]
  BY <1>1, <1>2 DEF IInv, Begin
<1>4. /\ c.pc = (IF target = Root THEN "asking" ELSE "resolve") /\ c.op = op /\ c.target = target
      /\ c.leg = (IF op = "read" THEN "reading" ELSE "listing") /\ c.seen = {v}
  BY <1>3 DEF Calls
<1>5. c \in Calls
  <2>1. PICK pc, leg : /\ pc = (IF target = Root THEN "asking" ELSE "resolve")
                      /\ leg = (IF op = "read" THEN "reading" ELSE "listing")
    OBVIOUS
  <2>2. {v} \in SUBSET (Contents \cup SUBSET Mounts) /\ {} \in SUBSET Mounts
    OBVIOUS
  <2>3. pc \in Stages /\ leg \in {"listing", "reading"} /\ target \in Paths \cup {Root, Nowhere}
    BY <2>1 DEF Stages
  <2> DEFINE d == [call[p] EXCEPT !.pc = pc, !.op = op, !.target = target,
                               !.result = "pending"]
  <2>4. d \in Calls
    BY <1>3, <2>3 DEF Calls
  <2>5. c = [d EXCEPT !.leg = leg, !.listing = {}, !.seen = {v}, !.listFailed = FALSE,
                        !.words = FALSE]
    BY <2>1
  <2> HIDE DEF c, d
  <2> QED
    BY <2>2, <2>3, <2>4, <2>5 DEF Calls
<1>6. CallInv(c, engine, content)
  BY <1>1, <1>2, <1>4, ClientAssumption DEF CallInv, HasSeen, OnItsWay, OnItsLeg, Sound, Active
<1> QED
  BY <1>3, <1>5, <1>6, OneCall DEF Begin, IInv, Tables

\* Looking up the mount, asking for the mount table and storing it.
LEMMA MountsInv ==
  ASSUME IInv, NEW p \in Callers,
         Resolve(p) \/ Send(p) \/ MountsAnswered(p) \/ StoreMounts(p)
  PROVE  IInv'
<1>0. /\ call[p] \in Calls /\ CallInv(call[p], engine, content)
      /\ engine \in [Mounts -> Kinds] /\ mounts \in [Mounts -> Kinds]
      /\ call[p].table \in [Mounts -> Kinds]
  BY DEF IInv, Tables, Calls
<1>1. CASE Resolve(p)
  <2> DEFINE c == [call[p] EXCEPT !.pc = IF mounts = NoTable THEN "refreshing" ELSE "lookup",
                                  !.known = TRUE]
  <2>1. call' = [call EXCEPT ![p] = c] /\ call[p].pc = "resolve"
    BY <1>1 DEF Resolve, At
  <2>2. c \in Calls /\ c.pc \in {"refreshing", "lookup"}
    BY <1>0 DEF Calls, Stages
  <2>3. /\ c.op = call[p].op /\ c.target = call[p].target /\ c.leg = call[p].leg
        /\ c.seen = call[p].seen /\ c.listFailed = call[p].listFailed
    BY <1>0 DEF Calls
  <2>4. CallInv(c, engine, content)
    BY <1>0, <2>1, <2>2, <2>3 DEF CallInv, HasSeen, OnItsWay, OnItsLeg, Sound, Active
  <2> QED
    BY <1>0, <1>1, <2>1, <2>2, <2>4, OneCall DEF Resolve
<1>2. CASE Send(p)
  <2> DEFINE c == [call[p] EXCEPT !.pc = call[p].leg, !.api = call[p].target]
  <2>1. call' = [call EXCEPT ![p] = c] /\ call[p].pc = "lookup"
    BY <1>2 DEF Send, At, APIPath
  <2>2. call[p].target \in Paths
    BY <1>0, <2>1 DEF CallInv, OnItsWay, Active
  <2>3. c \in Calls /\ c.pc = call[p].leg /\ c.pc \in {"listing", "reading"}
    BY <1>0, <2>2 DEF Calls, Stages
  <2>4. /\ c.op = call[p].op /\ c.target = call[p].target /\ c.leg = call[p].leg
        /\ c.seen = call[p].seen /\ c.listFailed = call[p].listFailed /\ c.api = c.target
    BY <1>0 DEF Calls
  <2>5. CallInv(c, engine, content)
    BY <1>0, <2>1, <2>2, <2>3, <2>4 DEF CallInv, HasSeen, OnItsWay, OnItsLeg, Sound, Active
  <2> QED
    BY <1>0, <1>2, <2>1, <2>3, <2>5, OneCall DEF Send
<1>3. CASE MountsAnswered(p)
  <2> DEFINE c == [call[p] EXCEPT !.pc = "answered", !.table = engine]
  <2>1. call' = [call EXCEPT ![p] = c] /\ call[p].pc \in {"asking", "refreshing"}
    BY <1>3 DEF MountsAnswered, Fetching, At
  <2>2. c \in Calls /\ c.pc = "answered" /\ c.table = engine
    BY <1>0 DEF Calls, Stages
  <2>3. /\ c.op = call[p].op /\ c.target = call[p].target /\ c.leg = call[p].leg
        /\ c.seen = call[p].seen /\ c.listFailed = call[p].listFailed
    BY <1>0 DEF Calls
  <2>4. c.target = Root => KVMounts(c.table) \in c.seen
    BY <1>0, <2>1, <2>2, <2>3 DEF CallInv, HasSeen, Active, View
  <2>5. CallInv(c, engine, content)
    BY <1>0, <2>1, <2>2, <2>3, <2>4 DEF CallInv, HasSeen, OnItsWay, OnItsLeg, Sound, Active
  <2> QED
    BY <1>0, <1>3, <2>1, <2>2, <2>5, OneCall DEF MountsAnswered
<1>4. CASE StoreMounts(p)
  <2> DEFINE c == [call[p] EXCEPT !.pc = IF call[p].target = Root THEN "stored" ELSE "lookup"]
  <2>1. call' = [call EXCEPT ![p] = c] /\ call[p].pc = "answered"
    BY <1>4 DEF StoreMounts, Goto, At
  <2>2. c \in Calls /\ c.pc = IF call[p].target = Root THEN "stored" ELSE "lookup"
    BY <1>0 DEF Calls, Stages
  <2>3. /\ c.op = call[p].op /\ c.target = call[p].target /\ c.leg = call[p].leg
        /\ c.seen = call[p].seen /\ c.listFailed = call[p].listFailed /\ c.table = call[p].table
    BY <1>0 DEF Calls
  <2>4. CallInv(c, engine, content)
    BY <1>0, <2>1, <2>2, <2>3, ClientAssumption
       DEF CallInv, HasSeen, OnItsWay, OnItsLeg, Sound, Active
  <2>5. mounts' \in [Mounts -> Kinds]
    BY <1>0, <1>4 DEF StoreMounts
  <2> QED
    BY <1>4, <2>1, <2>2, <2>4, <2>5, OneCall DEF StoreMounts
<1> QED
  BY <1>1, <1>2, <1>3, <1>4

\* A PathExists whose LIST failed, or showed no entries, goes on to its GET.
LEMMA ThenReadInv ==
  ASSUME IInv, NEW p \in Callers, NEW failed \in BOOLEAN,
         At(p, "listing"), call[p].op = "pathexists", ThenRead(p, failed),
         failed \/ "entries" \notin Below(call[p].api, engine, content),
         UNCHANGED <<engine, content, changes, mounts>>
  PROVE  IInv'
<1>0. /\ call[p] \in Calls /\ CallInv(call[p], engine, content)
      /\ mounts \in [Mounts -> Kinds] /\ NoTable \in [Mounts -> Kinds]
      /\ call[p].pc = "listing"
  BY DEF IInv, Tables, NoTable, Kinds, At
<1> DEFINE c == [call[p] EXCEPT !.pc = "resolve", !.leg = "reading", !.api = Nowhere,
                                !.table = NoTable, !.listFailed = failed]
<1>1. call' = [call EXCEPT ![p] = c]
  BY DEF ThenRead
<1>2. c \in Calls /\ c.pc = "resolve" /\ c.leg = "reading" /\ c.listFailed = failed
  BY <1>0 DEF Calls, Stages
<1>3. c.op = call[p].op /\ c.target = call[p].target /\ c.seen = call[p].seen
  BY <1>0 DEF Calls
<1>4. call[p].target \in Paths /\ call[p].target # Root /\ call[p].api = call[p].target
  BY <1>0, ClientAssumption DEF CallInv, OnItsWay, OnItsLeg, Active
<1>5. Below(call[p].api, engine, content) \in c.seen
  BY <1>0, <1>3, <1>4 DEF CallInv, HasSeen, Active, View
<1>6. CallInv(c, engine, content)
  BY <1>0, <1>2, <1>3, <1>4, <1>5 DEF CallInv, HasSeen, OnItsWay, OnItsLeg, Sound, Active
<1> QED
  BY <1>0, <1>1, <1>2, <1>6, OneCall

\* A call that ends with what Vault showed of its target, or with an error.
LEMMA EndInv ==
  ASSUME IInv, NEW p \in Callers, NEW result \in ResultsOf(call[p].op), NEW words \in BOOLEAN,
         call' = [call EXCEPT ![p] = [Finished(call[p], result) EXCEPT !.words = words]],
         At(p, "listing") \/ At(p, "reading"),
         result = "dir" => "entries" \in Below(call[p].api, engine, content),
         call[p].op = "pathexists" =>
            /\ result = "secret" => "secret" \in Below(call[p].api, engine, content)
            /\ result = "none" => "secret" \notin Below(call[p].api, engine, content) \/ words
            /\ result \in {"secret", "none"} => At(p, "reading"),
         UNCHANGED <<engine, content, changes, mounts>>
  PROVE  IInv'
<1>0. /\ call[p] \in Calls /\ CallInv(call[p], engine, content)
      /\ mounts \in [Mounts -> Kinds] /\ call[p].pc \in {"listing", "reading"}
  BY DEF IInv, Tables, At
<1>1. PICK d : d = Finished(call[p], result)
  OBVIOUS
<1>2. PICK c : c = [d EXCEPT !.words = words]
  OBVIOUS
<1>3. call' = [call EXCEPT ![p] = c]
  BY <1>1, <1>2
<1>4. /\ d \in Calls /\ d.pc = "returned" /\ d.op = call[p].op /\ d.target = call[p].target
      /\ d.result = result /\ d.seen = call[p].seen /\ d.listFailed = call[p].listFailed
  BY <1>0, <1>1, FinishedCall
<1>5. /\ c \in Calls /\ c.pc = "returned" /\ c.op = call[p].op /\ c.target = call[p].target
      /\ c.result = result /\ c.seen = call[p].seen /\ c.listFailed = call[p].listFailed
      /\ c.words = words
  BY <1>2, <1>4 DEF Calls
<1>6. /\ call[p].target \in Paths /\ call[p].target # Root /\ call[p].api = call[p].target
      /\ call[p].leg = call[p].pc
  BY <1>0, ClientAssumption DEF CallInv, OnItsWay, OnItsLeg, Active
<1>7. Below(call[p].api, engine, content) \in c.seen
  BY <1>0, <1>5, <1>6 DEF CallInv, HasSeen, Active, View
<1>8. (c.op = "pathexists" /\ result \in {"secret", "none"}) =>
         (\E v \in c.seen : "entries" \notin v) \/ c.listFailed
  BY <1>0, <1>5, <1>6 DEF CallInv, OnItsLeg, Active, At
<1>9. Sound(c)
  BY <1>5, <1>6, <1>7, <1>8 DEF Sound
<1>10. CallInv(c, engine, content)
  BY <1>5, <1>9 DEF CallInv, HasSeen, OnItsWay, OnItsLeg, Active
<1> QED
  BY <1>0, <1>3, <1>5, <1>10, OneCall

\* One that Vault answered, or a List or Read that failed.
LEMMA ReturnInv ==
  ASSUME IInv, NEW p \in Callers, NEW result \in ResultsOf(call[p].op), Return(p, result),
         At(p, "listing") \/ At(p, "reading"),
         result = "dir" => "entries" \in Below(call[p].api, engine, content),
         call[p].op = "pathexists" =>
            /\ result = "secret" => "secret" \in Below(call[p].api, engine, content)
            /\ result = "none" => "secret" \notin Below(call[p].api, engine, content)
            /\ result \in {"secret", "none"} => At(p, "reading"),
         UNCHANGED <<engine, content, changes, mounts>>
  PROVE  IInv'
<1>1. PICK c : c = Finished(call[p], result)
  OBVIOUS
<1>2. call[p] \in Calls
  BY DEF IInv
<1>3. c \in Calls /\ c.words \in BOOLEAN
  BY <1>1, <1>2, FinishedCall DEF Calls
<1>4. c = [c EXCEPT !.words = c.words]
  BY <1>3 DEF Calls
<1>5. call' = [call EXCEPT ![p] = [Finished(call[p], result) EXCEPT !.words = c.words]]
  BY <1>1, <1>4 DEF Return
<1> QED
  BY <1>3, <1>5, EndInv

\* The List of the root, with an answer or without one.
LEMMA RootInv ==
  ASSUME IInv, NEW p \in Callers, MountsFail(p) \/ ReturnRoot(p) PROVE IInv'
<1>0. /\ call[p] \in Calls /\ CallInv(call[p], engine, content)
      /\ mounts \in [Mounts -> Kinds]
  BY DEF IInv, Tables
<1>1. CASE MountsFail(p) /\ call[p].target = Root
  <2>1. PICK c : c = Finished(call[p], "error")
    OBVIOUS
  <2>2. call[p].pc \in {"asking", "refreshing"} /\ call' = [call EXCEPT ![p] = c]
    BY <1>1, <2>1 DEF MountsFail, Fetching, At, Return
  <2>3. call[p].op = "list"
    BY <1>0, <1>1, <2>2, ClientAssumption DEF CallInv, OnItsWay, Active
  <2>4. /\ c \in Calls /\ c.pc = "returned" /\ c.op = "list" /\ c.result = "error"
    BY <1>0, <2>1, <2>3, FinishedCall DEF ResultsOf
  <2>5. CallInv(c, engine, content)
    BY <2>4 DEF CallInv, HasSeen, OnItsWay, OnItsLeg, Sound, Active, ResultsOf
  <2> QED
    BY <1>0, <1>1, <2>2, <2>4, <2>5, OneCall DEF MountsFail
<1>2. CASE MountsFail(p) /\ call[p].target # Root
  <2> DEFINE c == [call[p] EXCEPT !.pc = "lookup", !.known = FALSE]
  <2>1. call' = [call EXCEPT ![p] = c] /\ call[p].pc \in {"asking", "refreshing"}
    BY <1>2 DEF MountsFail, Fetching, At
  <2>2. c \in Calls /\ c.pc = "lookup"
    BY <1>0 DEF Calls, Stages
  <2>3. /\ c.op = call[p].op /\ c.target = call[p].target /\ c.leg = call[p].leg
        /\ c.seen = call[p].seen /\ c.listFailed = call[p].listFailed
    BY <1>0 DEF Calls
  <2>4. CallInv(c, engine, content)
    BY <1>0, <1>2, <2>1, <2>2, <2>3 DEF CallInv, HasSeen, OnItsWay, OnItsLeg, Sound, Active
  <2> QED
    BY <1>0, <1>2, <2>1, <2>2, <2>4, OneCall DEF MountsFail
<1>3. CASE ReturnRoot(p)
  <2>1. PICK shown : shown = KVMounts(call[p].table)
    OBVIOUS
  <2>2. PICK result \in {"entries", "empty"} : result = IF shown = {} THEN "empty" ELSE "entries"
    OBVIOUS
  <2>3. PICK c : c = [Finished(call[p], result) EXCEPT !.listing = shown]
    OBVIOUS
  <2>4. call[p].pc = "stored" /\ call' = [call EXCEPT ![p] = c]
    BY <1>3, <2>1, <2>2, <2>3 DEF ReturnRoot, At
  <2>5. /\ call[p].target = Root /\ call[p].op = "list" /\ shown \in call[p].seen
    BY <1>0, <2>1, <2>4 DEF CallInv, OnItsWay, Active
  <2>6. result \in ResultsOf(call[p].op) /\ shown \in SUBSET Mounts
    BY <2>1, <2>5 DEF ResultsOf, KVMounts
  <2>7. /\ Finished(call[p], result) \in Calls
        /\ Finished(call[p], result).pc = "returned" /\ Finished(call[p], result).op = "list"
        /\ Finished(call[p], result).result = result
        /\ Finished(call[p], result).seen = call[p].seen
    BY <1>0, <2>5, <2>6, FinishedCall
  <2>8. /\ c \in Calls /\ c.pc = "returned" /\ c.op = "list" /\ c.result = result
        /\ c.seen = call[p].seen /\ c.listing = shown
    BY <2>3, <2>6, <2>7 DEF Calls
  <2>9. CallInv(c, engine, content)
    BY <2>5, <2>6, <2>8 DEF CallInv, HasSeen, OnItsWay, OnItsLeg, Sound, Active
  <2> QED
    BY <1>0, <1>3, <2>4, <2>8, <2>9, OneCall DEF ReturnRoot
<1> QED
  BY <1>1, <1>2, <1>3

\* LIST and GET, answered or failed.
LEMMA RequestInv ==
  ASSUME IInv, NEW p \in Callers,
         ListAnswered(p) \/ ListFails(p) \/ ReadAnswered(p) \/ ReadFails(p)
  PROVE  IInv'
<1>0. /\ call[p] \in Calls /\ CallInv(call[p], engine, content)
      /\ call[p].op \in Operations
  BY DEF IInv, Calls
<1>1. call[p].pc = "listing" => call[p].op \in {"list", "pathexists"}
  BY <1>0 DEF CallInv, OnItsLeg, Active, Operations
<1>2. call[p].pc = "reading" => call[p].op \in {"read", "pathexists"}
  BY <1>0 DEF CallInv, OnItsLeg, Active, Operations
<1>3. CASE ListAnswered(p)
  <2> DEFINE entries == "entries" \in Below(call[p].api, engine, content)
  <2>1. At(p, "listing") /\ UNCHANGED <<engine, content, changes, mounts>>
    BY <1>3 DEF ListAnswered
  <2>2. CASE call[p].op = "list" /\ Return(p, IF entries THEN "entries" ELSE "empty")
    <3>1. PICK result : result = IF entries THEN "entries" ELSE "empty"
      OBVIOUS
    <3> QED
      BY <2>1, <2>2, <3>1, ReturnInv DEF ResultsOf
  <2>3. CASE call[p].op = "pathexists" /\ entries /\ Return(p, "dir")
    BY <2>1, <2>3, ReturnInv DEF ResultsOf
  <2>4. CASE call[p].op = "pathexists" /\ ~entries /\ ThenRead(p, FALSE)
    BY <2>1, <2>4, ThenReadInv
  <2> QED
    BY <1>3, <2>2, <2>3, <2>4 DEF ListAnswered
<1>4. CASE ListFails(p)
  <2>1. At(p, "listing") /\ UNCHANGED <<engine, content, changes, mounts>>
    BY <1>4 DEF ListFails
  <2>2. CASE call[p].op = "list" /\ Return(p, "error")
    BY <2>1, <2>2, ReturnInv DEF ResultsOf
  <2>3. CASE call[p].op = "pathexists" /\ ThenRead(p, TRUE)
    BY <2>1, <2>3, ThenReadInv
  <2> QED
    BY <1>4, <2>2, <2>3 DEF ListFails
<1>5. CASE ReadAnswered(p)
  <2>1. PICK result : result = IF "secret" \in Below(call[p].api, engine, content)
                               THEN "secret" ELSE Read404(call[p].op)
    OBVIOUS
  <2>2. /\ At(p, "reading") /\ Return(p, result)
        /\ UNCHANGED <<engine, content, changes, mounts>>
    BY <1>5, <2>1 DEF ReadAnswered
  <2>3. /\ result \in ResultsOf(call[p].op) /\ result # "dir"
        /\ result = "secret" => "secret" \in Below(call[p].api, engine, content)
        /\ result = "none" => "secret" \notin Below(call[p].api, engine, content)
    BY <1>2, <2>1, <2>2 DEF Read404, ResultsOf, At
  <2> QED
    BY <2>2, <2>3, ReturnInv
<1>6. CASE ReadFails(p)
  <2>1. PICK words \in BOOLEAN : call' = [call EXCEPT ![p] =
           [Finished(@, ErrorResult(call[p].op, words)) EXCEPT !.words = words]]
    BY <1>6 DEF ReadFails
  <2>2. PICK result : result = ErrorResult(call[p].op, words)
    OBVIOUS
  <2>3. /\ call' = [call EXCEPT ![p] = [Finished(call[p], result) EXCEPT !.words = words]]
        /\ At(p, "reading") /\ UNCHANGED <<engine, content, changes, mounts>>
    BY <1>6, <2>1, <2>2 DEF ReadFails
  <2>4. /\ result \in ResultsOf(call[p].op) /\ result \in {"none", "error"}
        /\ result = "none" => words
    BY <1>2, <2>2, <2>3 DEF ErrorResult, ResultsOf, At
  <2> QED
    BY <2>3, <2>4, EndInv
<1> QED
  BY <1>3, <1>4, <1>5, <1>6

\* What Vault holds changes, or somebody mounts another engine.
LEMMA ChangeInv ==
  ASSUME IInv,
         \/ \E m \in Mounts, k \in Kinds : EngineChanges(m, k)
         \/ \E q \in Paths, held \in Contents : ContentChanges(q, held)
  PROVE  IInv'
<1>0. Tables /\ MaxChanges \in Nat
  BY ClientAssumption DEF IInv
<1>1. ASSUME NEW m \in Mounts, NEW k \in Kinds, EngineChanges(m, k) PROVE IInv'
  <2>1. Tables'
    BY <1>0, <1>1 DEF EngineChanges, Tables
  <2>2. engine' \in [Mounts -> Kinds] /\ content' = content /\ call' = Observed(engine', content)
    BY <1>1, <2>1 DEF EngineChanges, Tables
  <2> QED
    BY <1>0, <2>1, <2>2, ObservedInv DEF IInv, Tables
<1>2. ASSUME NEW q \in Paths, NEW held \in Contents, ContentChanges(q, held) PROVE IInv'
  <2>1. Tables'
    BY <1>0, <1>2 DEF ContentChanges, Tables
  <2>2. content' \in [Paths -> Contents] /\ engine' = engine /\ call' = Observed(engine, content')
    BY <1>2, <2>1 DEF ContentChanges, Tables
  <2> QED
    BY <1>0, <2>1, <2>2, ObservedInv DEF IInv, Tables
<1> QED
  BY <1>1, <1>2

LEMMA Invariance == Spec => []IInv
<1>1. IInv /\ [Next]_vars => IInv'
  <2> SUFFICES ASSUME IInv, [Next]_vars PROVE IInv'
    OBVIOUS
  <2>1. CASE UNCHANGED vars
    BY <2>1 DEF vars, IInv, Tables
  <2>2. ASSUME NEW p \in Callers, Step(p) PROVE IInv'
    BY <2>2, MountsInv, RootInv, RequestInv DEF Step
  <2> QED
    BY <2>1, <2>2, BeginInv, ChangeInv DEF Next
<1> QED
  BY <1>1, InitIInv, PTL DEF Spec

\* The tables and calls keep their types, and a result is one of its operation.
THEOREM TypeCorrect == Spec => []TypeOK
<1>1. IInv => TypeOK
  BY DEF IInv, Tables, TypeOK, CallInv, Sound
<1> QED
  BY <1>1, Invariance, PTL

\* For any number of callers and of changes of Vault between the two requests: what PathExists
\* says was so at some instant of the call, but for the errors it drops or takes for a 404.
THEOREM PathExistsIsSound == Spec => []PathExistsSound
<1>1. IInv => PathExistsSound
  BY DEF IInv, CallInv, Sound, PathExistsSound, Returned, Had, Lacked
<1> QED
  BY <1>1, Invariance, PTL

\* A List of the root never mixes two mount tables, whatever other callers store.
THEOREM RootIsOneTable == Spec => []RootIsASnapshot
<1>1. IInv => RootIsASnapshot
  BY DEF IInv, CallInv, Sound, RootIsASnapshot, Returned
<1> QED
  BY <1>1, Invariance, PTL

=============================================================================
