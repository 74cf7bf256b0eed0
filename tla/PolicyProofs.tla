---------------------------- MODULE PolicyProofs ----------------------------
(***************************************************************************)
(* Proofs about Policy, for any number of goroutines, files, versions and  *)
(* reloads, and for every choice of the versions that do not compile.      *)
(***************************************************************************)
EXTENDS Policy, TLAPS

\* Nothing evaluates or reloads before the start-up is over, and main is then idle.
StageInv ==
    /\ evaluator => phase = "serving"
    /\ call[Main].op \in {"validate", "create"}
    /\ call[Main].pc \in {"idle", "list", "read"}
    /\ phase # "starting" => call[Main].pc = "idle"
    /\ \A t \in Threads :
          /\ call[t].pc # "idle" => evaluator /\ ~call[t].ok
          /\ call[t].op # "none" => evaluator
          /\ call[t].op \in {"none", "evaluate", "reload"}

\* Who holds the lock: a Reload that loads has it for writing, and nobody evaluates
\* while it reads files.
LockInv ==
    \A t \in Threads :
        /\ call[t].pc \in {"waiting", "evaluating"} => call[t].op # "none"
        /\ call[t].pc = "evaluating" => call[t].op = "evaluate"
        /\ Loading(t) => call[t].op = "reload" /\ writer = t
        /\ call[t].pc = "read" => readers = {}

\* What a load has read so far was there when it was read.
ReadInv ==
    \A t \in Goroutines : call[t].pc = "read" =>
        /\ call[t].todo \subseteq source.files
        /\ \A f \in Files : call[t].read[f] <= disk[f]
        /\ \A f \in Files \ source.files : call[t].read[f] = 0

\* The query is not newer than the files, and compiles.
QueryInv ==
    /\ \A f \in Files : query[f] <= disk[f]
    /\ \A f \in Files \ source.files : query[f] = 0
    /\ evaluator => Compiles(query)

\* A load is ahead of the query that it will replace and of the call it belongs to.
AheadInv ==
    \A t \in Threads : call[t].pc = "read" =>
        \A f \in source.files \ call[t].todo :
            call[t].read[f] >= query[f] /\ call[t].read[f] >= call[t].floor[f]

FloorInv ==
    \A t \in Threads : call[t].pc # "idle" =>
        /\ call[t].op = "evaluate" => NotOlder(query, call[t].floor)
        /\ call[t].op = "reload" => NotOlder(disk, call[t].floor)

-----------------------------------------------------------------------------
(* Types *)

LEMMA TypeInit == Init => TypeOK
<1> SUFFICES ASSUME Init PROVE TypeOK
  OBVIOUS
<1>1. Nothing \in Versions
  BY PolicyAssumption DEF Nothing, Versions
<1>2. Begun("validate", "list", Nothing) \in Calls /\ Over("none", FALSE) \in Calls
  BY <1>1 DEF Over, Begun, Calls
<1>3. call \in [Goroutines -> Calls]
  BY <1>2 DEF Init
<1>4. \A t \in Threads : call[t] = Over("none", FALSE)
  BY PolicyAssumption DEF Init, Goroutines
<1>5. Over("none", FALSE).pc = "idle"
  BY DEF Over, Begun
<1>6. readers = {t \in Threads : call[t].pc = "evaluating"}
  BY <1>4, <1>5 DEF Init
<1>7. disk \in [Files -> 1 .. MaxVersion] /\ 0 \in 0 .. MaxVersion /\ 0 \in 0 .. MaxReloads
  BY PolicyAssumption DEF Init
<1> QED
  BY <1>1, <1>3, <1>6, <1>7 DEF Init, TypeOK

\* A step that gives a goroutine another record keeps the types of the calls and the
\* readers, if those that evaluate are the readers.
LEMMA NewCall ==
  ASSUME TypeOK, NEW t \in Goroutines, NEW c \in Calls,
         call' = [call EXCEPT ![t] = c],
         t = Main => c.pc # "evaluating",
         readers' = IF c.pc = "evaluating" THEN readers \cup {t} ELSE readers \ {t}
  PROVE  /\ call' \in [Goroutines -> Calls]
         /\ readers' = {u \in Threads : call'[u].pc = "evaluating"}
<1>1. call'[t] = c /\ \A u \in Goroutines \ {t} : call'[u] = call[u]
  BY DEF TypeOK
<1>2. Main \notin Threads /\ Goroutines = Threads \cup {Main}
  BY PolicyAssumption DEF Goroutines
<1>3. readers = {u \in Threads : call[u].pc = "evaluating"}
  BY DEF TypeOK
<1>4. \A u : u \in readers' <=> u \in Threads /\ call'[u].pc = "evaluating"
  BY <1>1, <1>2, <1>3
<1>5. call' \in [Goroutines -> Calls]
  BY DEF TypeOK
<1>6. readers' \subseteq Threads
  BY <1>4
<1> QED
  BY <1>4, <1>5, <1>6

LEMMA TypeStep == TypeOK /\ [Next]_vars => TypeOK'
<1> SUFFICES ASSUME TypeOK, [Next]_vars PROVE TypeOK'
  OBVIOUS
<1> USE PolicyAssumption
<1>0. /\ source.files \subseteq Files
      /\ Main \in Goroutines /\ \A t \in Threads : t \in Goroutines /\ t # Main
      /\ Nothing \in Versions
      /\ \A t \in Goroutines : call[t] \in Calls
      /\ \A t \in Goroutines : call[t].pc # "evaluating" => t \notin readers
      /\ disk \in Versions
      /\ \A f \in Files : disk[f] \in 0 .. MaxVersion
  BY DEF TypeOK, Goroutines, Nothing, Versions
<1>1. ASSUME NEW f \in Files, Change(f)
      PROVE  TypeOK'
  <2>1. disk' \in [Files -> 1 .. MaxVersion]
    BY <1>1 DEF Change, TypeOK
  <2> QED
    BY <1>1, <2>1 DEF Change, startVars, lockVars, TypeOK
<1>2. ASSUME NEW t \in Goroutines, ReadDir(t)
      PROVE  TypeOK'
  <2>1. PICK missing \in SUBSET source.files :
          call' = [call EXCEPT ![t].pc = "read",
                               ![t].todo = source.files \ missing,
                               ![t].read = [f \in Files |-> IF f \in missing THEN disk[f] ELSE 0]]
    BY <1>2 DEF ReadDir
  <2> DEFINE read == [f \in Files |-> IF f \in missing THEN disk[f] ELSE 0]
             c == [call[t] EXCEPT !.pc = "read", !.todo = source.files \ missing, !.read = read]
  <2>2. read \in Versions
    BY <1>0 DEF Versions
  <2>3. c \in Calls /\ c.pc = "read"
    <3> HIDE DEF read
    <3> QED
      BY <1>0, <2>2 DEF Calls
  <2>4. call' = [call EXCEPT ![t] = c]
    <3> HIDE DEF read
    <3> QED
      BY <1>0, <2>1 DEF Calls, TypeOK, read
  <2>5. call[t].pc = "list" /\ readers' = readers \ {t}
    BY <1>0, <1>2 DEF ReadDir, lockVars
  <2>6. /\ call' \in [Goroutines -> Calls]
        /\ readers' = {u \in Threads : call'[u].pc = "evaluating"}
    <3> HIDE DEF c
    <3> QED
      BY <2>3, <2>4, <2>5, NewCall
  <2> QED
    BY <1>2, <2>6 DEF ReadDir, startVars, lockVars, TypeOK
<1>3. ASSUME NEW t \in Goroutines, ReadFile(t)
      PROVE  TypeOK'
  <2>1. PICK f \in call[t].todo :
          /\ call' = [call EXCEPT ![t].todo = @ \ {f}, ![t].read[f] = disk[f]]
          /\ cachedPolicy' = IF source.kind = "url" /\ call[t].op = "reload"
                             THEN disk[f] ELSE cachedPolicy
    BY <1>3 DEF ReadFile
  <2> DEFINE read == [call[t].read EXCEPT ![f] = disk[f]]
             c == [call[t] EXCEPT !.todo = @ \ {f}, !.read = read]
  <2>2. f \in Files /\ read \in Versions
    BY <1>0 DEF Calls, Versions
  <2>3. c \in Calls /\ c.pc = call[t].pc
    <3> HIDE DEF read
    <3> QED
      BY <1>0, <2>2 DEF Calls
  <2>4. call' = [call EXCEPT ![t] = c]
    BY <1>0, <2>1 DEF Calls, TypeOK
  <2>5. call[t].pc = "read" /\ readers' = readers \ {t}
    BY <1>0, <1>3 DEF ReadFile, lockVars
  <2>6. /\ call' \in [Goroutines -> Calls]
        /\ readers' = {u \in Threads : call'[u].pc = "evaluating"}
    <3> HIDE DEF c
    <3> QED
      BY <2>3, <2>4, <2>5, NewCall
  <2>7. cachedPolicy' \in 0 .. MaxVersion
    BY <1>0, <2>1, <2>2 DEF TypeOK
  <2> QED
    BY <1>3, <2>6, <2>7 DEF ReadFile, startVars, lockVars, TypeOK
<1>4. CASE ValidatePolicy
  <2>1. Begun("create", "list", Nothing) \in Calls /\ call[Main].read \in Versions
    BY <1>0 DEF Begun, Calls
  <2>2. /\ call' \in [Goroutines -> Calls]
        /\ readers' = {u \in Threads : call'[u].pc = "evaluating"}
    BY <1>0, <1>4, <2>1, NewCall DEF ValidatePolicy, Loaded, lockVars, Begun
  <2> QED
    BY <1>4, <2>1, <2>2 DEF ValidatePolicy, lockVars, TypeOK
<1>5. CASE ValidationFails
  <2>1. Over("validate", FALSE) \in Calls /\ Over("validate", FALSE).pc = "idle"
    BY <1>0 DEF Over, Begun, Calls
  <2>2. /\ call' \in [Goroutines -> Calls]
        /\ readers' = {u \in Threads : call'[u].pc = "evaluating"}
    BY <1>0, <1>5, <2>1, NewCall
    DEF ValidationFails, LoadFails, Unreadable, DoesNotCompile, lockVars
  <2> QED
    BY <1>5, <2>2 DEF ValidationFails, lockVars, TypeOK
<1>6. CASE NewPolicyEvaluator
  <2>1. Over("create", TRUE) \in Calls /\ Over("create", TRUE).pc = "idle"
    BY <1>0 DEF Over, Begun, Calls
  <2>2. /\ call' \in [Goroutines -> Calls]
        /\ readers' = {u \in Threads : call'[u].pc = "evaluating"}
    BY <1>0, <1>6, <2>1, NewCall DEF NewPolicyEvaluator, Loaded, lockVars
  <2>3. call[Main].read \in Versions /\ \A f \in Files : call[Main].read[f] \in 0 .. MaxVersion
    BY <1>0 DEF Calls, Versions
  <2>4. cachedPolicy' \in 0 .. MaxVersion
    BY <1>0, <1>6, <2>3 DEF NewPolicyEvaluator, TypeOK
  <2> QED
    BY <1>6, <2>2, <2>3, <2>4 DEF NewPolicyEvaluator, lockVars, TypeOK
<1>7. CASE FallBack
  <2> DEFINE c == [call[Main] EXCEPT !.pc = "idle"]
  <2>0. call' = [call EXCEPT ![Main].pc = "idle"]
    BY <1>7 DEF FallBack
  <2>1. c \in Calls /\ c.pc = "idle" /\ call' = [call EXCEPT ![Main] = c]
    BY <1>0, <2>0 DEF Calls, TypeOK
  <2>2. readers' = readers \ {Main}
    BY <1>0, <1>7 DEF FallBack, lockVars, TypeOK
  <2>3. /\ call' \in [Goroutines -> Calls]
        /\ readers' = {u \in Threads : call'[u].pc = "evaluating"}
    <3> HIDE DEF c
    <3> QED
      BY <1>0, <2>1, <2>2, NewCall
  <2> QED
    BY <1>7, <2>3 DEF FallBack, lockVars, TypeOK
<1>8. ASSUME NEW t \in Threads, Evaluate(t)
      PROVE  TypeOK'
  <2>1. Begun("evaluate", "waiting", query) \in Calls
    BY <1>0 DEF TypeOK, Begun, Calls
  <2>2. /\ call' \in [Goroutines -> Calls]
        /\ readers' = {u \in Threads : call'[u].pc = "evaluating"}
    BY <1>0, <1>8, <2>1, NewCall DEF Evaluate, lockVars, Begun
  <2> QED
    BY <1>8, <2>2 DEF Evaluate, startVars, lockVars, TypeOK
<1>9. ASSUME NEW t \in Threads, Reload(t)
      PROVE  TypeOK'
  <2>1. Begun("reload", "waiting", disk) \in Calls
    BY <1>0 DEF Begun, Calls
  <2>2. /\ call' \in [Goroutines -> Calls]
        /\ readers' = {u \in Threads : call'[u].pc = "evaluating"}
    BY <1>0, <1>9, <2>1, NewCall DEF Reload, lockVars, Begun
  <2>3. reloads' \in 0 .. MaxReloads
    BY <1>9 DEF Reload, TypeOK
  <2> QED
    BY <1>9, <2>2, <2>3 DEF Reload, startVars, lockVars, TypeOK
<1>10. ASSUME NEW t \in Threads, RLock(t)
       PROVE  TypeOK'
  BY <1>0, <1>10 DEF RLock, startVars, Calls, TypeOK
<1>11. ASSUME NEW t \in Threads, Decide(t)
       PROVE  TypeOK'
  <2> DEFINE c == [call[t] EXCEPT !.pc = "idle", !.read = query, !.ok = TRUE]
  <2>1. call' = [call EXCEPT ![t].pc = "idle", ![t].read = query, ![t].ok = TRUE]
    BY <1>11 DEF Decide
  <2>2. c \in Calls /\ c.pc = "idle" /\ call' = [call EXCEPT ![t] = c]
    BY <1>0, <2>1 DEF Calls, TypeOK
  <2>3. /\ call' \in [Goroutines -> Calls]
        /\ readers' = {u \in Threads : call'[u].pc = "evaluating"}
    <3> HIDE DEF c
    <3> QED
      BY <1>0, <1>11, <2>2, NewCall DEF Decide
  <2> QED
    BY <1>11, <2>3 DEF Decide, startVars, TypeOK
<1>12. ASSUME NEW t \in Threads, Lock(t)
       PROVE  TypeOK'
  BY <1>0, <1>12 DEF Lock, startVars, Calls, TypeOK
<1>13. ASSUME NEW t \in Threads, Install(t)
       PROVE  TypeOK'
  <2> DEFINE c == [call[t] EXCEPT !.pc = "idle", !.ok = TRUE]
  <2>1. call' = [call EXCEPT ![t].pc = "idle", ![t].ok = TRUE]
    BY <1>13 DEF Install
  <2>2. c \in Calls /\ c.pc = "idle" /\ call' = [call EXCEPT ![t] = c]
    BY <1>0, <2>1 DEF Calls, TypeOK
  <2>3. readers' = readers \ {t} /\ query' \in Versions /\ writer' = NoThread
    BY <1>0, <1>13 DEF Install, Loaded, Calls
  <2>4. /\ call' \in [Goroutines -> Calls]
        /\ readers' = {u \in Threads : call'[u].pc = "evaluating"}
    <3> HIDE DEF c
    <3> QED
      BY <1>0, <2>2, <2>3, NewCall
  <2> QED
    BY <1>13, <2>3, <2>4 DEF Install, startVars, TypeOK
<1>14. ASSUME NEW t \in Threads, ReloadFails(t)
       PROVE  TypeOK'
  <2> DEFINE c == [call[t] EXCEPT !.pc = "idle"]
  <2>1. call' = [call EXCEPT ![t].pc = "idle"]
    BY <1>14 DEF ReloadFails
  <2>2. c \in Calls /\ c.pc = "idle" /\ call' = [call EXCEPT ![t] = c]
    BY <1>0, <2>1 DEF Calls, TypeOK
  <2>3. call[t].pc = "read"
    BY <1>14 DEF ReloadFails, LoadFails, Unreadable, DoesNotCompile
  <2>4. readers' = readers \ {t}
    BY <1>0, <1>14, <2>3 DEF ReloadFails
  <2>5. /\ call' \in [Goroutines -> Calls]
        /\ readers' = {u \in Threads : call'[u].pc = "evaluating"}
    <3> HIDE DEF c
    <3> QED
      BY <1>0, <2>2, <2>4, NewCall
  <2> QED
    BY <1>14, <2>5 DEF ReloadFails, startVars, TypeOK
<1>15. CASE UNCHANGED vars
  BY <1>15 DEF vars, startVars, lockVars, TypeOK
<1> QED
  BY <1>1, <1>2, <1>3, <1>4, <1>5, <1>6, <1>7, <1>8, <1>9, <1>10, <1>11, <1>12, <1>13,
     <1>14, <1>15, <1>0
  DEF Next, StartUp, Continue, Load
-----------------------------------------------------------------------------
(* Who does what, and who holds the lock *)

\* ReadDir begins the reading of the files and changes nothing else of the call.
LEMMA ReadDirCall ==
  ASSUME TypeOK, NEW t \in Goroutines, ReadDir(t)
  PROVE  /\ call'[t].op = call[t].op /\ call'[t].ok = call[t].ok /\ call'[t].pc = "read"
         /\ \A u \in Goroutines \ {t} : call'[u] = call[u]
<1>1. call[t] \in Calls /\ DOMAIN call = Goroutines
  BY DEF TypeOK
<1>2. PICK todo, read :
        call' = [call EXCEPT ![t].pc = "read", ![t].todo = todo, ![t].read = read]
  BY DEF ReadDir
<1> QED
  BY <1>1, <1>2 DEF Calls

LEMMA StageInit == Init => StageInv /\ LockInv
<1> SUFFICES ASSUME Init PROVE StageInv /\ LockInv
  OBVIOUS
<1>1. /\ call[Main].op = "validate" /\ call[Main].pc = "list"
      /\ \A t \in Threads : call[t].op = "none" /\ call[t].pc = "idle"
  BY PolicyAssumption DEF Init, Over, Begun, Goroutines
<1> QED
  BY <1>1 DEF Init, StageInv, LockInv, Loading

LEMMA StageStep == TypeOK /\ StageInv /\ LockInv /\ [Next]_vars => StageInv' /\ LockInv'
<1> SUFFICES ASSUME TypeOK, StageInv, LockInv, [Next]_vars
             PROVE  StageInv' /\ LockInv'
  OBVIOUS
<1> USE DEF StageInv, LockInv, Loading
<1>0. /\ Main \in Goroutines /\ \A t \in Threads : t \in Goroutines /\ t # Main
      /\ \A t \in Goroutines : call[t] \in Calls
      /\ DOMAIN call = Goroutines
      /\ readers = {t \in Threads : call[t].pc = "evaluating"}
      /\ NoThread \notin Threads
  BY PolicyAssumption DEF TypeOK, Goroutines
<1>1. ASSUME NEW f \in Files, Change(f)
      PROVE  StageInv' /\ LockInv'
  BY <1>1 DEF Change, startVars, lockVars
<1>2. ASSUME NEW t \in Goroutines, ReadDir(t)
      PROVE  StageInv' /\ LockInv'
  <2>1. /\ call'[t].op = call[t].op /\ call'[t].ok = call[t].ok /\ call'[t].pc = "read"
        /\ \A u \in Goroutines \ {t} : call'[u] = call[u]
    BY <1>2, ReadDirCall
  <2>2. call[t].pc = "list" /\ (call[t].op = "reload" => readers = {})
    BY <1>2 DEF ReadDir
  <2>3. UNCHANGED <<phase, evaluator, writer, readers>>
    BY <1>2 DEF ReadDir, startVars, lockVars
  <2> QED
    BY <1>0, <2>1, <2>2, <2>3
<1>3. ASSUME NEW t \in Goroutines, ReadFile(t)
      PROVE  StageInv' /\ LockInv'
  BY <1>0, <1>3, PolicyAssumption DEF ReadFile, startVars, lockVars, Calls, Goroutines
<1>4. CASE ValidatePolicy
  BY <1>0, <1>4 DEF ValidatePolicy, Loaded, lockVars, Begun, Calls
<1>5. CASE ValidationFails
  BY <1>0, <1>5 DEF ValidationFails, LoadFails, Unreadable, DoesNotCompile, lockVars, Over,
              Begun, Calls
<1>6. CASE NewPolicyEvaluator
  BY <1>0, <1>6 DEF NewPolicyEvaluator, Loaded, lockVars, Over, Begun, Calls
<1>7. CASE FallBack
  BY <1>0, <1>7 DEF FallBack, LoadFails, Unreadable, DoesNotCompile, lockVars, Calls
<1>8. ASSUME NEW t \in Threads, Evaluate(t)
      PROVE  StageInv' /\ LockInv'
  BY <1>0, <1>8, PolicyAssumption DEF Evaluate, startVars, lockVars, Begun, Calls, Goroutines
<1>9. ASSUME NEW t \in Threads, Reload(t)
      PROVE  StageInv' /\ LockInv'
  BY <1>0, <1>9, PolicyAssumption DEF Reload, startVars, lockVars, Begun, Calls, Goroutines
<1>10. ASSUME NEW t \in Threads, RLock(t)
       PROVE  StageInv' /\ LockInv'
  BY <1>0, <1>10, PolicyAssumption DEF RLock, startVars, Calls, Goroutines
<1>11. ASSUME NEW t \in Threads, Decide(t)
       PROVE  StageInv' /\ LockInv'
  BY <1>0, <1>11, PolicyAssumption DEF Decide, startVars, Calls, Goroutines
<1>12. ASSUME NEW t \in Threads, Lock(t)
       PROVE  StageInv' /\ LockInv'
  BY <1>0, <1>12, PolicyAssumption DEF Lock, startVars, Calls, Goroutines
<1>13. ASSUME NEW t \in Threads, Install(t)
       PROVE  StageInv' /\ LockInv'
  BY <1>0, <1>13, PolicyAssumption DEF Install, Loaded, startVars, Calls, Goroutines
<1>14. ASSUME NEW t \in Threads, ReloadFails(t)
       PROVE  StageInv' /\ LockInv'
  BY <1>0, <1>14, PolicyAssumption DEF ReloadFails, LoadFails, Unreadable, DoesNotCompile,
              startVars, Calls, Goroutines
<1>15. CASE UNCHANGED vars
  BY <1>15 DEF vars, startVars, lockVars
<1> QED
  BY <1>1, <1>2, <1>3, <1>4, <1>5, <1>6, <1>7, <1>8, <1>9, <1>10, <1>11, <1>12, <1>13,
     <1>14, <1>15, <1>0
  DEF Next, StartUp, Continue, Load
-----------------------------------------------------------------------------
(* What is read and what is in force *)

DataInv == ReadInv /\ QueryInv /\ AheadInv /\ FloorInv

LEMMA DataStep ==
  TypeOK /\ StageInv /\ LockInv /\ DataInv /\ [Next]_vars => DataInv'
<1> SUFFICES ASSUME TypeOK, StageInv, LockInv, DataInv, [Next]_vars
             PROVE  DataInv'
  OBVIOUS
<1> USE DEF DataInv
<1>0. /\ Main \in Goroutines /\ \A t \in Threads : t \in Goroutines /\ t # Main
      /\ Goroutines = Threads \cup {Main}
      /\ \A t \in Goroutines : call[t] \in Calls
      /\ DOMAIN call = Goroutines
      /\ \A t \in Goroutines, f \in Files :
            call[t].read[f] \in Nat /\ call[t].floor[f] \in Nat
      /\ \A f \in Files : disk[f] \in Nat /\ query[f] \in Nat
      /\ source.files \subseteq Files
      /\ NoThread \notin Threads
  BY PolicyAssumption DEF TypeOK, Goroutines, Calls, Versions
<1>1. ASSUME NEW f \in Files, Change(f)
      PROVE  DataInv'
  <2>1. ReadInv'
    BY <1>0, <1>1
    DEF Change, startVars, lockVars, ReadInv
  <2>2. QueryInv'
    BY <1>0, <1>1
    DEF Change, startVars, lockVars, QueryInv, Compiles, Present
  <2>3. AheadInv'
    BY <1>0, <1>1
    DEF Change, startVars, lockVars, AheadInv
  <2>4. FloorInv'
    BY <1>0, <1>1
    DEF Change, startVars, lockVars, FloorInv, NotOlder
  <2> QED
    BY <2>1, <2>2, <2>3, <2>4
<1>2. ASSUME NEW t \in Goroutines, ReadDir(t)
      PROVE  DataInv'
  <2>1. PICK missing \in SUBSET source.files :
          call' = [call EXCEPT ![t].pc = "read",
                               ![t].todo = source.files \ missing,
                               ![t].read = [f \in Files |-> IF f \in missing THEN disk[f] ELSE 0]]
    BY <1>2 DEF ReadDir
  <2>2. /\ call'[t].op = call[t].op /\ call'[t].floor = call[t].floor
        /\ call'[t].todo = source.files \ missing
        /\ call'[t].read = [f \in Files |-> IF f \in missing THEN disk[f] ELSE 0]
        /\ \A u \in Goroutines \ {t} : call'[u] = call[u]
    BY <1>0, <2>1 DEF Calls
  <2>3. UNCHANGED <<source, evaluator, disk, query>> /\ call[t].pc = "list"
    BY <1>2 DEF ReadDir, startVars
  <2>4. \A f \in Files : call'[t].read[f] = IF f \in missing THEN disk[f] ELSE 0
    BY <2>2
  <2>5. ReadInv'
    BY <1>0, <2>2, <2>3, <2>4 DEF ReadInv
  <2>6. QueryInv'
    BY <2>3 DEF QueryInv, Compiles, Present
  <2>7. t \in Threads => call[t].op = "reload" /\ NotOlder(disk, call[t].floor)
    BY <2>3 DEF LockInv, Loading, FloorInv
  <2>8. AheadInv'
    BY <1>0, <2>2, <2>3, <2>4, <2>7 DEF AheadInv, QueryInv, NotOlder
  <2>9. FloorInv'
    BY <1>0, <2>2, <2>3 DEF FloorInv, NotOlder
  <2> QED
    BY <2>5, <2>6, <2>8, <2>9
<1>3. ASSUME NEW t \in Goroutines, ReadFile(t)
      PROVE  DataInv'
  <2>1. PICK f \in call[t].todo :
          call' = [call EXCEPT ![t].todo = @ \ {f}, ![t].read[f] = disk[f]]
    BY <1>3 DEF ReadFile
  <2>2. /\ call'[t].op = call[t].op /\ call'[t].pc = call[t].pc
        /\ call'[t].floor = call[t].floor
        /\ call'[t].todo = call[t].todo \ {f}
        /\ call'[t].read = [call[t].read EXCEPT ![f] = disk[f]]
        /\ \A u \in Goroutines \ {t} : call'[u] = call[u]
    BY <1>0, <2>1 DEF Calls
  <2>3. UNCHANGED <<source, evaluator, disk, query>> /\ call[t].pc = "read"
    BY <1>3 DEF ReadFile, startVars
  <2>4. \A g \in Files : call'[t].read[g] = IF g = f THEN disk[f] ELSE call[t].read[g]
    BY <1>0, <2>2 DEF Calls, Versions
  <2>5. f \in source.files
    BY <2>3 DEF ReadInv
  <2>6. ReadInv'
    <3> SUFFICES ASSUME NEW u \in Goroutines, call'[u].pc = "read"
                 PROVE  /\ call'[u].todo \subseteq source.files
                        /\ \A g \in Files : call'[u].read[g] <= disk[g]
                        /\ \A g \in Files \ source.files : call'[u].read[g] = 0
      BY <2>3 DEF ReadInv
    <3>1. CASE u = t
      <4>1. /\ call[t].todo \subseteq source.files
            /\ \A g \in Files : call[t].read[g] <= disk[g]
            /\ \A g \in Files \ source.files : call[t].read[g] = 0
        BY <2>3 DEF ReadInv
      <4>2. \A g \in Files : call'[t].read[g] <= disk[g]
        BY <1>0, <2>4, <4>1, <2>5
      <4> QED
        BY <2>2, <2>4, <2>5, <3>1, <4>1, <4>2
    <3>2. CASE u # t
      BY <2>2, <3>2 DEF ReadInv
    <3> QED
      BY <3>1, <3>2
  <2>7. QueryInv'
    BY <2>3 DEF QueryInv, Compiles, Present
  <2>8. t \in Threads => call[t].op = "reload" /\ NotOlder(disk, call[t].floor)
    BY <2>3 DEF LockInv, Loading, FloorInv
  <2>9. AheadInv'
    <3> SUFFICES ASSUME NEW u \in Threads, call'[u].pc = "read",
                        NEW g \in source.files \ call'[u].todo
                 PROVE  call'[u].read[g] >= query[g] /\ call'[u].read[g] >= call'[u].floor[g]
      BY <2>3 DEF AheadInv
    <3>1. CASE u = t
      <4>1. disk[g] >= query[g] /\ disk[g] >= call[t].floor[g]
        BY <1>0, <2>8, <3>1 DEF QueryInv, NotOlder
      <4>2. CASE g = f
        BY <2>2, <2>4, <3>1, <4>1, <4>2, <1>0
      <4>3. CASE g # f
        BY <1>0, <2>2, <2>3, <2>4, <3>1, <4>3 DEF AheadInv
      <4> QED
        BY <4>2, <4>3
    <3>2. CASE u # t
      BY <1>0, <2>2, <3>2 DEF AheadInv
    <3> QED
      BY <3>1, <3>2
  <2>10. FloorInv'
    BY <1>0, <2>2, <2>3 DEF FloorInv, NotOlder
  <2> QED
    BY <2>6, <2>7, <2>9, <2>10
<1>4. CASE ValidatePolicy
  <2>1. ReadInv'
    BY <1>0, <1>4
    DEF ValidatePolicy, Loaded, lockVars, Begun, ReadInv
  <2>2. QueryInv'
    BY <1>0, <1>4
    DEF ValidatePolicy, Loaded, lockVars, Begun, QueryInv, Compiles, Present
  <2>3. AheadInv'
    BY <1>0, <1>4
    DEF ValidatePolicy, Loaded, lockVars, Begun, AheadInv
  <2>4. FloorInv'
    BY <1>0, <1>4
    DEF ValidatePolicy, Loaded, lockVars, Begun, FloorInv, NotOlder
  <2> QED
    BY <2>1, <2>2, <2>3, <2>4
<1>5. CASE ValidationFails
  <2>1. ReadInv'
    BY <1>0, <1>5
    DEF ValidationFails, LoadFails, Unreadable, DoesNotCompile, lockVars, Over, Begun, ReadInv
  <2>2. QueryInv'
    BY <1>0, <1>5
    DEF ValidationFails, LoadFails, Unreadable, DoesNotCompile, lockVars, Over, Begun, QueryInv,
        Compiles, Present
  <2>3. AheadInv'
    BY <1>0, <1>5
    DEF ValidationFails, LoadFails, Unreadable, DoesNotCompile, lockVars, Over, Begun, AheadInv
  <2>4. FloorInv'
    BY <1>0, <1>5
    DEF ValidationFails, LoadFails, Unreadable, DoesNotCompile, lockVars, Over, Begun, FloorInv,
        NotOlder
  <2> QED
    BY <2>1, <2>2, <2>3, <2>4
<1>6. CASE NewPolicyEvaluator
  <2>1. ReadInv'
    BY <1>0, <1>6
    DEF NewPolicyEvaluator, Loaded, lockVars, Over, Begun, ReadInv
  <2>2. QueryInv'
    BY <1>0, <1>6
    DEF NewPolicyEvaluator, Loaded, lockVars, Over, Begun, ReadInv, QueryInv, Compiles, Present
  <2>3. AheadInv'
    BY <1>0, <1>6
    DEF NewPolicyEvaluator, Loaded, lockVars, Over, Begun, StageInv, AheadInv
  <2>4. FloorInv'
    BY <1>0, <1>6
    DEF NewPolicyEvaluator, Loaded, lockVars, Over, Begun, StageInv, FloorInv
  <2> QED
    BY <2>1, <2>2, <2>3, <2>4
<1>7. CASE FallBack
  <2>1. ReadInv'
    BY <1>0, <1>7
    DEF FallBack, LoadFails, Unreadable, DoesNotCompile, lockVars, ReadInv
  <2>2. QueryInv'
    BY <1>0, <1>7
    DEF FallBack, LoadFails, Unreadable, DoesNotCompile, lockVars, QueryInv, Compiles, Present
  <2>3. AheadInv'
    BY <1>0, <1>7
    DEF FallBack, LoadFails, Unreadable, DoesNotCompile, lockVars, AheadInv
  <2>4. FloorInv'
    BY <1>0, <1>7
    DEF FallBack, LoadFails, Unreadable, DoesNotCompile, lockVars, FloorInv, NotOlder
  <2> QED
    BY <2>1, <2>2, <2>3, <2>4
<1>8. ASSUME NEW t \in Threads, Evaluate(t)
      PROVE  DataInv'
  <2>1. ReadInv'
    BY <1>0, <1>8
    DEF Evaluate, startVars, lockVars, Begun, ReadInv
  <2>2. QueryInv'
    BY <1>0, <1>8
    DEF Evaluate, startVars, lockVars, Begun, QueryInv, Compiles, Present
  <2>3. AheadInv'
    BY <1>0, <1>8
    DEF Evaluate, startVars, lockVars, Begun, AheadInv
  <2>4. FloorInv'
    BY <1>0, <1>8
    DEF Evaluate, startVars, lockVars, Begun, FloorInv, NotOlder
  <2> QED
    BY <2>1, <2>2, <2>3, <2>4
<1>9. ASSUME NEW t \in Threads, Reload(t)
      PROVE  DataInv'
  <2>1. ReadInv'
    BY <1>0, <1>9
    DEF Reload, startVars, lockVars, Begun, ReadInv
  <2>2. QueryInv'
    BY <1>0, <1>9
    DEF Reload, startVars, lockVars, Begun, QueryInv, Compiles, Present
  <2>3. AheadInv'
    BY <1>0, <1>9
    DEF Reload, startVars, lockVars, Begun, AheadInv
  <2>4. FloorInv'
    BY <1>0, <1>9
    DEF Reload, startVars, lockVars, Begun, FloorInv, NotOlder
  <2> QED
    BY <2>1, <2>2, <2>3, <2>4
<1>10. ASSUME NEW t \in Threads, RLock(t)
       PROVE  DataInv'
  <2>1. ReadInv'
    BY <1>0, <1>10
    DEF RLock, startVars, ReadInv
  <2>2. QueryInv'
    BY <1>0, <1>10
    DEF RLock, startVars, QueryInv, Compiles, Present
  <2>3. AheadInv'
    BY <1>0, <1>10
    DEF RLock, startVars, AheadInv
  <2>4. FloorInv'
    BY <1>0, <1>10
    DEF RLock, startVars, FloorInv, NotOlder
  <2> QED
    BY <2>1, <2>2, <2>3, <2>4
<1>11. ASSUME NEW t \in Threads, Decide(t)
       PROVE  DataInv'
  <2>1. ReadInv'
    BY <1>0, <1>11
    DEF Decide, startVars, ReadInv
  <2>2. QueryInv'
    BY <1>0, <1>11
    DEF Decide, startVars, QueryInv, Compiles, Present
  <2>3. AheadInv'
    BY <1>0, <1>11
    DEF Decide, startVars, AheadInv
  <2>4. FloorInv'
    BY <1>0, <1>11
    DEF Decide, startVars, FloorInv, NotOlder
  <2> QED
    BY <2>1, <2>2, <2>3, <2>4
<1>12. ASSUME NEW t \in Threads, Lock(t)
       PROVE  DataInv'
  <2>1. ReadInv'
    BY <1>0, <1>12
    DEF Lock, startVars, ReadInv
  <2>2. QueryInv'
    BY <1>0, <1>12
    DEF Lock, startVars, QueryInv, Compiles, Present
  <2>3. AheadInv'
    BY <1>0, <1>12
    DEF Lock, startVars, AheadInv
  <2>4. FloorInv'
    BY <1>0, <1>12
    DEF Lock, startVars, FloorInv, NotOlder
  <2> QED
    BY <2>1, <2>2, <2>3, <2>4
<1>13. ASSUME NEW t \in Threads, Install(t)
       PROVE  DataInv'
  <2>1. ReadInv'
    BY <1>0, <1>13
    DEF Install, Loaded, startVars, ReadInv
  <2>2. QueryInv'
    BY <1>0, <1>13
    DEF Install, Loaded, startVars, ReadInv, QueryInv, Compiles, Present
  <2>3. AheadInv'
    BY <1>0, <1>13
    DEF Install, Loaded, startVars, LockInv, Loading, AheadInv
  <2>4. FloorInv'
    BY <1>0, <1>13
    DEF Install, Loaded, startVars, ReadInv, QueryInv, AheadInv, FloorInv, NotOlder
  <2> QED
    BY <2>1, <2>2, <2>3, <2>4
<1>14. ASSUME NEW t \in Threads, ReloadFails(t)
       PROVE  DataInv'
  <2>1. ReadInv'
    BY <1>0, <1>14
    DEF ReloadFails, LoadFails, Unreadable, DoesNotCompile, startVars, ReadInv
  <2>2. QueryInv'
    BY <1>0, <1>14
    DEF ReloadFails, LoadFails, Unreadable, DoesNotCompile, startVars, QueryInv, Compiles, Present
  <2>3. AheadInv'
    BY <1>0, <1>14
    DEF ReloadFails, LoadFails, Unreadable, DoesNotCompile, startVars, AheadInv
  <2>4. FloorInv'
    BY <1>0, <1>14
    DEF ReloadFails, LoadFails, Unreadable, DoesNotCompile, startVars, FloorInv, NotOlder
  <2> QED
    BY <2>1, <2>2, <2>3, <2>4
<1>15. CASE UNCHANGED vars
  BY <1>15 DEF vars, startVars, lockVars, ReadInv, QueryInv, AheadInv, FloorInv, Compiles,
              Present, NotOlder
<1> QED
  BY <1>1, <1>2, <1>3, <1>4, <1>5, <1>6, <1>7, <1>8, <1>9, <1>10, <1>11, <1>12, <1>13,
     <1>14, <1>15, <1>0
  DEF Next, StartUp, Continue, Load

LEMMA DataInit == Init => DataInv
<1> SUFFICES ASSUME Init PROVE DataInv
  OBVIOUS
<1>1. \A t \in Goroutines : call[t].pc # "read"
  BY DEF Init, Over, Begun
<1>2. \A t \in Threads : call[t].pc = "idle"
  BY PolicyAssumption DEF Init, Over, Begun, Goroutines
<1>3. \A f \in Files : query[f] = 0 /\ disk[f] = 1
  BY DEF Init, Nothing
<1>4. QueryInv
  BY <1>3, PolicyAssumption DEF Init, QueryInv
<1> QED
  BY <1>1, <1>2, <1>4, PolicyAssumption DEF DataInv, ReadInv, AheadInv, FloorInv, Goroutines

-----------------------------------------------------------------------------
(* What the calls returned *)

AnswersInv == DecisionsNotOlder /\ ReloadTakesEffect /\ OnlyCompiledPolicies

LEMMA AnswersStep ==
  TypeOK /\ StageInv /\ LockInv /\ DataInv /\ AnswersInv /\ [Next]_vars => AnswersInv'
<1> SUFFICES ASSUME TypeOK, StageInv, LockInv, DataInv, AnswersInv, [Next]_vars
             PROVE  AnswersInv'
  OBVIOUS
<1> USE DEF AnswersInv
<1>0. /\ Main \in Goroutines /\ \A t \in Threads : t \in Goroutines /\ t # Main
      /\ Goroutines = Threads \cup {Main}
      /\ \A t \in Goroutines : call[t] \in Calls
      /\ DOMAIN call = Goroutines
      /\ \A t \in Goroutines, f \in Files :
            call[t].read[f] \in Nat /\ call[t].floor[f] \in Nat
      /\ \A f \in Files : disk[f] \in Nat /\ query[f] \in Nat
      /\ source.files \subseteq Files
  BY PolicyAssumption DEF TypeOK, Goroutines, Calls, Versions
<1>1. ASSUME NEW f \in Files, Change(f)
      PROVE  AnswersInv'
  <2>1. DecisionsNotOlder'
    BY <1>0, <1>1
    DEF Change, startVars, lockVars, DecisionsNotOlder
  <2>2. ReloadTakesEffect'
    BY <1>0, <1>1
    DEF Change, startVars, lockVars, ReloadTakesEffect
  <2>3. OnlyCompiledPolicies'
    BY <1>0, <1>1
    DEF Change, startVars, lockVars, OnlyCompiledPolicies, Compiles, Present
  <2> QED
    BY <2>1, <2>2, <2>3
<1>2. ASSUME NEW t \in Goroutines, ReadDir(t)
      PROVE  AnswersInv'
  <2>1. /\ call'[t].op = call[t].op /\ call'[t].ok = call[t].ok
        /\ \A u \in Goroutines \ {t} : call'[u] = call[u]
    BY <1>2, ReadDirCall
  <2>2. t \in Threads => ~call[t].ok
    BY <1>2 DEF ReadDir, StageInv
  <2>3. UNCHANGED <<source, query>>
    BY <1>2 DEF ReadDir, startVars
  <2> QED
    BY <1>0, <2>1, <2>2, <2>3
    DEF DecisionsNotOlder, ReloadTakesEffect, OnlyCompiledPolicies, Compiles, Present
<1>3. ASSUME NEW t \in Goroutines, ReadFile(t)
      PROVE  AnswersInv'
  <2>1. /\ call'[t].op = call[t].op /\ call'[t].ok = call[t].ok
        /\ \A u \in Goroutines \ {t} : call'[u] = call[u]
    BY <1>0, <1>3 DEF ReadFile, Calls
  <2>2. t \in Threads => ~call[t].ok
    BY <1>3 DEF ReadFile, StageInv
  <2>3. UNCHANGED <<source, query>>
    BY <1>3 DEF ReadFile, startVars
  <2> QED
    BY <1>0, <2>1, <2>2, <2>3
    DEF DecisionsNotOlder, ReloadTakesEffect, OnlyCompiledPolicies, Compiles, Present
<1>4. CASE ValidatePolicy
  <2>1. DecisionsNotOlder'
    BY <1>0, <1>4
    DEF ValidatePolicy, Loaded, lockVars, Begun, DecisionsNotOlder
  <2>2. ReloadTakesEffect'
    BY <1>0, <1>4
    DEF ValidatePolicy, Loaded, lockVars, Begun, ReloadTakesEffect
  <2>3. OnlyCompiledPolicies'
    BY <1>0, <1>4
    DEF ValidatePolicy, Loaded, lockVars, Begun, OnlyCompiledPolicies, Compiles, Present
  <2> QED
    BY <2>1, <2>2, <2>3
<1>5. CASE ValidationFails
  <2>1. DecisionsNotOlder'
    BY <1>0, <1>5
    DEF ValidationFails, LoadFails, Unreadable, DoesNotCompile, lockVars, Over, Begun,
        DecisionsNotOlder
  <2>2. ReloadTakesEffect'
    BY <1>0, <1>5
    DEF ValidationFails, LoadFails, Unreadable, DoesNotCompile, lockVars, Over, Begun,
        ReloadTakesEffect
  <2>3. OnlyCompiledPolicies'
    BY <1>0, <1>5
    DEF ValidationFails, LoadFails, Unreadable, DoesNotCompile, lockVars, Over, Begun,
        OnlyCompiledPolicies, Compiles, Present
  <2> QED
    BY <2>1, <2>2, <2>3
<1>6. CASE NewPolicyEvaluator
  <2>1. DecisionsNotOlder'
    BY <1>0, <1>6
    DEF NewPolicyEvaluator, Loaded, lockVars, Over, Begun, DecisionsNotOlder
  <2>2. ReloadTakesEffect'
    BY <1>0, <1>6
    DEF NewPolicyEvaluator, Loaded, lockVars, Over, Begun, StageInv, ReloadTakesEffect
  <2>3. OnlyCompiledPolicies'
    BY <1>0, <1>6
    DEF NewPolicyEvaluator, Loaded, lockVars, Over, Begun, OnlyCompiledPolicies, Compiles, Present
  <2> QED
    BY <2>1, <2>2, <2>3
<1>7. CASE FallBack
  <2>1. DecisionsNotOlder'
    BY <1>0, <1>7
    DEF FallBack, LoadFails, Unreadable, DoesNotCompile, lockVars, DecisionsNotOlder
  <2>2. ReloadTakesEffect'
    BY <1>0, <1>7
    DEF FallBack, LoadFails, Unreadable, DoesNotCompile, lockVars, ReloadTakesEffect
  <2>3. OnlyCompiledPolicies'
    BY <1>0, <1>7
    DEF FallBack, LoadFails, Unreadable, DoesNotCompile, lockVars, OnlyCompiledPolicies,
        Compiles, Present
  <2> QED
    BY <2>1, <2>2, <2>3
<1>8. ASSUME NEW t \in Threads, Evaluate(t)
      PROVE  AnswersInv'
  <2>1. DecisionsNotOlder'
    BY <1>0, <1>8
    DEF Evaluate, startVars, lockVars, Begun, DecisionsNotOlder
  <2>2. ReloadTakesEffect'
    BY <1>0, <1>8
    DEF Evaluate, startVars, lockVars, Begun, ReloadTakesEffect
  <2>3. OnlyCompiledPolicies'
    BY <1>0, <1>8
    DEF Evaluate, startVars, lockVars, Begun, OnlyCompiledPolicies, Compiles, Present
  <2> QED
    BY <2>1, <2>2, <2>3
<1>9. ASSUME NEW t \in Threads, Reload(t)
      PROVE  AnswersInv'
  <2>1. DecisionsNotOlder'
    BY <1>0, <1>9
    DEF Reload, startVars, lockVars, Begun, DecisionsNotOlder
  <2>2. ReloadTakesEffect'
    BY <1>0, <1>9
    DEF Reload, startVars, lockVars, Begun, ReloadTakesEffect
  <2>3. OnlyCompiledPolicies'
    BY <1>0, <1>9
    DEF Reload, startVars, lockVars, Begun, OnlyCompiledPolicies, Compiles, Present
  <2> QED
    BY <2>1, <2>2, <2>3
<1>10. ASSUME NEW t \in Threads, RLock(t)
       PROVE  AnswersInv'
  <2>1. DecisionsNotOlder'
    BY <1>0, <1>10
    DEF RLock, startVars, DecisionsNotOlder
  <2>2. ReloadTakesEffect'
    BY <1>0, <1>10
    DEF RLock, startVars, ReloadTakesEffect
  <2>3. OnlyCompiledPolicies'
    BY <1>0, <1>10
    DEF RLock, startVars, OnlyCompiledPolicies, Compiles, Present
  <2> QED
    BY <2>1, <2>2, <2>3
<1>11. ASSUME NEW t \in Threads, Decide(t)
       PROVE  AnswersInv'
  <2>1. DecisionsNotOlder'
    BY <1>0, <1>11
    DEF Decide, startVars, LockInv, DataInv, FloorInv, DecisionsNotOlder, NotOlder
  <2>2. ReloadTakesEffect'
    BY <1>0, <1>11
    DEF Decide, startVars, LockInv, ReloadTakesEffect
  <2>3. OnlyCompiledPolicies'
    BY <1>0, <1>11
    DEF Decide, startVars, StageInv, DataInv, QueryInv, OnlyCompiledPolicies, Compiles, Present
  <2> QED
    BY <2>1, <2>2, <2>3
<1>12. ASSUME NEW t \in Threads, Lock(t)
       PROVE  AnswersInv'
  <2>1. DecisionsNotOlder'
    BY <1>0, <1>12
    DEF Lock, startVars, DecisionsNotOlder
  <2>2. ReloadTakesEffect'
    BY <1>0, <1>12
    DEF Lock, startVars, ReloadTakesEffect
  <2>3. OnlyCompiledPolicies'
    BY <1>0, <1>12
    DEF Lock, startVars, OnlyCompiledPolicies, Compiles, Present
  <2> QED
    BY <2>1, <2>2, <2>3
<1>13. ASSUME NEW t \in Threads, Install(t)
       PROVE  AnswersInv'
  <2>1. DecisionsNotOlder'
    BY <1>0, <1>13
    DEF Install, Loaded, startVars, DecisionsNotOlder
  <2>2. ReloadTakesEffect'
    BY <1>0, <1>13
    DEF Install, Loaded, startVars, LockInv, Loading, DataInv, AheadInv, ReloadTakesEffect
  <2>3. OnlyCompiledPolicies'
    BY <1>0, <1>13
    DEF Install, Loaded, startVars, OnlyCompiledPolicies, Compiles, Present
  <2> QED
    BY <2>1, <2>2, <2>3
<1>14. ASSUME NEW t \in Threads, ReloadFails(t)
       PROVE  AnswersInv'
  <2>1. DecisionsNotOlder'
    BY <1>0, <1>14
    DEF ReloadFails, LoadFails, Unreadable, DoesNotCompile, startVars, DecisionsNotOlder
  <2>2. ReloadTakesEffect'
    BY <1>0, <1>14
    DEF ReloadFails, LoadFails, Unreadable, DoesNotCompile, startVars, ReloadTakesEffect
  <2>3. OnlyCompiledPolicies'
    BY <1>0, <1>14
    DEF ReloadFails, LoadFails, Unreadable, DoesNotCompile, startVars, OnlyCompiledPolicies,
        Compiles, Present
  <2> QED
    BY <2>1, <2>2, <2>3
<1>15. CASE UNCHANGED vars
  BY <1>15 DEF vars, startVars, lockVars, DecisionsNotOlder, ReloadTakesEffect,
               OnlyCompiledPolicies, Compiles, Present
<1> QED
  BY <1>1, <1>2, <1>3, <1>4, <1>5, <1>6, <1>7, <1>8, <1>9, <1>10, <1>11, <1>12, <1>13,
     <1>14, <1>15, <1>0
  DEF Next, StartUp, Continue, Load

-----------------------------------------------------------------------------
(* The start-up *)

\* Before the second load is over, what the first one read compiles.
StartInv ==
    /\ phase = "starting" /\ call[Main].op = "create" => Compiles(validated)
    /\ phase = "serving" => call[Main].op = "create"
    /\ FallbackOnlyIfChanged

LEMMA StartStep == TypeOK /\ StageInv /\ StartInv /\ [Next]_vars => StartInv'
<1> SUFFICES ASSUME TypeOK, StageInv, StartInv, [Next]_vars
             PROVE  StartInv'
  OBVIOUS
<1> USE DEF StartInv, FallbackOnlyIfChanged, Compiles, Present
<1>0. /\ Main \in Goroutines /\ \A t \in Threads : t \in Goroutines /\ t # Main
      /\ Goroutines = Threads \cup {Main}
      /\ \A t \in Goroutines : call[t] \in Calls
      /\ DOMAIN call = Goroutines
  BY PolicyAssumption DEF TypeOK, Goroutines
<1>1. ASSUME NEW f \in Files, Change(f)
      PROVE  StartInv'
  BY <1>0, <1>1 DEF Change, startVars, lockVars
<1>2. ASSUME NEW t \in Goroutines, ReadDir(t)
      PROVE  StartInv'
  <2>1. /\ call'[t].op = call[t].op
        /\ \A u \in Goroutines \ {t} : call'[u] = call[u]
    BY <1>2, ReadDirCall
  <2>2. t = Main => phase = "starting"
    BY <1>2 DEF ReadDir, StageInv, TypeOK
  <2>3. UNCHANGED <<source, phase, validated, evaluator>>
    BY <1>2 DEF ReadDir, startVars
  <2> QED
    BY <1>0, <2>1, <2>2, <2>3
<1>3. ASSUME NEW t \in Goroutines, ReadFile(t)
      PROVE  StartInv'
  BY <1>0, <1>3 DEF ReadFile, startVars, lockVars, StageInv, Calls
<1>4. CASE ValidatePolicy
  BY <1>0, <1>4 DEF ValidatePolicy, Loaded, lockVars, Begun
<1>5. CASE ValidationFails
  BY <1>0, <1>5 DEF ValidationFails, LoadFails, Unreadable, DoesNotCompile, lockVars, Over, Begun
<1>6. CASE NewPolicyEvaluator
  BY <1>0, <1>6 DEF NewPolicyEvaluator, Loaded, lockVars, Over, Begun
<1>7. CASE FallBack
  BY <1>0, <1>7 DEF FallBack, LoadFails, Unreadable, DoesNotCompile, lockVars, StageInv, Calls
<1>8. ASSUME NEW t \in Threads, Evaluate(t)
      PROVE  StartInv'
  BY <1>0, <1>8 DEF Evaluate, startVars, lockVars, Begun
<1>9. ASSUME NEW t \in Threads, Reload(t)
      PROVE  StartInv'
  BY <1>0, <1>9 DEF Reload, startVars, lockVars, Begun
<1>10. ASSUME NEW t \in Threads, RLock(t)
       PROVE  StartInv'
  BY <1>0, <1>10 DEF RLock, startVars
<1>11. ASSUME NEW t \in Threads, Decide(t)
       PROVE  StartInv'
  BY <1>0, <1>11 DEF Decide, startVars
<1>12. ASSUME NEW t \in Threads, Lock(t)
       PROVE  StartInv'
  BY <1>0, <1>12 DEF Lock, startVars
<1>13. ASSUME NEW t \in Threads, Install(t)
       PROVE  StartInv'
  BY <1>0, <1>13 DEF Install, Loaded, startVars
<1>14. ASSUME NEW t \in Threads, ReloadFails(t)
       PROVE  StartInv'
  BY <1>0, <1>14 DEF ReloadFails, LoadFails, Unreadable, DoesNotCompile, startVars
<1>15. CASE UNCHANGED vars
  BY <1>15 DEF vars, startVars, lockVars
<1> QED
  BY <1>1, <1>2, <1>3, <1>4, <1>5, <1>6, <1>7, <1>8, <1>9, <1>10, <1>11, <1>12, <1>13,
     <1>14, <1>15, <1>0
  DEF Next, StartUp, Continue, Load

-----------------------------------------------------------------------------
(* Theorems *)

PolicyInv ==
    /\ TypeOK /\ StageInv /\ LockInv /\ DataInv /\ AnswersInv /\ StartInv

LEMMA PolicyInvInit == Init => PolicyInv
<1> SUFFICES ASSUME Init PROVE PolicyInv
  OBVIOUS
<1>1. TypeOK /\ StageInv /\ LockInv /\ DataInv
  BY TypeInit, StageInit, DataInit
<1>2. AnswersInv
  BY <1>1 DEF Init, Over, Begun, Goroutines, AnswersInv, StageInv, DecisionsNotOlder,
              ReloadTakesEffect, OnlyCompiledPolicies
<1>3. StartInv
  <2>1. call[Main].op = "validate"
    BY DEF Init, Begun, Goroutines
  <2> QED
    BY <2>1 DEF Init, StartInv, FallbackOnlyIfChanged
<1> QED
  BY <1>1, <1>2, <1>3 DEF PolicyInv

LEMMA PolicyInvStep == PolicyInv /\ [Next]_vars => PolicyInv'
  BY TypeStep, StageStep, DataStep, AnswersStep, StartStep DEF PolicyInv

LEMMA PolicyInvAlways == Spec => []PolicyInv
  BY PolicyInvInit, PolicyInvStep, PTL DEF Spec

\* Evaluate, Reload and the two loads of the start-up keep the types of pe's fields,
\* and the readers of pe.mu are the goroutines that evaluate.
THEOREM TypeCorrect == Spec => []TypeOK
<1>1. PolicyInv => TypeOK
  BY DEF PolicyInv
<1> QED
  BY <1>1, PolicyInvAlways, PTL

\* Reload holds pe.mu from before the first file is read until the query is replaced
\* (policy.go:190), so the queries of overlapping Reloads never go back, and Evaluate
\* (policy.go:135) never decides by one that is older than its call.
THEOREM DecisionsTheorem == Spec => []DecisionsNotOlder
<1>1. PolicyInv => DecisionsNotOlder
  BY DEF PolicyInv, AnswersInv
<1> QED
  BY <1>1, PolicyInvAlways, PTL

\* A Reload without an error (policy.go:222) has read every file after it was called,
\* and no later Reload undoes it.
THEOREM ReloadTheorem == Spec => []ReloadTakesEffect
<1>1. PolicyInv => ReloadTakesEffect
  BY DEF PolicyInv, AnswersInv
<1> QED
  BY <1>1, PolicyInvAlways, PTL

\* The query is replaced only after every error return of Reload (policy.go:211, 219),
\* so whatever the files become, what Evaluate decides by compiles.
THEOREM CompiledTheorem == Spec => []OnlyCompiledPolicies
<1>1. PolicyInv => OnlyCompiledPolicies
  BY DEF PolicyInv, AnswersInv
<1> QED
  BY <1>1, PolicyInvAlways, PTL

\* A program that went on without its policy (vaultfs.go:154) could not read a file
\* the second time, or read another version of one than it had validated.
THEOREM FallbackTheorem == Spec => []FallbackOnlyIfChanged
<1>1. PolicyInv => FallbackOnlyIfChanged
  BY DEF PolicyInv, StartInv
<1> QED
  BY <1>1, PolicyInvAlways, PTL
=============================================================================
