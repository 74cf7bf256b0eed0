--------------------------- MODULE VaultFSProofs ---------------------------
(***************************************************************************)
(* Proofs about VaultFS, for any number of processes, paths, versions and  *)
(* changes of the access decision, and every size of a file and of a Read. *)
(***************************************************************************)
EXTENDS VaultFS, TLAPS, FiniteSetTheorems, SequenceTheorems, WellFoundedInduction

Requests ==
    [pc : {"idle", "check", "allowed", "sized", "inject", "replied"}, op : Ops, path : Paths,
     text : Seq(Pieces), done : Nat, code : Codes, count : Nat,
     audit : Seq({"SUCCESS", "DENIED"})]

Cats ==
    [state : {"none", "stat", "open", "eof"}, path : Paths, size : Nat, text : Seq(Pieces),
     undisturbed : BOOLEAN]

\* TypeOK, and the domains of the functions.
TypeInv ==
    /\ vault \in [VaultPaths -> [kind : {"file", "dir", "absent"}, ver : Versions]]
    /\ disk \in [MappedPaths -> [kind : {"file", "dir", "absent"}, ver : Versions]]
    /\ allowed \subseteq Procs
    /\ decisions \in 0 .. MaxDecisions
    /\ req \in [Procs -> Requests]
    /\ cat \in [Procs -> Cats]
    /\ late \in [Procs -> Nat]

\* A handler works on the path that its process reads, in the order of cat.
StateFor(op) == CASE op = "OPEN" -> "stat" [] op = "READ" -> "open" [] OTHER -> "none"

InOrder(r, c) ==
    /\ r.pc \in {"check", "allowed", "sized", "inject"} =>
          r.path = c.path /\ c.state = StateFor(r.op)
    /\ r.pc = "inject" => r.path \in InjectedPaths /\ r.op \in {"GETATTR", "READ"}
    /\ r.pc = "sized" => r.path \in InjectedPaths /\ r.op = "GETATTR"

\* The records so far: only Readdir writes one before its answer is known.
Recorded(r) ==
    /\ r.pc \in {"idle", "check", "sized", "inject"} => r.audit = <<>>
    /\ r.pc = "allowed" => r.audit = IF r.op = "READDIR" THEN <<"SUCCESS">> ELSE <<>>
    /\ r.pc = "replied" => r.code # "none"
    /\ r.pc = "replied" =>
          CASE r.code = "EACCES" -> r.audit = <<"DENIED">>
            [] r.code = "OK" -> r.audit = <<"SUCCESS">>
            [] r.code \in {"ENOENT", "EIO"} ->
                 r.audit = IF r.op = "READDIR" THEN <<"SUCCESS">> ELSE <<>>

\* A process that has had its late request has none whose check has passed.
NotAgain(n, r, isAllowed) ==
    /\ n <= 1
    /\ n = 1 => ~isAllowed /\ r.pc \notin {"allowed", "sized", "inject"}

\* What has been read of a secret that fits into one Read ...
SecretRead(c) ==
    c.path \in VaultPaths /\ FitsOneRead =>
        /\ c.state # "eof" => c.text = <<>>
        /\ c.state \in {"stat", "open"} => c.size = Placeholder
        /\ c.state = "eof" => Whole(c.path, c.text)

\* ... and of a file that nobody has changed: its first pieces, at the end all of them.
FileRead(c, files) ==
    c.path \in FilePaths /\ c.undisturbed /\ c.state # "none" =>
        /\ Len(c.text) <= FileLength
        /\ \A i \in 1 .. Len(c.text) : c.text[i] = Piece("file", files[c.path].ver, i)
        /\ c.state # "eof" => c.size = FileLength
        /\ c.state = "eof" => Len(c.text) = FileLength

CatInv(c, files) ==
    /\ c.state \in {"stat", "open"} => Len(c.text) <= c.size
    /\ c.state \in {"none", "stat"} => c.text = <<>>
    /\ SecretRead(c)
    /\ FileRead(c, files)

ProcInv(p, r, c, n) ==
    /\ InOrder(r, c)
    /\ Recorded(r)
    /\ NotAgain(n, r, p \in allowed)
    /\ CatInv(c, disk)

IInv == TypeInv /\ \A p \in Procs : ProcInv(p, req[p], cat[p], late[p])

-----------------------------------------------------------------------------
(* Sequences *)

\* Induction over the natural numbers, for a set in place of a predicate.
LEMMA Induction ==
  ASSUME NEW S, 0 \in S, \A n \in S \cap Nat : n + 1 \in S
  PROVE  Nat \subseteq S
<1> DEFINE Less == OpToRel(<, Nat)
           T == Nat \ S
<1> SUFFICES ASSUME T # {} PROVE FALSE
  OBVIOUS
<1>1. IsWellFoundedOn(Less, Nat)
  BY NatLessThanWellFounded
<1>2. PICK least \in T : \A m \in T : <<m, least>> \notin Less
  BY <1>1, WFMin, T \subseteq Nat
<1>3. \A m, n \in Nat : <<m, n>> \in Less <=> m < n
  BY DEF OpToRel
<1> HIDE DEF Less
<1>4. least \in Nat /\ least # 0
  OBVIOUS
<1>5. least - 1 \in Nat /\ least - 1 < least
  BY <1>4
<1>6. least - 1 \in S
  BY <1>2, <1>3, <1>4, <1>5
<1>7. (least - 1) + 1 \in S
  BY <1>5, <1>6
<1> QED
  BY <1>4, <1>7

\* FlattenSeq of sequences is a sequence.
LEMMA FlattenType ==
  ASSUME NEW S, NEW s \in Seq(Seq(S))
  PROVE  FlattenSeq(s) \in Seq(S)
<1> DEFINE N == Len(s)
           From(f, i) == IF i = 1 THEN s[i] ELSE f[i - 1] \o s[i]
           Chain(f, n) == f \in [1 .. n -> Seq(S)] /\ \A i \in 1 .. n : f[i] = From(f, i)
           Good == {n \in Nat : n <= N => \E f : Chain(f, n)}
<1>1. N \in Nat /\ \A i \in 1 .. N : s[i] \in Seq(S)
  BY LenProperties, ElementOfSeq
<1>2. CASE N = 0
  <2>1. s = << >>
    BY <1>2, EmptySeq
  <2>2. FlattenSeq(s) = s
    BY <1>2 DEF FlattenSeq
  <2> QED
    BY <2>1, <2>2, EmptySeq
<1>3. CASE N # 0
  <2>1. Chain([i \in 1 .. 0 |-> s[i]], 0)
    OBVIOUS
  <2>2. ASSUME NEW n \in Nat, NEW f, Chain(f, n), n + 1 <= N PROVE \E g : Chain(g, n + 1)
    <3>1. From(f, n + 1) \in Seq(S)
      <4>1. CASE n = 0
        BY <1>1, <2>2, <4>1
      <4>2. CASE n # 0
        <5>1. f[n] \in Seq(S) /\ s[n + 1] \in Seq(S)
          BY <1>1, <2>2, <4>2
        <5> QED
          BY <5>1, <4>2, ConcatProperties
      <4> QED
        BY <4>1, <4>2
    <3> DEFINE g == [i \in 1 .. n + 1 |-> IF i <= n THEN f[i] ELSE From(f, n + 1)]
    <3>2. g \in [1 .. n + 1 -> Seq(S)]
      BY <2>2, <3>1
    <3>3. ASSUME NEW i \in 1 .. n + 1 PROVE g[i] = From(g, i)
      <4>1. From(g, i) = From(f, i)
        <5>1. CASE i = 1
          BY <5>1
        <5>2. CASE i # 1
          <6>1. i - 1 \in 1 .. n /\ i - 1 \in 1 .. n + 1 /\ i - 1 <= n
            BY <5>2
          <6> QED
            BY <5>2, <6>1
        <5> QED
          BY <5>1, <5>2
      <4>2. CASE i <= n
        <5>1. i \in 1 .. n /\ g[i] = f[i]
          BY <4>2
        <5> HIDE DEF g, From
        <5> QED
          BY <2>2, <4>1, <5>1
      <4>3. CASE i = n + 1
        BY <4>1, <4>3
      <4> QED
        BY <4>2, <4>3
    <3> HIDE DEF g, From
    <3>4. Chain(g, n + 1)
      BY <3>2, <3>3
    <3> QED
      BY <3>4
  <2>3. PICK chain : Chain(chain, N)
    <3> HIDE DEF Chain
    <3>1. 0 \in Good
      BY <2>1
    <3>2. \A n \in Good \cap Nat : n + 1 \in Good
      BY <1>1, <2>2
    <3> HIDE DEF Good
    <3>3. N \in Good
      BY <1>1, <3>1, <3>2, Induction
    <3> USE DEF Good
    <3> QED
      BY <1>1, <3>3
  <2> DEFINE flat == CHOOSE f : f = [i \in 1 .. N |-> From(f, i)]
  <2>4. chain = [i \in 1 .. N |-> From(chain, i)]
    <3> HIDE DEF From
    <3> QED
      BY <2>3
  <2>5. flat = [i \in 1 .. N |-> From(flat, i)]
    BY <2>4
  <2>6. FlattenSeq(s) = flat[N]
    BY <1>3 DEF FlattenSeq
  <2> HIDE DEF flat
  <2> DEFINE Typed == {n \in Nat : n + 1 \in 1 .. N => flat[n + 1] \in Seq(S)}
  <2>7. 0 \in Typed
    BY <1>1, <2>5
  <2>8. ASSUME NEW n \in Typed PROVE n + 1 \in Typed
    <3> SUFFICES ASSUME n + 2 \in 1 .. N PROVE flat[n + 2] \in Seq(S)
      OBVIOUS
    <3>1. n + 2 \in 1 .. N /\ n + 2 # 1 /\ (n + 2) - 1 = n + 1 /\ n + 1 \in 1 .. N
      BY <1>1
    <3>2. flat[n + 2] = From(flat, n + 2)
      BY <2>5, <3>1
    <3>3. flat[n + 2] = flat[n + 1] \o s[n + 2]
      BY <3>1, <3>2
    <3>4. flat[n + 1] \in Seq(S) /\ s[n + 2] \in Seq(S)
      BY <1>1, <2>8, <3>1
    <3> QED
      BY <3>3, <3>4, ConcatProperties
  <2>9. N - 1 \in Typed
    <3> HIDE DEF Typed
    <3>1. Nat \subseteq Typed
      BY <2>7, <2>8, Induction
    <3> QED
      BY <1>1, <1>3, <3>1
  <2> QED
    BY <1>1, <1>3, <2>6, <2>9
<1> QED
  BY <1>2, <1>3

-----------------------------------------------------------------------------
(* Contents *)

\* What Read formats, in whatever order, is as long as the secret has fields.
LEMMA FormattedType ==
  ASSUME NEW v \in Versions, NEW order \in FieldOrders(v)
  PROVE  /\ Formatted(v, order) \in Seq(Pieces)
         /\ Len(Formatted(v, order)) = FieldCount[v]
<1>1. FieldCount[v] \in Nat
  BY ConstantsAssumption
<1>2. Cardinality(1 .. FieldCount[v]) = FieldCount[v]
  BY <1>1, FS_Interval
<1>3. order \in [1 .. FieldCount[v] -> 1 .. FieldCount[v]]
  BY <1>2 DEF FieldOrders, SetToSeqs
<1>4. Len(order) = FieldCount[v]
  BY <1>1, <1>3
<1>5. \A i \in 1 .. FieldCount[v] : Piece("secret", v, order[i]) \in Pieces
  BY <1>1, <1>3 DEF Piece, Pieces
<1> QED
  BY <1>1, <1>4, <1>5 DEF Formatted

LEMMA RawTextType ==
  ASSUME NEW path \in MappedPaths, NEW v \in Versions
  PROVE  /\ RawText(path, v) \in Seq(Pieces)
         /\ path \in FilePaths =>
               /\ Len(RawText(path, v)) = FileLength
               /\ \A i \in 1 .. FileLength : RawText(path, v)[i] = Piece("file", v, i)
<1> DEFINE n == IF path \in InjectedPaths THEN Len(Injections[path]) ELSE FileLength
<1>1. n \in Nat
  BY ConstantsAssumption
<1> DEFINE part(i) == IF path \in InjectedPaths /\ i \notin InText[v] THEN 0 ELSE i
<1>2. \A i \in 1 .. n : Piece("file", v, part(i)) \in Pieces
  BY <1>1 DEF Piece, Pieces
<1>3. path \in FilePaths => n = FileLength /\ \A i \in 1 .. n : part(i) = i
  BY ConstantsAssumption
<1>4. RawText(path, v) = [i \in 1 .. n |-> Piece("file", v, part(i))]
  BY DEF RawText
<1> HIDE DEF n, part
<1> QED
  BY <1>1, <1>2, <1>3, <1>4

LEMMA InjectType ==
  ASSUME NEW text \in Seq(Pieces), NEW i \in Nat, NEW v \in Versions
  PROVE  Inject(text, i, v) \in Seq(Pieces)
<1> DEFINE fields == [k \in 1 .. FieldCount[v] |-> k]
           value == Formatted(v, fields)
           parts == [j \in 1 .. Len(text) |->
                       IF IsPlaceholder(text[j], i) THEN value ELSE <<text[j]>>]
<1>1. FieldCount[v] \in Nat /\ Cardinality(1 .. FieldCount[v]) = FieldCount[v]
  BY ConstantsAssumption, FS_Interval
<1>2. fields \in FieldOrders(v)
  BY <1>1 DEF FieldOrders, SetToSeqs
<1>3. value \in Seq(Pieces)
  BY <1>2, FormattedType
<1>4. \A j \in 1 .. Len(text) : <<text[j]>> \in Seq(Pieces)
  OBVIOUS
<1> HIDE DEF value
<1>5. parts \in Seq(Seq(Pieces))
  BY <1>3, <1>4
<1> USE DEF value
<1>6. Inject(text, i, v) = FlattenSeq(parts)
  BY DEF Inject
<1> HIDE DEF parts
<1> QED
  BY <1>5, <1>6, FlattenType

-----------------------------------------------------------------------------
(* Steps of one process *)

LEMMA Placed ==
  ASSUME IInv, NEW p \in Procs
  PROVE  /\ req[p] \in Requests /\ cat[p] \in Cats /\ late[p] \in Nat
         /\ ProcInv(p, req[p], cat[p], late[p])
         /\ disk \in [MappedPaths -> [kind : {"file", "dir", "absent"}, ver : Versions]]
  BY DEF IInv, TypeInv

\* What a step makes of the request and the file of its process decides.
LEMMA OneProcess ==
  ASSUME IInv, NEW p \in Procs, NEW r \in Requests, NEW c \in Cats, NEW n \in Nat,
         ProcInv(p, r, c, n), req' = [req EXCEPT ![p] = r], cat' = [cat EXCEPT ![p] = c],
         late' = [late EXCEPT ![p] = n], UNCHANGED Outside
  PROVE  IInv'
<1>1. TypeInv'
  BY DEF IInv, TypeInv, Outside
<1>2. ASSUME NEW q \in Procs PROVE ProcInv(q, req[q], cat[q], late[q])'
  <2>1. CASE q = p
    <3>1. req'[q] = r /\ cat'[q] = c /\ late'[q] = n /\ allowed' = allowed /\ disk' = disk
      BY <2>1 DEF IInv, TypeInv, Outside
    <3> QED
      BY <2>1, <3>1 DEF ProcInv
  <2>2. CASE q # p
    <3>1. /\ req'[q] = req[q] /\ cat'[q] = cat[q] /\ late'[q] = late[q]
          /\ allowed' = allowed /\ disk' = disk
      BY <2>2 DEF IInv, TypeInv, Outside
    <3>2. ProcInv(q, req[q], cat[q], late[q])
      BY DEF IInv
    <3> QED
      BY <3>1, <3>2 DEF ProcInv
  <2> QED
    BY <2>1, <2>2
<1> QED
  BY <1>1, <1>2 DEF IInv

\* A process gives up, begins anew or goes on to its next request with nothing read.
LEMMA EmptyCat ==
  ASSUME NEW path \in Paths
  PROVE  NoCat(path) \in Cats /\ CatInv(NoCat(path), disk) /\ NoCat(path).state = "none"
<1>1. <<>> \in Seq(Pieces)
  BY EmptySeq
<1> QED
  BY <1>1 DEF NoCat, Cats, CatInv, SecretRead, FileRead

\* A handler writes one record, and grants its request only if the check had passed.
LEMMA ReplyInv ==
  ASSUME IInv, NEW p \in Procs, NEW c \in Cats, CatInv(c, disk),
         NEW code \in Codes \ {"none"}, NEW audit,
         Reply(p, code, audit), cat' = [cat EXCEPT ![p] = c], UNCHANGED Outside,
         \/ /\ req[p].pc = "check" /\ code = "EACCES" /\ audit = <<"DENIED">>
         \/ /\ req[p].pc \in {"allowed", "sized", "inject"} /\ code \in {"OK", "ENOENT", "EIO"}
            /\ audit = IF code = "OK" /\ req[p].op # "READDIR" THEN <<"SUCCESS">> ELSE <<>>
            /\ req[p].op = "READDIR" => req[p].pc = "allowed"
  PROVE  IInv'
<1> DEFINE r == [req[p] EXCEPT !.pc = "replied", !.code = code,
                               !.audit = @ \o audit, !.text = <<>>]
           n == IF code = "OK" /\ p \notin allowed THEN late[p] + 1 ELSE late[p]
<1>1. req[p] \in Requests /\ late[p] \in Nat /\ ProcInv(p, req[p], cat[p], late[p])
  BY Placed
<1>2. req' = [req EXCEPT ![p] = r] /\ late' = [late EXCEPT ![p] = n]
  <2>1. req' = [req EXCEPT ![p] = r]
    BY DEF Reply
  <2>2. late' = [late EXCEPT ![p] = n]
    BY DEF Reply
  <2> QED
    BY <2>1, <2>2
<1> DEFINE Words == {"SUCCESS", "DENIED"}
<1>3. audit \in Seq(Words) /\ req[p].audit \in Seq(Words) /\ <<>> \in Seq(Pieces)
  <2>1. <<"SUCCESS">> \in Seq(Words) /\ <<"DENIED">> \in Seq(Words) /\ <<>> \in Seq(Words)
    OBVIOUS
  <2>2. audit \in {<<>>, <<"SUCCESS">>, <<"DENIED">>}
    OBVIOUS
  <2> QED
    BY <1>1, <2>1, <2>2, EmptySeq DEF Requests
<1>4. /\ req[p].audit \o audit \in Seq(Words)
      /\ req[p].audit = <<>> => req[p].audit \o audit = audit
      /\ audit = <<>> => req[p].audit \o audit = req[p].audit
  BY <1>3, ConcatProperties, ConcatEmptySeq
<1>5. PICK record : record = req[p].audit \o audit
  OBVIOUS
<1>6. r \in Requests
  BY <1>1, <1>3, <1>4, <1>5 DEF Requests
<1>7. /\ r.pc = "replied" /\ r.code = code /\ r.op = req[p].op
      /\ r.audit = req[p].audit \o audit
  BY <1>1 DEF Requests
<1>8. Recorded(r)
  <2>1. CASE req[p].pc = "check" /\ code = "EACCES" /\ audit = <<"DENIED">>
    BY <1>1, <1>4, <1>7, <2>1 DEF ProcInv, Recorded
  <2>2. CASE /\ req[p].pc \in {"allowed", "sized", "inject"} /\ code \in {"OK", "ENOENT", "EIO"}
             /\ audit = IF code = "OK" /\ req[p].op # "READDIR" THEN <<"SUCCESS">> ELSE <<>>
             /\ req[p].op = "READDIR" => req[p].pc = "allowed"
    <3>1. req[p].audit = IF req[p].op = "READDIR" THEN <<"SUCCESS">> ELSE <<>>
      BY <1>1, <2>2 DEF ProcInv, Recorded
    <3> QED
      BY <1>4, <1>7, <2>2, <3>1 DEF Recorded
  <2> QED
    BY <2>1, <2>2
<1>9. n \in Nat /\ NotAgain(n, r, p \in allowed)
  <2>1. NotAgain(late[p], req[p], p \in allowed)
    BY <1>1 DEF ProcInv
  <2>2. code = "OK" => req[p].pc \in {"allowed", "sized", "inject"}
    OBVIOUS
  <2> HIDE DEF r
  <2> QED
    BY <1>1, <1>7, <2>1, <2>2 DEF NotAgain
<1>10. InOrder(r, c)
  BY <1>7 DEF InOrder
<1> HIDE DEF r, n
<1> QED
  BY <1>2, <1>6, <1>8, <1>9, <1>10, OneProcess DEF ProcInv

\* A Read hands out what is left of the content, but no more than was asked for.
LEMMA CopiedBounds ==
  ASSUME NEW content \in Seq(Pieces), NEW ofst \in Nat, NEW want \in Nat
  PROVE  LET n == Copied(content, ofst, want)
         IN  /\ n \in 0 .. want
             /\ n # 0 => ofst + n <= Len(content)
             /\ n < want => ofst + n = Len(content) \/ ofst >= Len(content)
  BY DEF Copied

\* The process has one Read more, and a secret or a file in full if the Read was short.
LEMMA DeliverInv ==
  ASSUME IInv, NEW p \in Procs, req[p].pc \in {"allowed", "sized", "inject"}, req[p].op = "READ",
         NEW content \in Seq(Pieces), Deliver(p, content), UNCHANGED Outside,
         cat[p].path \in VaultPaths =>
            \E v \in Versions : \E order \in FieldOrders(v) : content = Formatted(v, order),
         cat[p].path \in FilePaths => content = RawText(cat[p].path, disk[cat[p].path].ver)
  PROVE  IInv'
<1> DEFINE old == cat[p]
           ofst == Len(old.text)
           want == IF old.size - ofst < Buffer THEN old.size - ofst ELSE Buffer
           n == Copied(content, ofst, want)
           more == SubSeq(content, ofst + 1, ofst + n)
           text == old.text \o more
           state == IF n < Buffer \/ ofst + n = old.size THEN "eof" ELSE "open"
           r == [req[p] EXCEPT !.pc = "replied", !.code = "OK", !.count = n,
                               !.audit = <<"SUCCESS">>, !.text = <<>>]
           c == [cat[p] EXCEPT !.text = text, !.state = state]
           k == IF p \notin allowed THEN late[p] + 1 ELSE late[p]
<1>1. /\ req[p] \in Requests /\ old \in Cats /\ late[p] \in Nat
      /\ ProcInv(p, req[p], old, late[p])
      /\ disk \in [MappedPaths -> [kind : {"file", "dir", "absent"}, ver : Versions]]
  BY Placed
<1>2. /\ req' = [req EXCEPT ![p] = r] /\ cat' = [cat EXCEPT ![p] = c]
      /\ late' = [late EXCEPT ![p] = k]
  <2>1. req' = [req EXCEPT ![p] = r]
    BY DEF Deliver
  <2>2. cat' = [cat EXCEPT ![p] = c]
    BY DEF Deliver
  <2>3. late' = [late EXCEPT ![p] = k]
    BY DEF Deliver
  <2> QED
    BY <2>1, <2>2, <2>3
<1>3. old.state = "open" /\ old.path \in Paths /\ CatInv(old, disk) /\ old.text \in Seq(Pieces)
  BY <1>1 DEF ProcInv, InOrder, StateFor, Cats
<1>4. old.size \in Nat /\ ofst \in Nat /\ ofst <= old.size /\ Buffer \in Nat \ {0}
  BY <1>1, <1>3, ConstantsAssumption DEF CatInv, Cats
<1>5. want \in Nat /\ want <= Buffer /\ ofst + want <= old.size
  BY <1>4
<1>6. /\ n \in 0 .. want
      /\ n # 0 => ofst + n <= Len(content)
      /\ n < want => ofst + n = Len(content) \/ ofst >= Len(content)
  BY <1>4, <1>5, CopiedBounds
<1>0. ofst = Len(old.text) /\ Len(content) \in Nat /\ n \in Nat
  BY <1>5, <1>6
<1> HIDE DEF want, n, ofst
<1>7. /\ more \in Seq(Pieces) /\ Len(more) = n
      /\ \A i \in 1 .. n : more[i] = content[ofst + i]
  <2>1. \A i \in ofst + 1 .. ofst + n : content[i] \in Pieces
    BY <1>0, <1>4, <1>5, <1>6
  <2> QED
    BY <1>0, <1>4, <1>5, <1>6, <2>1, SubSeqProperties
<1> HIDE DEF more
<1>8. /\ text \in Seq(Pieces) /\ Len(text) = ofst + n
      /\ \A i \in 1 .. ofst + n :
            text[i] = IF i <= ofst THEN old.text[i] ELSE content[i]
  <2>1. /\ text \in Seq(Pieces) /\ Len(text) = Len(old.text) + Len(more)
        /\ \A i \in 1 .. Len(old.text) + Len(more) :
              text[i] = IF i <= Len(old.text) THEN old.text[i] ELSE more[i - Len(old.text)]
    <3> HIDE DEF old
    <3> QED
      BY <1>3, <1>7, ConcatProperties
  <2>2. ASSUME NEW i \in 1 .. ofst + n, ~(i <= ofst) PROVE more[i - ofst] = content[i]
    <3>1. i \in Nat /\ i <= ofst + n
      BY <1>0, <1>4
    <3>2. i - ofst \in 1 .. n /\ ofst + (i - ofst) = i
      BY <1>0, <1>4, <2>2, <3>1
    <3> QED
      BY <1>7, <3>2
  <2>3. Len(old.text) = ofst /\ Len(more) = n
    BY <1>0, <1>7
  <2> QED
    BY <2>1, <2>2, <2>3
<1> HIDE DEF text
<1>9. c \in Cats /\ c.path = old.path /\ c.size = old.size /\ c.text = text /\ c.state = state
      /\ c.undisturbed = old.undisturbed
  BY <1>1, <1>8 DEF Cats
<1>10. r \in Requests /\ r.pc = "replied" /\ r.code = "OK" /\ r.audit = <<"SUCCESS">>
  <2>1. <<"SUCCESS">> \in Seq({"SUCCESS", "DENIED"}) /\ <<>> \in Seq(Pieces) /\ n \in Nat
    BY <1>0, EmptySeq
  <2> QED
    BY <1>1, <2>1 DEF Requests, Codes
<1> HIDE DEF r
<1>11. k \in Nat /\ NotAgain(k, r, p \in allowed)
  BY <1>1, <1>10 DEF ProcInv, NotAgain
<1>12. InOrder(r, c) /\ Recorded(r)
  BY <1>10 DEF InOrder, Recorded
<1>13. SecretRead(c)
  <2> SUFFICES ASSUME old.path \in VaultPaths, FitsOneRead
               PROVE  state = "eof" /\ Whole(old.path, text)
    BY <1>9 DEF SecretRead
  <2>1. PICK v \in Versions : \E order \in FieldOrders(v) : content = Formatted(v, order)
    OBVIOUS
  <2>2. Len(content) < Buffer /\ Len(content) < Placeholder /\ Len(content) \in Nat
    BY <2>1, FormattedType, ConstantsAssumption DEF FitsOneRead
  <2>3. old.text = <<>> /\ ofst = 0 /\ old.size = Placeholder
    BY <1>0, <1>3 DEF CatInv, SecretRead
  <2>4. n = Len(content) /\ state = "eof"
    BY <1>0, <1>4, <1>5, <1>6, <2>2, <2>3, ConstantsAssumption DEF want
  <2>5. text = content
    BY <1>8, <2>3, <2>4, SeqEqual
  <2> QED
    BY <2>1, <2>4, <2>5 DEF Whole
<1>14. FileRead(c, disk)
  <2> SUFFICES ASSUME old.path \in FilePaths, old.undisturbed
               PROVE  /\ Len(text) <= FileLength
                      /\ \A i \in 1 .. Len(text) : text[i] = Piece("file", disk[old.path].ver, i)
                      /\ state # "eof" => old.size = FileLength
                      /\ state = "eof" => Len(text) = FileLength
    BY <1>9 DEF FileRead
  <2>1. old.path \in MappedPaths /\ disk[old.path].ver \in Versions /\ FileLength \in Nat
    BY <1>1, ConstantsAssumption DEF MappedPaths
  <2>2. /\ Len(content) = FileLength
        /\ \A i \in 1 .. FileLength : content[i] = Piece("file", disk[old.path].ver, i)
    BY <2>1, RawTextType
  <2>3. /\ ofst <= FileLength /\ old.size = FileLength
        /\ \A i \in 1 .. ofst : old.text[i] = Piece("file", disk[old.path].ver, i)
    BY <1>0, <1>3 DEF CatInv, FileRead
  <2>4. ofst + n <= FileLength /\ n \in Nat
    BY <1>0, <1>4, <1>5, <1>6, <2>2, <2>3
  <2>5. \A i \in 1 .. ofst + n : text[i] = Piece("file", disk[old.path].ver, i)
    BY <1>0, <1>4, <1>8, <2>1, <2>2, <2>3, <2>4
  <2>6. state = "eof" => ofst + n = FileLength
    BY <1>0, <1>4, <1>5, <1>6, <2>1, <2>2, <2>3 DEF want
  <2> QED
    BY <1>8, <2>3, <2>4, <2>5, <2>6
<1>15. CatInv(c, disk)
  BY <1>0, <1>4, <1>5, <1>6, <1>8, <1>9, <1>13, <1>14 DEF CatInv
<1> HIDE DEF c, k
<1> QED
  BY <1>2, <1>9, <1>10, <1>11, <1>12, <1>15, OneProcess DEF ProcInv

-----------------------------------------------------------------------------
(* The environment *)

\* Whatever is changed, a process that may notice it is no longer undisturbed.
LEMMA DisturbInv ==
  ASSUME IInv, NEW files \in [MappedPaths -> [kind : {"file", "dir", "absent"}, ver : Versions]],
         NEW paths, Disturb(paths), \A f \in MappedPaths \ paths : files[f] = disk[f]
  PROVE  /\ cat' \in [Procs -> Cats]
         /\ \A q \in Procs : /\ CatInv(cat'[q], files)
                             /\ cat'[q].path = cat[q].path /\ cat'[q].state = cat[q].state
<1> SUFFICES ASSUME NEW q \in Procs
             PROVE  /\ cat'[q] \in Cats /\ CatInv(cat'[q], files)
                    /\ cat'[q].path = cat[q].path /\ cat'[q].state = cat[q].state
  BY DEF Disturb
<1>1. cat[q] \in Cats /\ CatInv(cat[q], disk)
  BY Placed DEF ProcInv
<1>2. CASE cat[q].path \in paths
  <2>1. cat'[q] = [cat[q] EXCEPT !.undisturbed = FALSE]
    BY <1>2 DEF Disturb
  <2>2. /\ cat'[q] \in Cats /\ cat'[q].undisturbed = FALSE
        /\ cat'[q].path = cat[q].path /\ cat'[q].state = cat[q].state
        /\ cat'[q].text = cat[q].text /\ cat'[q].size = cat[q].size
    BY <1>1, <2>1 DEF Cats
  <2> QED
    BY <1>1, <2>2 DEF CatInv, SecretRead, FileRead
<1>3. CASE cat[q].path \notin paths
  <2>1. cat'[q] = cat[q]
    BY <1>3 DEF Disturb
  <2>2. cat[q].path \in FilePaths => files[cat[q].path] = disk[cat[q].path]
    BY <1>3 DEF MappedPaths
  <2> QED
    BY <1>1, <2>1, <2>2 DEF CatInv, FileRead
<1> QED
  BY <1>2, <1>3

LEMMA EnvironmentInv == ASSUME IInv, Environment PROVE IInv'
<1>1. /\ vault \in [VaultPaths -> [kind : {"file", "dir", "absent"}, ver : Versions]]
      /\ disk \in [MappedPaths -> [kind : {"file", "dir", "absent"}, ver : Versions]]
      /\ allowed \subseteq Procs /\ decisions \in 0 .. MaxDecisions
      /\ req \in [Procs -> Requests] /\ late \in [Procs -> Nat]
      /\ MaxVersion \in Nat \ {0} /\ MaxDecisions \in Nat
  BY ConstantsAssumption DEF IInv, TypeInv
<1>2. ASSUME NEW s \in VaultPaths, SecretChanges(s) PROVE IInv'
  <2>1. /\ UNCHANGED <<disk, allowed, decisions, req, late>>
        /\ vault[s].ver < MaxVersion
    BY <1>2 DEF SecretChanges
  <2>2. PICK paths : Disturb(paths)
    BY <1>2 DEF SecretChanges
  <2>3. PICK kind \in {"file", "dir", "absent"} :
           vault' = [vault EXCEPT ![s] = [kind |-> kind, ver |-> @.ver + 1]]
    BY <1>2 DEF SecretChanges
  <2>4. vault[s].ver + 1 \in Versions
    BY <1>1, <2>1 DEF Versions
  <2>5. vault' \in [VaultPaths -> [kind : {"file", "dir", "absent"}, ver : Versions]]
    BY <1>1, <2>3, <2>4
  <2>6. /\ cat' \in [Procs -> Cats]
        /\ \A q \in Procs : /\ CatInv(cat'[q], disk)
                            /\ cat'[q].path = cat[q].path /\ cat'[q].state = cat[q].state
    BY <1>1, <2>2, DisturbInv
  <2> QED
    BY <1>1, <2>1, <2>5, <2>6 DEF IInv, TypeInv, ProcInv, InOrder
<1>3. ASSUME NEW f \in MappedPaths, FileChanges(f) PROVE IInv'
  <2>1. /\ UNCHANGED <<vault, allowed, decisions, req, late>> /\ Disturb({f})
        /\ disk[f].ver < MaxVersion
    BY <1>3 DEF FileChanges
  <2>2. PICK kind \in {"file", "dir", "absent"} :
           disk' = [disk EXCEPT ![f] = [kind |-> kind, ver |-> @.ver + 1]]
    BY <1>3 DEF FileChanges
  <2>3. disk[f].ver + 1 \in Versions
    BY <1>1, <2>1 DEF Versions
  <2>4. /\ disk' \in [MappedPaths -> [kind : {"file", "dir", "absent"}, ver : Versions]]
        /\ \A g \in MappedPaths \ {f} : disk'[g] = disk[g]
    BY <1>1, <2>2, <2>3
  <2>5. /\ cat' \in [Procs -> Cats]
        /\ \A q \in Procs : /\ CatInv(cat'[q], disk')
                            /\ cat'[q].path = cat[q].path /\ cat'[q].state = cat[q].state
    BY <2>1, <2>4, DisturbInv
  <2> QED
    BY <1>1, <2>1, <2>4, <2>5 DEF IInv, TypeInv, ProcInv, InOrder
<1>4. ASSUME NEW p \in Procs, DecisionChanges(p) PROVE IInv'
  <2>1. /\ UNCHANGED <<vault, disk, req, cat>>
        /\ decisions' \in 0 .. MaxDecisions /\ allowed' \subseteq Procs
        /\ late' = [late EXCEPT ![p] = 0]
        /\ \A q \in Procs \ {p} : q \in allowed' <=> q \in allowed
    BY <1>1, <1>4 DEF DecisionChanges
  <2>2. late' \in [Procs -> Nat] /\ late'[p] = 0 /\ \A q \in Procs \ {p} : late'[q] = late[q]
    BY <1>1, <2>1
  <2>3. TypeInv'
    BY <2>1, <2>2 DEF IInv, TypeInv
  <2>4. ASSUME NEW q \in Procs PROVE ProcInv(q, req[q], cat[q], late[q])'
    <3>1. ProcInv(q, req[q], cat[q], late[q])
      BY DEF IInv
    <3>2. NotAgain(late'[q], req[q], q \in allowed')
      BY <2>1, <2>2, <3>1 DEF ProcInv, NotAgain
    <3> QED
      BY <2>1, <3>1, <3>2 DEF ProcInv
  <2> QED
    BY <2>3, <2>4 DEF IInv
<1> QED
  BY <1>2, <1>3, <1>4 DEF Environment

-----------------------------------------------------------------------------
(* Requests *)

LEMMA ArriveInv ==
  ASSUME IInv, NEW p \in Procs, NEW op \in Ops, NEW path \in Paths, Free(p), Arrive(p, op, path),
         NEW c \in Cats, CatInv(c, disk), c.path = path, c.state = StateFor(op),
         cat' = [cat EXCEPT ![p] = c], UNCHANGED <<vault, disk, allowed, decisions, late>>
  PROVE  IInv'
<1> DEFINE r == [pc |-> "check", op |-> op, path |-> path, text |-> <<>>,
                 done |-> 0, code |-> "none", count |-> 0, audit |-> <<>>]
<1>1. late[p] \in Nat /\ NotAgain(late[p], req[p], p \in allowed)
  BY Placed DEF ProcInv
<1>2. r \in Requests
  BY EmptySeq DEF Requests, Codes
<1>3. InOrder(r, c) /\ Recorded(r) /\ NotAgain(late[p], r, p \in allowed)
  BY <1>1 DEF InOrder, Recorded, NotAgain
<1>4. req' = [req EXCEPT ![p] = r]
  BY DEF Arrive
<1>5. late' = [late EXCEPT ![p] = late[p]]
  BY DEF IInv, TypeInv
<1> HIDE DEF r
<1> QED
  BY <1>1, <1>2, <1>3, <1>4, <1>5, OneProcess DEF ProcInv, Outside

LEMMA AskInv == ASSUME IInv, NEW p \in Procs, Ask(p) PROVE IInv'
<1>0. cat[p] \in Cats /\ CatInv(cat[p], disk) /\ cat \in [Procs -> Cats]
  BY Placed DEF ProcInv, IInv, TypeInv
<1>1. ASSUME NEW path \in Paths, AskReaddir(p, path) \/ AskGetattr(p, path) PROVE IInv'
  <2>1. PICK op \in {"READDIR", "GETATTR"} : Arrive(p, op, path)
    BY <1>1 DEF AskReaddir, AskGetattr
  <2>2. /\ Free(p) /\ cat' = [cat EXCEPT ![p] = NoCat(path)]
        /\ UNCHANGED <<vault, disk, allowed, decisions, late>>
    BY <1>1 DEF AskReaddir, AskGetattr
  <2>3. NoCat(path) \in Cats /\ CatInv(NoCat(path), disk) /\ NoCat(path).path = path
        /\ NoCat(path).state = StateFor(op) /\ op \in Ops
    BY EmptyCat DEF NoCat, StateFor, Ops
  <2> QED
    BY <2>1, <2>2, <2>3, ArriveInv
<1>2. CASE AskOpen(p) \/ AskRead(p)
  <2>1. PICK op \in {"OPEN", "READ"} : Arrive(p, op, cat[p].path) /\ cat[p].state = StateFor(op)
    BY <1>2 DEF AskOpen, AskRead, StateFor
  <2>2. /\ Free(p) /\ cat' = [cat EXCEPT ![p] = cat[p]]
        /\ UNCHANGED <<vault, disk, allowed, decisions, late>>
    BY <1>0, <1>2 DEF AskOpen, AskRead
  <2>3. cat[p].path \in Paths /\ op \in Ops
    BY <1>0 DEF Cats, Ops
  <2> QED
    BY <1>0, <2>1, <2>2, <2>3, ArriveInv
<1> QED
  BY <1>1, <1>2 DEF Ask

-----------------------------------------------------------------------------
(* Handlers *)

LEMMA CheckInv == ASSUME IInv, NEW p \in Procs, CheckAccess(p) PROVE IInv'
<1>0. /\ req[p] \in Requests /\ cat[p] \in Cats /\ late[p] \in Nat
      /\ ProcInv(p, req[p], cat[p], late[p]) /\ req[p].pc = "check" /\ UNCHANGED Outside
  BY Placed DEF CheckAccess
<1>1. CASE p \in allowed /\ UNCHANGED <<cat, late>>
  <2> DEFINE records == IF req[p].op = "READDIR" THEN <<"SUCCESS">> ELSE <<>>
             r == [req[p] EXCEPT !.pc = "allowed", !.audit = records]
  <2>1. CASE req' = [req EXCEPT ![p] = r]
    <3>1. records \in Seq({"SUCCESS", "DENIED"})
      <4>1. <<"SUCCESS">> \in Seq({"SUCCESS", "DENIED"}) /\ <<>> \in Seq({"SUCCESS", "DENIED"})
        OBVIOUS
      <4> QED
        BY <4>1
    <3>2. r \in Requests /\ r.pc = "allowed" /\ r.audit = records
          /\ r.op = req[p].op /\ r.path = req[p].path
      BY <1>0, <3>1 DEF Requests
    <3> HIDE DEF r
    <3>3. ProcInv(p, r, cat[p], late[p])
      BY <1>0, <1>1, <3>2 DEF ProcInv, InOrder, Recorded, NotAgain
    <3>4. cat' = [cat EXCEPT ![p] = cat[p]] /\ late' = [late EXCEPT ![p] = late[p]]
      BY <1>1 DEF IInv, TypeInv
    <3> QED
      BY <1>0, <2>1, <3>2, <3>3, <3>4, OneProcess
  <2>2. CASE Reply(p, "EACCES", <<"DENIED">>) /\ p \notin allowed
    BY <1>1, <2>2
  <2> QED
    BY <1>1, <2>1, <2>2 DEF CheckAccess
<1>2. CASE p \notin allowed /\ Reply(p, "EACCES", <<"DENIED">>) /\ GiveUp(p)
  <2>1. cat' = [cat EXCEPT ![p] = NoCat(cat[p].path)] /\ cat[p].path \in Paths
    BY <1>0, <1>2 DEF GiveUp, Cats
  <2> QED
    BY <1>0, <1>2, <2>1, EmptyCat, ReplyInv DEF Codes
<1> QED
  BY <1>1, <1>2 DEF CheckAccess

\* The answers of a handler whose check has passed, with what cat makes of them.
AnswerTo(p) == req[p].pc \in {"allowed", "sized", "inject"} /\ UNCHANGED Outside

LEMMA GiveUpInv ==
  ASSUME IInv, NEW p \in Procs, AnswerTo(p), NEW code \in {"OK", "ENOENT", "EIO"},
         Reply(p, code, IF code = "OK" THEN <<"SUCCESS">> ELSE <<>>), GiveUp(p),
         req[p].op # "READDIR"
  PROVE  IInv'
<1>1. cat[p] \in Cats
  BY Placed
<1>2. cat' = [cat EXCEPT ![p] = NoCat(cat[p].path)] /\ cat[p].path \in Paths
  BY <1>1 DEF GiveUp, Cats
<1> QED
  BY <1>2, EmptyCat, ReplyInv DEF AnswerTo, Codes

LEMMA StatInv ==
  ASSUME IInv, NEW p \in Procs, AnswerTo(p), req[p].op = "GETATTR",
         Reply(p, "OK", <<"SUCCESS">>), NEW size \in Nat, Stat(p, size),
         req[p].path \in VaultPaths => size = Placeholder,
         req[p].path \in FilePaths => size = FileLength
  PROVE  IInv'
<1> DEFINE c == [cat[p] EXCEPT !.state = "stat", !.size = size]
<1>1. /\ cat[p] \in Cats /\ CatInv(cat[p], disk) /\ cat[p].state = "none"
      /\ req[p].path = cat[p].path
  BY Placed DEF ProcInv, InOrder, StateFor, AnswerTo
<1>2. cat' = [cat EXCEPT ![p] = c]
  BY DEF Stat
<1>3. /\ c \in Cats /\ c.state = "stat" /\ c.size = size /\ c.text = cat[p].text
      /\ c.path = cat[p].path
  BY <1>1 DEF Cats
<1> HIDE DEF c
<1>4. cat[p].text = <<>> /\ Len(c.text) = 0 /\ 1 .. Len(c.text) = {}
  BY <1>1, <1>3 DEF CatInv
<1>5. CatInv(c, disk)
  BY <1>1, <1>3, <1>4, ConstantsAssumption DEF CatInv, SecretRead, FileRead
<1> QED
  BY <1>2, <1>3, <1>5, ReplyInv DEF AnswerTo, Codes

LEMMA GetattrInv ==
  ASSUME IInv, NEW p \in Procs, GetattrVault(p) \/ GetattrInjected(p)
  PROVE  IInv'
<1>1. CASE GetattrVault(p)
  <2>1. /\ AnswerTo(p) /\ req[p].op = "GETATTR" /\ req[p].path \in VaultPaths
        /\ req[p].path \notin FilePaths
    BY <1>1, ConstantsAssumption DEF GetattrVault, Handling, AnswerTo, MappedPaths
  <2>2. CASE Reply(p, "OK", <<"SUCCESS">>) /\ Stat(p, Placeholder)
    BY <2>1, <2>2, StatInv, ConstantsAssumption
  <2>3. CASE Reply(p, "OK", <<"SUCCESS">>) /\ GiveUp(p)
    BY <2>1, <2>3, GiveUpInv
  <2>4. CASE Reply(p, "ENOENT", <<>>) /\ GiveUp(p)
    BY <2>1, <2>4, GiveUpInv
  <2> QED
    BY <1>1, <2>2, <2>3, <2>4 DEF GetattrVault
<1>2. CASE GetattrInjected(p)
  <2>1. /\ AnswerTo(p) /\ req[p].op = "GETATTR" /\ Reply(p, "OK", <<"SUCCESS">>)
        /\ Stat(p, Len(req[p].text)) /\ req[p].pc = "inject"
    BY <1>2 DEF GetattrInjected, Injected, AnswerTo
  <2>2. req[p].path \in InjectedPaths /\ Len(req[p].text) \in Nat
    BY <2>1, Placed DEF ProcInv, InOrder, Requests
  <2>3. req[p].path \notin VaultPaths /\ req[p].path \notin FilePaths
    BY <2>2, ConstantsAssumption DEF MappedPaths
  <2> QED
    BY <2>1, <2>2, <2>3, StatInv
<1> QED
  BY <1>1, <1>2

\* What a step on the way through the injections makes of a request.
Underway(r, q) ==
    /\ r \in Requests
    /\ r.op = q.op /\ r.path = q.path /\ r.audit = q.audit
    /\ r.pc \in {"sized", "inject"} /\ (r.pc = "sized" => q.op = "GETATTR")

\* The size is known, the text of the file is read, or the secrets are put into it
\* one by one.
LEMMA InjectingInv ==
  ASSUME IInv, NEW p \in Procs, req[p].pc \in {"allowed", "sized", "inject"},
         req[p].op \in {"GETATTR", "READ"}, req[p].path \in InjectedPaths,
         NEW r, Underway(r, req[p]), req' = [req EXCEPT ![p] = r],
         UNCHANGED <<cat, late>>, UNCHANGED Outside
  PROVE  IInv'
<1>1. /\ req[p] \in Requests /\ cat[p] \in Cats /\ late[p] \in Nat
      /\ ProcInv(p, req[p], cat[p], late[p])
  BY Placed
<1>4. ProcInv(p, r, cat[p], late[p])
  BY <1>1 DEF Underway, ProcInv, InOrder, Recorded, NotAgain
<1>5. cat' = [cat EXCEPT ![p] = cat[p]] /\ late' = [late EXCEPT ![p] = late[p]]
  BY DEF IInv, TypeInv
<1>6. UNCHANGED Outside /\ r \in Requests
  BY DEF Underway
<1> QED
  BY ONLY IInv, p \in Procs, req' = [req EXCEPT ![p] = r], <1>1, <1>4, <1>5, <1>6, OneProcess

LEMMA StartInv ==
  ASSUME IInv, NEW p \in Procs, req[p].pc \in {"allowed", "sized"},
         req[p].op \in {"GETATTR", "READ"},
         req[p].path \in InjectedPaths, StartInjecting(p), UNCHANGED Outside
  PROVE  IInv'
<1> DEFINE text == RawText(req[p].path, disk[req[p].path].ver)
           r == [req[p] EXCEPT !.pc = "inject", !.text = text]
<1>1. req[p] \in Requests /\ req \in [Procs -> Requests] /\ UNCHANGED <<cat, late>>
  BY Placed DEF IInv, TypeInv, StartInjecting
<1>2. text \in Seq(Pieces)
  BY <1>1, RawTextType, Placed DEF MappedPaths, Requests
<1>3. req' = [req EXCEPT ![p].pc = "inject", ![p].text = text]
  BY DEF StartInjecting
<1> HIDE DEF text
<1>4. req' = [req EXCEPT ![p] = r]
  BY <1>1, <1>3
<1>5. Underway(r, req[p])
  <2>1. r \in Requests /\ r.pc = "inject"
    BY <1>1, <1>2 DEF Requests
  <2>2. r.op = req[p].op /\ r.path = req[p].path /\ r.audit = req[p].audit
    BY <1>1 DEF Requests
  <2> QED
    BY <2>1, <2>2 DEF Underway
<1> HIDE DEF r
<1> QED
  BY <1>1, <1>4, <1>5, InjectingInv

LEMMA MappedInv ==
  ASSUME IInv, NEW p \in Procs, GetattrMapped(p) \/ ReadMapped(p)
  PROVE  IInv'
<1>0. /\ AnswerTo(p) /\ req[p].pc = "allowed" /\ req[p].path \in MappedPaths
      /\ req[p].path \notin VaultPaths
  BY ConstantsAssumption DEF GetattrMapped, ReadMapped, Handling, AnswerTo
<1> DEFINE content == RawText(req[p].path, disk[req[p].path].ver)
<1>1. /\ req[p].path = cat[p].path
      /\ content \in Seq(Pieces)
      /\ req[p].path \in FilePaths => Len(content) = FileLength
  BY <1>0, RawTextType, Placed DEF ProcInv, InOrder
<1>2. CASE GetattrMapped(p)
  <2>1. req[p].op = "GETATTR"
    BY <1>2 DEF GetattrMapped, Handling
  <2>2. CASE Reply(p, "ENOENT", <<>>) /\ GiveUp(p)
    BY <1>0, <2>1, <2>2, GiveUpInv
  <2>3. CASE Reply(p, "OK", <<"SUCCESS">>) /\ GiveUp(p)
    BY <1>0, <2>1, <2>3, GiveUpInv
  <2>4. CASE /\ req[p].path \in FilePaths /\ Reply(p, "OK", <<"SUCCESS">>)
             /\ Stat(p, Len(content))
    <3>1. Len(content) = FileLength /\ FileLength \in Nat
      BY <1>1, <2>4, ConstantsAssumption
    <3> HIDE DEF content
    <3> QED
      BY <1>0, <2>1, <2>4, <3>1, StatInv
  <2>5. CASE /\ req[p].path \in InjectedPaths /\ UNCHANGED <<cat, late>>
             /\ req' = [req EXCEPT ![p].pc = "sized"]
    <3> DEFINE r == [req[p] EXCEPT !.pc = "sized"]
    <3>1. req[p] \in Requests /\ req \in [Procs -> Requests]
      BY Placed DEF IInv, TypeInv
    <3>2. req' = [req EXCEPT ![p] = r] /\ Underway(r, req[p])
      BY <2>1, <2>5, <3>1 DEF Requests, Underway
    <3> HIDE DEF r
    <3> QED
      BY <1>0, <2>1, <2>5, <3>2, InjectingInv DEF AnswerTo
  <2> QED
    BY <1>2, <2>2, <2>3, <2>4, <2>5 DEF GetattrMapped
<1>3. CASE ReadMapped(p)
  <2>1. req[p].op = "READ"
    BY <1>3 DEF ReadMapped, Handling
  <2>2. CASE Reply(p, "EIO", <<>>) /\ GiveUp(p)
    BY <1>0, <2>1, <2>2, GiveUpInv
  <2>3. CASE req[p].path \in FilePaths /\ Deliver(p, content)
    <3>1. content = RawText(cat[p].path, disk[cat[p].path].ver)
      BY <1>1
    <3> HIDE DEF content
    <3> QED
      BY <1>0, <1>1, <2>1, <2>3, <3>1, DeliverInv DEF AnswerTo
  <2>4. CASE req[p].path \in InjectedPaths /\ StartInjecting(p)
    BY <1>0, <2>1, <2>4, StartInv DEF AnswerTo
  <2> QED
    BY <1>3, <2>2, <2>3, <2>4 DEF ReadMapped
<1> QED
  BY <1>2, <1>3

LEMMA ContentInv ==
  ASSUME IInv, NEW p \in Procs, GetattrContent(p)
  PROVE  IInv'
<1>1. /\ AnswerTo(p) /\ req[p].pc = "sized" /\ req[p].op = "GETATTR"
      /\ req[p].path \in InjectedPaths
  BY Placed DEF GetattrContent, AnswerTo, ProcInv, InOrder
<1>2. CASE StartInjecting(p)
  BY <1>1, <1>2, StartInv DEF AnswerTo
<1>3. CASE Reply(p, "OK", <<"SUCCESS">>) /\ Stat(p, Len(Injections[req[p].path]))
  <2>1. /\ Len(Injections[req[p].path]) \in Nat
        /\ req[p].path \notin VaultPaths /\ req[p].path \notin FilePaths
    BY <1>1, ConstantsAssumption DEF MappedPaths
  <2> QED
    BY <1>1, <1>3, <2>1, StatInv
<1> QED
  BY <1>2, <1>3 DEF GetattrContent

LEMMA InjectInv ==
  ASSUME IInv, NEW p \in Procs, SkipInjection(p) \/ InjectSecret(p) \/ InjectFails(p)
  PROVE  IInv'
<1>0. /\ req[p] \in Requests /\ req \in [Procs -> Requests] /\ req[p].pc = "inject"
      /\ req[p].path \in InjectedPaths /\ req[p].op \in {"GETATTR", "READ"}
      /\ UNCHANGED Outside
      /\ vault \in [VaultPaths -> [kind : {"file", "dir", "absent"}, ver : Versions]]
  BY Placed DEF SkipInjection, InjectSecret, InjectFails, ToInject, ProcInv, InOrder, IInv,
                TypeInv, Outside
<1>1. /\ Injections[req[p].path] \in Seq(VaultPaths)
      /\ req[p].path \notin VaultPaths /\ req[p].path \notin FilePaths
  BY <1>0, ConstantsAssumption DEF MappedPaths
<1>2. CASE InjectSecret(p)
  <2> DEFINE text == Inject(req[p].text, req[p].done + 1, vault[NextSecret(p)].ver)
             done == req[p].done + 1
             r == [req[p] EXCEPT !.text = text, !.done = done]
  <2>1. req[p].done \in Nat /\ req[p].done < Len(Injections[req[p].path])
    BY <1>0, <1>2 DEF Requests, InjectSecret, ToInject
  <2>2. NextSecret(p) \in VaultPaths
    BY <1>1, <2>1 DEF NextSecret
  <2>3. text \in Seq(Pieces)
    BY <1>0, <2>1, <2>2, InjectType DEF Requests
  <2>4. /\ req' = [req EXCEPT ![p].text = text, ![p].done = done]
        /\ UNCHANGED <<cat, late>> /\ done \in Nat
    BY <1>2, <2>1 DEF InjectSecret
  <2> HIDE DEF text, done
  <2>5. req' = [req EXCEPT ![p] = r]
    BY <1>0, <2>4
  <2>6. r \in Requests /\ r.pc = "inject"
    BY <1>0, <2>3, <2>4 DEF Requests
  <2>7. r.op = req[p].op /\ r.path = req[p].path /\ r.audit = req[p].audit
    BY <1>0 DEF Requests
  <2> HIDE DEF r
  <2> QED
    BY <1>0, <2>4, <2>5, <2>6, <2>7, InjectingInv DEF Underway
<1>3. CASE InjectFails(p)
  <2>1. AnswerTo(p)
    BY <1>0 DEF AnswerTo
  <2>2. CASE /\ req[p].op = "GETATTR" /\ Reply(p, "OK", <<"SUCCESS">>)
             /\ Stat(p, Len(Injections[req[p].path]))
    <3>1. Len(Injections[req[p].path]) \in Nat
      BY <1>1
    <3> QED
      BY <1>1, <2>1, <2>2, <3>1, StatInv
  <2>3. CASE Reply(p, "EIO", <<>>) /\ GiveUp(p)
    BY <1>0, <2>1, <2>3, GiveUpInv
  <2> QED
    BY <1>3, <2>2, <2>3 DEF InjectFails
<1>4. CASE SkipInjection(p)
  <2> DEFINE done == req[p].done + 1
             r == [req[p] EXCEPT !.done = done]
  <2>1. /\ req' = [req EXCEPT ![p] = r] /\ UNCHANGED <<cat, late>> /\ done \in Nat
    BY <1>0, <1>4 DEF SkipInjection, Requests
  <2> HIDE DEF done
  <2>2. r \in Requests /\ r.pc = "inject"
    BY <1>0, <2>1 DEF Requests
  <2>3. r.op = req[p].op /\ r.path = req[p].path /\ r.audit = req[p].audit
    BY <1>0 DEF Requests
  <2> HIDE DEF r
  <2> QED
    BY <1>0, <2>1, <2>2, <2>3, InjectingInv DEF Underway
<1> QED
  BY <1>2, <1>3, <1>4

LEMMA OpenInv == ASSUME IInv, NEW p \in Procs, OpenVault(p) \/ OpenMapped(p) PROVE IInv'
<1>0. AnswerTo(p) /\ req[p].op = "OPEN" /\ req[p].pc = "allowed"
  BY DEF OpenVault, OpenMapped, Handling, AnswerTo
<1>1. CASE Reply(p, "ENOENT", <<>>) /\ GiveUp(p)
  BY <1>0, <1>1, GiveUpInv
<1>2. CASE Reply(p, "OK", <<"SUCCESS">>) /\ cat' = [cat EXCEPT ![p].state = "open"]
  <2> DEFINE c == [cat[p] EXCEPT !.state = "open"]
  <2>1. cat[p] \in Cats /\ CatInv(cat[p], disk) /\ cat[p].state = "stat" /\ cat \in [Procs -> Cats]
    BY <1>0, Placed DEF ProcInv, InOrder, StateFor, IInv, TypeInv
  <2>2. cat' = [cat EXCEPT ![p] = c]
    BY <1>2, <2>1
  <2>3. /\ c \in Cats /\ c.state = "open" /\ c.size = cat[p].size /\ c.text = cat[p].text
        /\ c.path = cat[p].path /\ c.undisturbed = cat[p].undisturbed
    BY <2>1 DEF Cats
  <2> HIDE DEF c
  <2>4. CatInv(c, disk)
    BY <2>1, <2>3 DEF CatInv, SecretRead, FileRead
  <2> QED
    BY <1>0, <1>2, <2>2, <2>3, <2>4, ReplyInv DEF AnswerTo, Codes
<1> QED
  BY <1>1, <1>2 DEF OpenVault, OpenMapped

LEMMA ReadInv == ASSUME IInv, NEW p \in Procs, ReadVault(p) \/ ReadInjected(p) PROVE IInv'
<1>0. /\ AnswerTo(p) /\ req[p].op = "READ" /\ req[p].pc \in {"allowed", "sized", "inject"}
      /\ req[p].path = cat[p].path /\ req[p] \in Requests
  BY Placed DEF ReadVault, ReadInjected, Injected, Handling, AnswerTo, ProcInv, InOrder
<1>1. CASE ReadVault(p)
  <2>1. req[p].path \in VaultPaths /\ req[p].path \notin FilePaths
    BY <1>1, ConstantsAssumption DEF ReadVault, MappedPaths
  <2>2. CASE Reply(p, "EIO", <<>>) /\ GiveUp(p)
    BY <1>0, <2>2, GiveUpInv
  <2>3. CASE \E order \in FieldOrders(vault[req[p].path].ver) :
               Deliver(p, Formatted(vault[req[p].path].ver, order))
    <3>1. PICK v \in Versions : v = vault[req[p].path].ver
      BY <2>1 DEF IInv, TypeInv
    <3>2. PICK order \in FieldOrders(v) : Deliver(p, Formatted(v, order))
      BY <2>3, <3>1
    <3>3. PICK content \in Seq(Pieces) : content = Formatted(v, order)
      BY FormattedType
    <3> QED
      BY <1>0, <2>1, <3>2, <3>3, DeliverInv DEF AnswerTo
  <2> QED
    BY <1>1, <2>2, <2>3 DEF ReadVault
<1>2. CASE ReadInjected(p)
  <2>1. /\ Deliver(p, req[p].text) /\ req[p].text \in Seq(Pieces)
        /\ cat[p].path \in InjectedPaths
    BY <1>0, <1>2, Placed DEF ReadInjected, Injected, Requests, ProcInv, InOrder
  <2>2. cat[p].path \notin VaultPaths /\ cat[p].path \notin FilePaths
    BY <2>1, ConstantsAssumption DEF MappedPaths
  <2> QED
    BY <1>0, <2>1, <2>2, DeliverInv DEF AnswerTo
<1> QED
  BY <1>1, <1>2

LEMMA ReaddirInv == ASSUME IInv, NEW p \in Procs, Readdir(p) PROVE IInv'
<1>1. PICK code \in {"OK", "ENOENT"} : Reply(p, code, <<>>)
  BY DEF Readdir
<1>2. /\ cat' = [cat EXCEPT ![p] = cat[p]] /\ cat[p] \in Cats /\ CatInv(cat[p], disk)
      /\ UNCHANGED Outside /\ req[p].pc = "allowed" /\ req[p].op = "READDIR"
  BY Placed DEF Readdir, Handling, ProcInv, IInv, TypeInv, Outside
<1> QED
  BY <1>1, <1>2, ReplyInv DEF Codes

-----------------------------------------------------------------------------
LEMMA InitIInv == Init => IInv
<1> SUFFICES ASSUME Init PROVE IInv
  OBVIOUS
<1>1. PICK path \in Paths :
         /\ req = [p \in Procs |-> [pc |-> "idle", op |-> "READDIR", path |-> path,
                                    text |-> <<>>, done |-> 0, code |-> "none",
                                    count |-> 0, audit |-> <<>>]]
         /\ cat = [p \in Procs |-> NoCat(path)]
  BY DEF Init
<1>2. TypeInv
  <2>1. 1 \in Versions /\ MaxDecisions \in Nat
    BY ConstantsAssumption DEF Versions
  <2> QED
    BY <1>1, <2>1, EmptyCat, EmptySeq DEF Init, TypeInv, Requests, Ops, Codes
<1>3. ASSUME NEW p \in Procs PROVE ProcInv(p, req[p], cat[p], late[p])
  <2>1. /\ req[p].pc = "idle" /\ req[p].audit = <<>> /\ cat[p] = NoCat(path) /\ late[p] = 0
    BY <1>1 DEF Init
  <2> QED
    BY <2>1, EmptyCat DEF ProcInv, InOrder, Recorded, NotAgain
<1> QED
  BY <1>2, <1>3 DEF IInv

LEMMA Invariance == Spec => []IInv
<1>1. IInv /\ [Next]_vars => IInv'
  <2> SUFFICES ASSUME IInv, [Next]_vars PROVE IInv'
    OBVIOUS
  <2>1. CASE UNCHANGED vars
    BY <2>1 DEF vars, IInv, TypeInv, ProcInv
  <2>2. ASSUME NEW p \in Procs, Handle(p) PROVE IInv'
    BY <2>2, CheckInv, GetattrInv, MappedInv, ContentInv, InjectInv, OpenInv, ReadInv, ReaddirInv DEF Handle
  <2> QED
    BY <2>1, <2>2, EnvironmentInv, AskInv DEF Next
<1> QED
  BY <1>1, InitIInv, PTL DEF Spec

\* Requests, files and contents keep their types, also what FlattenSeq makes of a file
\* and the secrets that are injected into it.
THEOREM TypeCorrect == Spec => []TypeOK
<1>1. IInv => TypeOK
  BY DEF IInv, TypeInv, TypeOK, Requests, Cats
<1> QED
  BY <1>1, Invariance, PTL

\* For every number of processes and of changes of the decision, and files of any length:
\* a process that has lost its access has at most the request granted whose check had passed
\* (vaultfs.go:301, 634).
THEOREM RevocationIsPrompt == Spec => []RevocationTakesEffect
<1>1. IInv => RevocationTakesEffect
  BY DEF IInv, ProcInv, NotAgain, RevocationTakesEffect
<1> QED
  BY <1>1, Invariance, PTL

\* What is in the audit log is right: DENIED for what was refused and for nothing else,
\* SUCCESS for all that was granted, no request twice (vaultfs.go:318, 620, 712).
\* It does not say that a request that failed is there: it is not.
THEOREM RecordsAreRight == Spec => []OneRecordPerAnswer
<1>1. IInv => OneRecordPerAnswer
  <2> SUFFICES ASSUME IInv, NEW p \in Procs, Replied(p)
               PROVE  /\ req[p].audit = <<"DENIED">> <=> req[p].code = "EACCES"
                      /\ req[p].code = "OK" => req[p].audit = <<"SUCCESS">>
                      /\ Len(req[p].audit) <= 1
    BY DEF OneRecordPerAnswer
  <2>1. req[p] \in Requests /\ Recorded(req[p])
    BY Placed DEF ProcInv
  <2>2. <<"DENIED">> # <<"SUCCESS">> /\ <<"DENIED">> # <<>>
    OBVIOUS
  <2>3. req[p].audit \in {<<>>, <<"SUCCESS">>, <<"DENIED">>}
    BY <2>1 DEF Requests, Recorded, Replied, Codes
  <2>4. Len(req[p].audit) <= 1
    <3>1. CASE req[p].audit = <<>>
      BY <3>1
    <3>2. CASE req[p].audit = <<"SUCCESS">>
      BY <3>2
    <3>3. CASE req[p].audit = <<"DENIED">>
      BY <3>3
    <3> QED
      BY <2>3, <3>1, <3>2, <3>3
  <2>5. req[p].audit = <<"DENIED">> <=> req[p].code = "EACCES"
    BY <2>1, <2>2 DEF Requests, Recorded, Replied, Codes
  <2>6. req[p].code = "OK" => req[p].audit = <<"SUCCESS">>
    BY <2>1 DEF Requests, Recorded, Replied, Codes
  <2> QED
    BY <2>4, <2>5, <2>6
<1> QED
  BY <1>1, Invariance, PTL

\* For every length of a file and every size of a Read: an undisturbed file arrives in full,
\* and a secret that fits into one Read does whatever is written meanwhile (vaultfs.go:690, 720).
THEOREM ReadsAreWhole == Spec => []WholeReads
<1>1. IInv => WholeReads
  <2> SUFFICES ASSUME IInv, NEW p \in Procs
               PROVE  /\ cat[p].path \in VaultPaths /\ FitsOneRead => CatIsWhole(p)
                      /\ cat[p].path \in FilePaths /\ cat[p].undisturbed => CatIsWhole(p)
    BY DEF WholeReads
  <2>1. /\ cat[p] \in Cats /\ CatInv(cat[p], disk)
        /\ disk \in [MappedPaths -> [kind : {"file", "dir", "absent"}, ver : Versions]]
    BY Placed DEF ProcInv
  <2>2. cat[p].path \in VaultPaths /\ FitsOneRead => CatIsWhole(p)
    BY <2>1 DEF CatInv, SecretRead, CatIsWhole
  <2>3. ASSUME cat[p].path \in FilePaths, cat[p].undisturbed, cat[p].state = "eof"
        PROVE  Whole(cat[p].path, cat[p].text)
    <3> DEFINE v == disk[cat[p].path].ver
               raw == RawText(cat[p].path, v)
    <3>1. cat[p].path \in MappedPaths /\ cat[p].path \notin VaultPaths /\ v \in Versions
      BY <2>1, <2>3, ConstantsAssumption DEF MappedPaths
    <3>2. /\ raw \in Seq(Pieces) /\ Len(raw) = FileLength
          /\ \A i \in 1 .. FileLength : raw[i] = Piece("file", v, i)
      BY <2>3, <3>1, RawTextType
    <3>3. /\ cat[p].text \in Seq(Pieces) /\ Len(cat[p].text) = FileLength
          /\ \A i \in 1 .. FileLength : cat[p].text[i] = Piece("file", v, i)
      BY <2>1, <2>3 DEF CatInv, FileRead, Cats
    <3> HIDE DEF raw
    <3>4. cat[p].text = raw
      BY <3>2, <3>3, SeqEqual
    <3> USE DEF raw
    <3> QED
      BY <2>3, <3>1, <3>4 DEF Whole
  <2> QED
    BY <2>2, <2>3 DEF CatIsWhole
<1> QED
  BY <1>1, Invariance, PTL
=============================================================================
