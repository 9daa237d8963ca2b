--------------------------- MODULE SyncConfigProofs ---------------------------
(***************************************************************************)
(* The pair list, and sync.json, which holds it.  The operations on the    *)
(* list give no id twice.  For any number of processes what is on disk or  *)
(* about to be written is then a list of numbered pairs.  Within one       *)
(* process, whatever the number of its goroutines and of its crashes, the  *)
(* file can always be parsed and the four steps of a save are one          *)
(* operation on the abstract list.                                         *)
(***************************************************************************)
EXTENDS SyncConfig, SequenceTheorems, TLAPS

USE ClientAssumption, CrashAssumption, InodeAssumption

-----------------------------------------------------------------------------
(* The abstract list, seen through the mapping.                            *)

(* A list of pairs with distinct ids.                                      *)
Numbered(f) ==
  /\ f \in Seq(Store!Pair)
  /\ \A i, j \in DOMAIN f : f[i].id = f[j].id => i = j

LEMMA DraftsArePairs ==
  ASSUME NEW p \in Store!Drafts, NEW n \in Nat \ {0}
  PROVE  [p EXCEPT !.id = n] \in Store!Pair /\ [p EXCEPT !.id = n].id = n
  BY DEF Store!Drafts, Store!Pair, Store!Runs

(* Add appends a pair under a number the list does not use.                *)
LEMMA AddsNumber == ASSUME NEW f, Numbered(f), NEW g \in Store!Adds(f) PROVE Numbered(g)
<1>1. PICK p \in Store!Drafts, n \in 1 .. Len(f) + 1 :
         g = Append(f, [p EXCEPT !.id = n]) /\ Store!IsNextID(f, n)
  BY DEF Store!Adds
<1> DEFINE q == [p EXCEPT !.id = n]
<1>2. f \in Seq(Store!Pair) /\ n \in Nat \ {0}
  BY DEF Numbered
<1>3. q \in Store!Pair /\ q.id = n
  BY <1>2, DraftsArePairs
<1> HIDE DEF q
<1>4. g = Append(f, q) /\ g \in Seq(Store!Pair)
  BY <1>1, <1>2, <1>3 DEF q
<1>5. DOMAIN f = 1 .. Len(f) /\ DOMAIN g = 1 .. Len(f) + 1 /\ Len(f) \in Nat
  BY <1>2, <1>4
<1>6. \A i \in DOMAIN f : g[i] = f[i] /\ g[i].id # n
  BY <1>1, <1>2, <1>3, <1>4 DEF Store!IsNextID, Store!UsedIds
<1>7. g[Len(f) + 1].id = n
  BY <1>2, <1>3, <1>4
<1> QED
  BY <1>4, <1>5, <1>6, <1>7 DEF Numbered

(* Remove closes the gap; the pairs it keeps stand in the same order.      *)
LEMMA RemovesKeep == ASSUME NEW f, Numbered(f), NEW g \in Store!Removes(f) PROVE Numbered(g)
<1>1. PICK i \in DOMAIN f : g = Store!Seqs!RemoveAt(f, i)
  BY DEF Store!Removes, Store!Found
<1>2. f \in Seq(Store!Pair) /\ Len(f) \in Nat /\ DOMAIN f = 1 .. Len(f)
  BY DEF Numbered
<1> DEFINE h == SubSeq(f, 1, i - 1)
           t == SubSeq(f, i + 1, Len(f))
<1>3. /\ h \in Seq(Store!Pair) /\ Len(h) = i - 1
      /\ \A k \in 1 .. i - 1 : h[k] = f[k]
  BY <1>2, SubSeqProperties
<1>4. /\ t \in Seq(Store!Pair) /\ Len(t) = Len(f) - i
      /\ \A k \in 1 .. Len(f) - i : t[k] = f[i + k]
  BY <1>2, SubSeqProperties
<1>5. g = h \o t
  BY <1>1 DEF Store!Seqs!RemoveAt
<1> HIDE DEF h, t
<1>6. /\ g \in Seq(Store!Pair) /\ Len(g) = Len(f) - 1
      /\ \A k \in 1 .. Len(f) - 1 : g[k] = IF k < i THEN f[k] ELSE f[k + 1]
  <2>1. g \in Seq(Store!Pair) /\ Len(g) = Len(f) - 1
    <3>1. g \in Seq(Store!Pair) /\ Len(g) = Len(h) + Len(t)
      BY <1>3, <1>4, <1>5, ConcatProperties
    <3> QED
      BY <1>2, <1>3, <1>4, <3>1
  <2>2. ASSUME NEW k \in 1 .. Len(f) - 1, k < i PROVE g[k] = f[k]
    BY <1>2, <1>3, <1>4, <1>5, <2>2
  <2>3. ASSUME NEW k \in 1 .. Len(f) - 1, ~(k < i) PROVE g[k] = f[k + 1]
    <3>1. g[k] = t[k - (i - 1)]
      BY <1>2, <1>3, <1>4, <1>5, <2>3
    <3>2. k - (i - 1) \in 1 .. Len(f) - i /\ i + (k - (i - 1)) = k + 1
      BY <1>2, <2>3
    <3> QED
      BY <1>4, <3>1, <3>2
  <2> QED
    BY <2>1, <2>2, <2>3
<1> DEFINE was(k) == IF k < i THEN k ELSE k + 1
<1>7. \A k \in DOMAIN g : was(k) \in DOMAIN f /\ g[k] = f[was(k)]
  BY <1>2, <1>6
<1>8. \A k, l \in DOMAIN g : was(k) = was(l) => k = l
  BY <1>2, <1>6
<1> HIDE DEF was
<1> QED
  BY <1>6, <1>7, <1>8 DEF Numbered

(* Every other operation changes one pair and leaves its id alone.         *)
LEMMA UpdateKeeps ==
  ASSUME NEW f, Numbered(f), NEW i \in DOMAIN f, NEW p \in Store!Pair, p.id = f[i].id,
         NEW g, g = [f EXCEPT ![i] = p]
  PROVE  Numbered(g)
<1>1. f \in Seq(Store!Pair)
  BY DEF Numbered
<1>2. g \in Seq(Store!Pair) /\ DOMAIN g = DOMAIN f
  BY <1>1
<1>3. \A k \in DOMAIN f : g[k].id = f[k].id
  BY <1>1
<1> QED
  BY <1>2, <1>3 DEF Numbered

LEMMA UpdatesKeep ==
  ASSUME NEW f, Numbered(f),
         NEW g \in Store!Sets(f) \cup Store!Forms(f) \cup Store!Records(f)
  PROVE  Numbered(g)
<1>1. \A i \in Store!Found(f) : i \in DOMAIN f /\ f[i] \in Store!Pair
  BY DEF Numbered, Store!Found
<1>2. CASE g \in Store!Sets(f)
  <2>1. PICK i \in Store!Found(f), on \in BOOLEAN, m \in Store!Mode : g = Store!Set(f, i, on, m)
    BY <1>2 DEF Store!Sets
  <2> DEFINE p == [f[i] EXCEPT !.enabled = on, !.watch = m.watch, !.every = m.every]
  <2>2. g = [f EXCEPT ![i] = p]
    BY <1>1, <2>1 DEF Store!Set
  <2>3. p \in Store!Pair /\ p.id = f[i].id
    BY <1>1 DEF Store!Pair, Store!Mode
  <2> QED
    BY <1>1, <2>2, <2>3, UpdateKeeps
<1>3. CASE g \in Store!Forms(f)
  <2>1. PICK i \in Store!Found(f), r \in Remote, m \in Store!Mode : g = Store!Form(f, i, r, m)
    BY <1>3 DEF Store!Forms
  <2> DEFINE p == [f[i] EXCEPT !.remote = r, !.watch = m.watch, !.every = m.every]
  <2>2. g = [f EXCEPT ![i] = p]
    BY <1>1, <2>1 DEF Store!Form
  <2>3. p \in Store!Pair /\ p.id = f[i].id
    BY <1>1 DEF Store!Pair, Store!Mode
  <2> QED
    BY <1>1, <2>2, <2>3, UpdateKeeps
<1>4. CASE g \in Store!Records(f)
  <2>1. PICK i \in Store!Found(f), x \in BOOLEAN : g = [f EXCEPT ![i].last = "recent", ![i].failed = x]
    BY <1>4 DEF Store!Records, Store!RecordRun
  <2> DEFINE p == [f[i] EXCEPT !.last = "recent", !.failed = x]
  <2>2. g = [f EXCEPT ![i] = p]
    BY <1>1, <2>1
  <2>3. p \in Store!Pair /\ p.id = f[i].id
    BY <1>1 DEF Store!Pair, Store!Runs
  <2> QED
    BY <1>1, <2>2, <2>3, UpdateKeeps
<1> QED
  BY <1>2, <1>3, <1>4

LEMMA ResultsNumbered ==
  ASSUME NEW f, Numbered(f), NEW g \in Store!Results(f) PROVE Numbered(g)
BY AddsNumber, RemovesKeep, UpdatesKeep DEF Store!Results

(* The list is made of numbered pairs and no number is given twice.        *)
THEOREM IdsAreUnique == Store!Spec => []Store!TypeOK /\ []Store!UniqueIds
<1> DEFINE pairs == body[main].list
<1>1. Store!Init => Numbered(pairs)
  BY DEF Store!Init, Numbered
<1>2. Numbered(pairs) /\ [Store!Next]_(pairs) => Numbered(pairs)'
  <2> SUFFICES ASSUME Numbered(pairs), [Store!Next]_(pairs) PROVE Numbered(pairs)'
    OBVIOUS
  <2>1. pairs' = pairs \/ pairs' \in Store!Results(pairs)
    BY DEF Store!Next
  <2>2. Numbered(pairs')
    <3> HIDE DEF pairs
    <3> QED
      BY <2>1, ResultsNumbered
  <2> QED
    BY <2>2 DEF Numbered
<1>3. Numbered(pairs) => Store!TypeOK /\ Store!UniqueIds
  BY DEF Numbered, Store!TypeOK, Store!UniqueIds
<1> QED
  BY <1>1, <1>2, <1>3, PTL DEF Store!Spec

-----------------------------------------------------------------------------
(* Any number of processes.  Every inode and every copy holds a list whose *)
(* pairs have distinct numbers; a torn file reads as the empty one.        *)
AllFit ==
  /\ \A i \in Inode : Numbered(body[i].list)
  /\ \A c \in Client : Numbered(copy[c])

Inv == TypeOK /\ AllFit

LEMMA EmptyFits == Numbered(<< >>)
BY DEF Numbered

LEMMA FitIsList == ASSUME NEW f, Numbered(f) PROVE f \in Seq(Store!Pair)
BY DEF Numbered

LEMMA Bodies ==
  /\ Torn \in Content /\ Numbered(Torn.list)
  /\ \A f : Numbered(f) => Json(f) \in Content /\ Numbered(Json(f).list)
BY EmptyFits, FitIsList DEF Torn, Json, Content

LEMMA Starts == Init => Inv
<1> SUFFICES ASSUME Init PROVE Inv
  OBVIOUS
<1>1. body \in [Inode -> Content]
  BY Bodies, EmptyFits DEF Init
<1>2. TypeOK
  BY <1>1, EmptyFits, FitIsList DEF Init, TypeOK
<1>3. AllFit
  BY EmptyFits DEF Init, AllFit, Json, Torn
<1> QED
  BY <1>2, <1>3 DEF Inv

(* An inode that is written becomes torn or holds the writer's copy.       *)
LEMMA WritesFit ==
  ASSUME Inv, NEW i \in Inode, NEW x,
         x = Torn \/ \E c \in Client : x = Json(copy[c]),
         body' = [body EXCEPT ![i] = x]
  PROVE  body' \in [Inode -> Content] /\ \A j \in Inode : Numbered(body'[j].list)
<1>1. x \in Content /\ Numbered(x.list)
  BY Bodies DEF Inv, AllFit
<1> QED
  BY <1>1 DEF Inv, TypeOK, AllFit

LEMMA BeginKeeps == ASSUME Inv, NEW c \in Client, Begin(c) PROVE Inv'
<1>1. PICK g \in Store!Results(body[main].list) : copy' = [copy EXCEPT ![c] = g]
  BY DEF Begin
<1>2. Numbered(g) /\ g \in Seq(Store!Pair)
  BY <1>1, ResultsNumbered, FitIsList DEF Inv, TypeOK, AllFit
<1>3. step[c] = "idle"
  BY DEF Begin, HoldsLock
<1>4. TypeOK'
  BY <1>1, <1>2, <1>3 DEF Inv, TypeOK, Begin
<1>5. AllFit'
  BY <1>1, <1>2 DEF Inv, TypeOK, AllFit, Begin
<1> QED
  BY <1>4, <1>5 DEF Inv

LEMMA OpenTmpKeeps == ASSUME Inv, NEW c \in Client, OpenTmp(c) PROVE Inv'
<1>1. PICK i \in Inode : /\ tmp' = i /\ handle' = [handle EXCEPT ![c] = i]
                         /\ body' = [body EXCEPT ![i] = Torn]
  BY DEF OpenTmp
<1>2. body' \in [Inode -> Content] /\ \A j \in Inode : Numbered(body'[j].list)
  BY <1>1, WritesFit
<1>3. TypeOK'
  BY <1>1, <1>2 DEF Inv, TypeOK, OpenTmp
<1>4. AllFit'
  BY <1>1, <1>2 DEF Inv, AllFit, OpenTmp
<1> QED
  BY <1>3, <1>4 DEF Inv

LEMMA WriteTmpKeeps == ASSUME Inv, NEW c \in Client, WriteTmp(c) PROVE Inv'
<1>1. handle[c] \in Inode
  BY DEF Inv, TypeOK, WriteTmp
<1>2. body' \in [Inode -> Content] /\ \A j \in Inode : Numbered(body'[j].list)
  BY <1>1, WritesFit DEF WriteTmp
<1>3. TypeOK'
  BY <1>2 DEF Inv, TypeOK, WriteTmp
<1>4. AllFit'
  BY <1>2 DEF Inv, AllFit, WriteTmp
<1> QED
  BY <1>3, <1>4 DEF Inv

LEMMA RenameKeeps == ASSUME Inv, NEW c \in Client, Rename(c) PROVE Inv'
<1>1. /\ main' \in Inode
      /\ body' \in [Inode -> Content] /\ \A j \in Inode : Numbered(body'[j].list)
  <2>1. CASE tmp = NoInode
    BY <2>1 DEF Inv, TypeOK, AllFit, Rename
  <2>2. CASE tmp # NoInode
    <3>1. main \in Inode /\ main' = tmp /\ body' = [body EXCEPT ![main] = Torn]
      BY <2>2 DEF Inv, TypeOK, Rename
    <3> QED
      BY <2>2, <3>1, WritesFit DEF Inv, TypeOK
  <2> QED
    BY <2>1, <2>2
<1>2. TypeOK'
  BY <1>1, EmptyFits, FitIsList DEF Inv, TypeOK, Rename, Finish
<1>3. AllFit'
  BY <1>1, EmptyFits DEF Inv, TypeOK, AllFit, Rename, Finish
<1> QED
  BY <1>2, <1>3 DEF Inv

LEMMA CrashKeeps == ASSUME Inv, NEW p \in Process, Crash(p) PROVE Inv'
<1>1. TypeOK'
  BY EmptyFits, FitIsList DEF Inv, TypeOK, Crash
<1>2. AllFit'
  BY EmptyFits DEF Inv, AllFit, Crash
<1> QED
  BY <1>1, <1>2 DEF Inv

LEMMA Keeps == Inv /\ [Next]_vars => Inv'
<1> SUFFICES ASSUME Inv, [Next]_vars PROVE Inv'
  OBVIOUS
<1>1. CASE Next
  BY <1>1, BeginKeeps, OpenTmpKeeps, WriteTmpKeeps, RenameKeeps, CrashKeeps DEF Next
<1>2. CASE UNCHANGED vars
  BY <1>2 DEF Inv, TypeOK, AllFit, vars
<1> QED
  BY <1>1, <1>2

LEMMA Invariant == Spec => []Inv
BY Starts, Keeps, PTL DEF Spec

(* Names and handles are inodes, and a file is held open only while it is  *)
(* being written.                                                          *)
THEOREM FilesAreTyped == Spec => []TypeOK
<1>1. Inv => TypeOK
  BY DEF Inv
<1> QED
  BY <1>1, Invariant, PTL

(* However many processes save at the same time, and whoever's change is   *)
(* lost, no two pairs of sync.json share an id.                            *)
THEOREM IdsStayUniqueOnDisk == Spec => []IdsStayUnique
<1>1. Inv => IdsStayUnique
  BY DEF Inv, TypeOK, AllFit, Numbered, IdsStayUnique, Store!UniqueIds
<1> QED
  BY <1>1, Invariant, PTL

-----------------------------------------------------------------------------
(* One process: its mutex serialises every operation.                      *)
OneProcess == \A c, d \in Client : ProcessOf[c] = ProcessOf[d]

(* At most one operation is under way.  The list it will write is one      *)
(* operation away from the one on disk, which it cannot touch: it writes   *)
(* to the temporary name, which is never sync.json's own inode.            *)
Serial ==
  /\ body[main].ok
  /\ tmp # main
  /\ \A c, d \in Client : step[c] # "idle" /\ step[d] # "idle" => c = d
  /\ \A c \in Client :
       /\ step[c] # "idle" => copy[c] \in Store!Results(body[main].list)
       /\ step[c] \in {"open", "written"} => handle[c] = tmp
       /\ step[c] = "written" => body[tmp] = Json(copy[c])

LEMMA SerialStarts == Init => Serial
BY DEF Init, Serial, Json

LEMMA SerialStep ==
  ASSUME OneProcess, Inv, Serial, [Next]_vars
  PROVE  Serial' /\ [Store!Next]_(body[main].list)
<1> USE DEF Inv, TypeOK
<1>1. ASSUME NEW c \in Client, Begin(c) PROVE Serial' /\ UNCHANGED body[main].list
  <2>1. \A d \in Client : step[d] = "idle"
    BY <1>1 DEF OneProcess, Begin, HoldsLock
  <2>2. PICK g \in Store!Results(body[main].list) : copy' = [copy EXCEPT ![c] = g]
    BY <1>1 DEF Begin
  <2>3. copy'[c] = g /\ UNCHANGED <<body, main, tmp>>
    BY <1>1, <2>2 DEF Begin
  <2>4. \A d \in Client : step'[d] = IF d = c THEN "loaded" ELSE "idle"
    BY <1>1, <2>1 DEF Begin
  <2> QED
    BY <2>2, <2>3, <2>4 DEF Serial
<1>2. ASSUME NEW c \in Client, OpenTmp(c) PROVE Serial' /\ UNCHANGED body[main].list
  <2>1. \A d \in Client : d # c => step[d] = "idle"
    BY <1>2 DEF OpenTmp, Serial
  <2>2. PICK i \in Inode : /\ i # main /\ tmp' = i
                           /\ handle' = [handle EXCEPT ![c] = i]
                           /\ body' = [body EXCEPT ![i] = Torn]
    BY <1>2 DEF OpenTmp, Serial
  <2>3. main' = main /\ body'[main'] = body[main] /\ copy' = copy
    BY <1>2, <2>2 DEF OpenTmp
  <2>4. \A d \in Client : step'[d] = IF d = c THEN "open" ELSE "idle"
    BY <1>2, <2>1 DEF OpenTmp
  <2> QED
    BY <1>2, <2>2, <2>3, <2>4 DEF Serial, OpenTmp
<1>3. ASSUME NEW c \in Client, WriteTmp(c) PROVE Serial' /\ UNCHANGED body[main].list
  <2>1. handle[c] = tmp /\ tmp \in Inode /\ tmp # main
    BY <1>3 DEF WriteTmp, Serial
  <2>2. /\ body' = [body EXCEPT ![tmp] = Json(copy[c])]
        /\ UNCHANGED <<main, tmp, copy, handle>>
    BY <1>3, <2>1 DEF WriteTmp
  <2>3. body'[main'] = body[main] /\ body'[tmp'] = Json(copy'[c])
    BY <2>1, <2>2
  <2>4. \A d \in Client : step'[d] = IF d = c THEN "written" ELSE "idle"
    BY <1>3 DEF WriteTmp, Serial
  <2> QED
    BY <1>3, <2>1, <2>2, <2>3, <2>4 DEF Serial, WriteTmp
<1>4. ASSUME NEW c \in Client, Rename(c) PROVE Serial' /\ Store!Next
  <2>1. /\ handle[c] = tmp /\ tmp \in Inode /\ tmp # main
        /\ body[tmp] = Json(copy[c])
        /\ copy[c] \in Store!Results(body[main].list)
    BY <1>4 DEF Rename, Serial
  <2>2. /\ main' = tmp /\ tmp' = NoInode
        /\ body' = [body EXCEPT ![main] = Torn]
    BY <1>4, <2>1 DEF Rename
  <2>3. body'[main'] = Json(copy[c])
    BY <2>1, <2>2
  <2>4. \A d \in Client : step'[d] = "idle"
    BY <1>4 DEF Rename, Finish, Serial
  <2>5. Store!Next
    BY <2>1, <2>3 DEF Store!Next, Json
  <2> QED
    BY <2>1, <2>2, <2>3, <2>4, <2>5 DEF Serial, Json
<1>5. ASSUME NEW p \in Process, Crash(p) PROVE Serial' /\ UNCHANGED body[main].list
  <2>1. \A d \in Client : step'[d] = "idle"
    BY <1>5 DEF Crash, OneProcess
  <2> QED
    BY <1>5, <2>1 DEF Crash, Serial
<1>6. CASE UNCHANGED vars
  BY <1>6 DEF Serial, vars
<1> QED
  BY <1>1, <1>2, <1>3, <1>4, <1>5, <1>6 DEF Next

LEMMA SerialInvariant == ASSUME OneProcess PROVE Spec => []Serial
<1>1. Inv /\ Serial /\ [Next]_vars => Serial'
  BY SerialStep
<1> QED
  BY <1>1, Invariant, SerialStarts, PTL DEF Spec

(* Save is atomic: in one process sync.json can be parsed between any two  *)
(* steps of a save, after an operation that failed and after every crash.  *)
THEOREM SavesAreAtomic == ASSUME OneProcess PROVE Spec => []NeverHalfWritten
<1>1. Serial => NeverHalfWritten
  BY DEF Serial, NeverHalfWritten
<1> QED
  BY <1>1, SerialInvariant, PTL

(* mu serialises read-modify-write: load, write and rename of one process  *)
(* implement the operations of the pair list, each as a single step that   *)
(* acts on the list which the operation before it left.                    *)
THEOREM OneProcessImplementsStore == ASSUME OneProcess PROVE Spec => ImplementsStore
<1>1. Init => Store!Init
  BY DEF Init, Store!Init, Json
<1>2. Inv /\ Serial /\ [Next]_vars => [Store!Next]_(body[main].list)
  BY SerialStep
<1> QED
  BY <1>1, <1>2, Invariant, SerialInvariant, PTL DEF Spec, ImplementsStore, Store!Spec
=============================================================================
