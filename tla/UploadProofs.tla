----------------------------- MODULE UploadProofs -----------------------------
(***************************************************************************)
(* What leaves this computer.  `files upload` and `gallery upload`: the    *)
(* ledger never names a body the server does not have, and no body is      *)
(* assembled with a hole, for any files, number of goroutines, checkpoint  *)
(* distance, runs, kills and failures.  The camera folder: no photo is     *)
(* deleted or given up before the server has it, for any number of photos, *)
(* writers, ticks and failures.                                            *)
(***************************************************************************)
EXTENDS UploadPool, CameraUpload, TLAPS, FiniteSetTheorems, SequenceTheorems

(***************************************************************************)
(* The upload pool and its ledger.                                         *)
(***************************************************************************)
Pieces  == (UNION {{b[n] : n \in DOMAIN b} : b \in Bodies}) \cup {Zeros}
LuckOK(l) == "edited" \in DOMAIN l /\ l.edited \in BOOLEAN
Pool1   == [phase : {"off", "run", "over", "killed"}, gallery : BOOLEAN, force : BOOLEAN,
            known : SUBSET Bodies, next : Int, ok : Int, skipped : Int, failed : Int]
Worker1 == [phase : {"none", "hash", "check", "send", "init", "part", "complete", "record",
                     "over"},
            sha : Bodies \cup {Gone}, parts : Nat, size : Nat, out : {"none", "ok", "failed"}]
Ledger1 == [seen : SUBSET Bodies, dirty : Int, disk : SUBSET Bodies]
Store1  == [bodies : SUBSET Bodies, parts : [Files -> Seq(Pieces)]]

(* What a goroutine knows of its file, as long as nobody changes files:    *)
(* the parts it has sent are the first pieces of the file, and a body it   *)
(* is about to record as uploaded is on the server.                        *)
WorkerOK(p) ==
  LET w == worker[p] IN
  /\ w.phase \notin {"none", "over", "hash"} => w.sha = local[p]
  /\ w.phase = "part" =>
       /\ w.size = Len(local[p]) /\ w.parts < w.size
       /\ Len(store.parts[p]) = w.parts
       /\ \A n \in 1 .. w.parts : store.parts[p][n] = local[p][n]
  /\ w.phase = "complete" => store.parts[p] = local[p]
  /\ w.phase = "record" /\ w.out = "ok" => w.sha \in store.bodies

PoolTypes == /\ local \in [Files -> Bodies] /\ pool \in Pool1 /\ worker \in [Files -> Worker1]
             /\ ledger \in Ledger1 /\ store \in Store1
Whole ==
  /\ PoolTypes
  /\ store.bodies \subseteq {local[p] : p \in Files}
  /\ pool.known \subseteq store.bodies
  /\ ledger.seen \cup ledger.disk \subseteq store.bodies
  /\ \A p \in Files : WorkerOK(p)
PoolInv == LuckOK(luck) /\ (~luck.edited => Whole)

LEMMA PoolStarts == PoolInit => PoolInv
<1> SUFFICES ASSUME PoolInit PROVE PoolInv OBVIOUS
<1>1. LuckOK(luck) BY DEF PoolInit, LuckOK
<1>2. Fresh \in Worker1 /\ Fresh.phase = "none" BY DEF Fresh, Worker1
<1>3. PoolTypes
  <2>1. << >> \in Seq(Pieces) OBVIOUS
  <2>2. store \in Store1 BY <2>1 DEF PoolInit, Store1
  <2>3. pool \in Pool1 BY DEF PoolInit, Pool1
  <2>4. ledger \in Ledger1 BY DEF PoolInit, Ledger1
  <2> QED BY <1>2, <2>2, <2>3, <2>4 DEF PoolInit, PoolTypes
<1>4. Whole BY <1>2, <1>3 DEF PoolInit, Whole, WorkerOK
<1> QED BY <1>1, <1>4 DEF PoolInv

LEMMA LuckKeeps ==
  ASSUME NEW l, LuckOK(l)
  PROVE  /\ LuckOK(Failed(l)) /\ Failed(l).edited = l.edited
         /\ \A b : LuckOK(Sent1(l, b)) /\ Sent1(l, b).edited = l.edited
<1>1. LuckOK(Failed(l)) /\ Failed(l).edited = l.edited BY DEF Failed, LuckOK
<1>2. ASSUME NEW b PROVE LuckOK(Sent1(l, b)) /\ Sent1(l, b).edited = l.edited
  BY DEF Sent1, LuckOK
<1> QED BY <1>1, <1>2

(* Nobody takes an edit back.                                              *)
LEMMA EditsStay ==
  ASSUME LuckOK(luck), [PoolNext]_poolVars
  PROVE  LuckOK(luck)' /\ (luck.edited => luck'.edited)
<1>1. CASE \E p \in Files : Edit(p) BY <1>1 DEF Edit, LuckOK
<1>2. CASE KillPool BY <1>2 DEF KillPool, LuckOK
<1>3. CASE \E force, same \in BOOLEAN : Begin(force, same)
  BY <1>3 DEF Begin, LuckOK
<1>4. CASE UNCHANGED luck BY <1>4 DEF LuckOK
<1>5. CASE luck' = Failed(luck) BY <1>5, LuckKeeps DEF LuckOK
<1>6. CASE \E p \in Files : \E body : \E from \in {"send", "complete"} : Upload(p, body, from)
  <2>1. PICK p \in Files : \E body : \E from \in {"send", "complete"} : Upload(p, body, from)
    BY <1>6
  <2>2. PICK body : \E from \in {"send", "complete"} : Upload(p, body, from) BY <2>1
  <2>3. luck' \in {luck, Sent1(luck, body), Failed(luck), Failed(Sent1(luck, body))}
    BY <2>2 DEF Upload
  <2>4. /\ LuckOK(Sent1(luck, body)) /\ Sent1(luck, body).edited = luck.edited
        /\ LuckOK(Failed(luck)) /\ Failed(luck).edited = luck.edited
    BY LuckKeeps
  <2>5. /\ LuckOK(Failed(Sent1(luck, body)))
        /\ Failed(Sent1(luck, body)).edited = luck.edited
    BY <2>4, LuckKeeps
  <2> QED BY <2>3, <2>4, <2>5 DEF LuckOK
<1>7. CASE Spawn \/ Finish BY <1>4, <1>5, <1>7 DEF Spawn, Finish
<1>8. ASSUME NEW p \in Files,
             Hash(p) \/ Check(p) \/ ChunkInit(p) \/ ChunkPart(p) \/ Record(p)
      PROVE  luck' = luck \/ luck' = Failed(luck)
  BY <1>8 DEF Hash, Check, ChunkInit, ChunkPart, Record
<1>9. ASSUME NEW p \in Files, Send(p) \/ ChunkComplete(p)
      PROVE  \E body : \E from \in {"send", "complete"} : Upload(p, body, from)
  BY <1>9 DEF Send, ChunkComplete
<1> QED BY <1>1, <1>2, <1>3, <1>4, <1>5, <1>6, <1>7, <1>8, <1>9 DEF PoolNext, poolVars

-----------------------------------------------------------------------------
(* One goroutine goes on: the server forgets nothing, and only the parts   *)
(* of its own session may change.                                          *)
LEMMA WorkerMoves ==
  ASSUME Whole, NEW p \in Files, NEW w \in Worker1, Steps(p, w), UNCHANGED local,
         pool' \in Pool1, pool'.known = pool.known,
         store' \in Store1, store.bodies \subseteq store'.bodies,
         store'.bodies \subseteq {local[q] : q \in Files},
         \A q \in Files \ {p} : store'.parts[q] = store.parts[q],
         ledger' \in Ledger1, ledger'.seen \cup ledger'.disk \subseteq store'.bodies,
         worker'[p] = w => WorkerOK(p)'
  PROVE  Whole'
<1>1. worker' = [worker EXCEPT ![p] = w] /\ worker \in [Files -> Worker1]
  BY DEF Steps, Whole, PoolTypes
<1>2. PoolTypes' BY <1>1 DEF Whole, PoolTypes
<1>3. ASSUME NEW q \in Files PROVE WorkerOK(q)'
  <2>1. CASE q = p BY <1>1, <2>1
  <2>2. CASE q # p
    <3>1. worker'[q] = worker[q] /\ WorkerOK(q) BY <1>1, <2>2 DEF Whole
    <3> QED BY <2>2, <3>1 DEF WorkerOK
  <2> QED BY <2>1, <2>2
<1>4. pool'.known \subseteq store'.bodies BY DEF Whole
<1> QED BY <1>2, <1>3, <1>4 DEF Whole

(* The same when pool, store and ledger stay.                              *)
LEMMA WorkerGoesOn ==
  ASSUME Whole, NEW p \in Files, NEW w \in Worker1, Steps(p, w),
         UNCHANGED <<local, pool, store, ledger>>, worker'[p] = w => WorkerOK(p)'
  PROVE  Whole'
BY WorkerMoves DEF Whole, PoolTypes

LEMMA CountsKeep ==
  ASSUME Whole, NEW k \in {"ok", "skipped", "failed"}, Counted(k)
  PROVE  pool' \in Pool1 /\ pool'.known = pool.known
<1>1. pool \in Pool1 BY DEF Whole, PoolTypes
<1>2. pool' = [pool EXCEPT ![k] = @ + 1] BY DEF Counted
<1>3. CASE k = "ok" BY <1>1, <1>2, <1>3 DEF Pool1
<1>4. CASE k = "skipped" BY <1>1, <1>2, <1>4 DEF Pool1
<1>5. CASE k = "failed" BY <1>1, <1>2, <1>5 DEF Pool1
<1> QED BY <1>3, <1>4, <1>5

(* What the ledger holds after it is saved and after a body is added.      *)
LEMMA SaveKeeps ==
  ASSUME NEW l \in Ledger1, NEW S, l.seen \cup l.disk \subseteq S
  PROVE  Saved1(l) \in Ledger1 /\ Saved1(l).seen \cup Saved1(l).disk \subseteq S
<1> DEFINE m == [l EXCEPT !.disk = l.seen]
<1>1. m = [seen |-> l.seen, dirty |-> l.dirty, disk |-> l.seen] BY DEF Ledger1
<1>2. Saved1(l) = [m EXCEPT !.dirty = 0] BY DEF Saved1
<1> HIDE DEF m
<1>3. Saved1(l) = [seen |-> l.seen, dirty |-> 0, disk |-> l.seen] BY <1>1, <1>2
<1> QED BY <1>3 DEF Ledger1

LEMMA LedgerKeeps ==
  ASSUME Whole, NEW sha \in store.bodies
  PROVE  /\ Added(sha) \in Ledger1 /\ Checkpointed(Added(sha)) \in Ledger1
         /\ \A l \in {Added(sha), Checkpointed(Added(sha))} :
              l.seen \cup l.disk \subseteq store.bodies
<1>1. ledger \in Ledger1 /\ sha \in Bodies BY DEF Whole, PoolTypes, Store1
<1>2. ledger.seen \cup ledger.disk \subseteq store.bodies BY DEF Whole
<1> DEFINE n == ledger.dirty + (IF Has(sha) THEN 0 ELSE 1)
           l == Added(sha)
<1>3. n \in Int
  <2>1. ledger.dirty \in Int BY <1>1 DEF Ledger1
  <2>2. CASE Has(sha) BY <2>1, <2>2
  <2>3. CASE ~Has(sha) BY <2>1, <2>3
  <2> QED BY <2>2, <2>3
<1>4. l = [[ledger EXCEPT !.seen = @ \cup {sha}] EXCEPT !.dirty = n]
  BY <1>1 DEF Added, Ledger1
<1> HIDE DEF n
<1>5. l = [seen |-> ledger.seen \cup {sha}, dirty |-> n, disk |-> ledger.disk]
  BY <1>1, <1>4 DEF Ledger1
<1>6. l \in Ledger1 /\ l.seen \cup l.disk \subseteq store.bodies
  BY <1>1, <1>2, <1>3, <1>5 DEF Ledger1
<1> HIDE DEF l
<1>7. /\ Checkpointed(l) \in Ledger1
      /\ Checkpointed(l).seen \cup Checkpointed(l).disk \subseteq store.bodies
  BY <1>6, SaveKeeps DEF Checkpointed
<1> QED BY <1>6, <1>7 DEF l

(* A request with a whole body.                                            *)
LEMMA UploadKeeps ==
  ASSUME Whole, NEW p \in Files, NEW from \in {"send", "complete"},
         Upload(p, local[p], from)
  PROVE  Whole'
<1> DEFINE w(ok) == [worker[p] EXCEPT !.phase = "record", !.out = IF ok THEN "ok" ELSE "failed",
                                      !.parts = 0, !.size = 0]
<1>1. PICK ok, done \in BOOLEAN :
        /\ ok => done
        /\ store' = IF done THEN Took(p, local[p]) ELSE store
        /\ Steps(p, w(ok))
  BY DEF Upload
<1>2. worker[p].phase = from /\ UNCHANGED <<local, pool, ledger>> BY DEF Upload
<1>3. /\ worker[p] \in Worker1 /\ worker[p].sha = local[p] /\ local[p] \in Bodies
      /\ store \in Store1 /\ pool \in Pool1 /\ ledger \in Ledger1
  BY <1>2 DEF Whole, PoolTypes, WorkerOK
<1>4. /\ w(ok) \in Worker1 /\ w(ok).phase = "record" /\ w(ok).sha = local[p]
      /\ w(ok).out = "ok" => ok
  BY <1>3 DEF Worker1
<1>5. /\ store' \in Store1 /\ store'.bodies \in {store.bodies, store.bodies \cup {local[p]}}
      /\ done => local[p] \in store'.bodies
      /\ \A q \in Files \ {p} : store'.parts[q] = store.parts[q]
  <2>1. CASE ~done BY <1>1, <1>3, <2>1
  <2>2. CASE done
    <3>1. store' = [[store EXCEPT !.bodies = @ \cup {local[p]}]
                           EXCEPT !.parts = [store.parts EXCEPT ![p] = << >>]]
      BY <1>1, <1>3, <2>2 DEF Took, Store1
    <3>2. [store.parts EXCEPT ![p] = << >>] \in [Files -> Seq(Pieces)]
      BY <1>3 DEF Store1
    <3>3. \A q \in Files \ {p} : [store.parts EXCEPT ![p] = << >>][q] = store.parts[q]
      BY <1>3 DEF Store1
    <3> QED BY <1>3, <3>1, <3>2, <3>3 DEF Store1
  <2> QED BY <2>1, <2>2
<1> DEFINE v == w(ok)
<1>6. v \in Worker1 /\ Steps(p, v) BY <1>1, <1>4
<1>7. worker'[p] = v => WorkerOK(p)'
  BY <1>1, <1>2, <1>4, <1>5 DEF WorkerOK
<1> HIDE DEF v
<1> QED BY <1>2, <1>3, <1>5, <1>6, <1>7, WorkerMoves DEF Whole

(* What is left when the server drops the parts of one session.            *)
LEMMA EmptyParts ==
  ASSUME store \in Store1, NEW p \in Files, NEW t, t = [store EXCEPT !.parts[p] = << >>]
  PROVE  /\ t \in Store1 /\ t.bodies = store.bodies /\ t.parts[p] = << >>
         /\ \A q \in Files \ {p} : t.parts[q] = store.parts[q]
<1> DEFINE r == [store.parts EXCEPT ![p] = << >>]
<1>1. t = [store EXCEPT !.parts = r] BY DEF Store1
<1>2. << >> \in Seq(Pieces) OBVIOUS
<1>3. /\ r \in [Files -> Seq(Pieces)] /\ r[p] = << >>
      /\ \A q \in Files \ {p} : r[q] = store.parts[q]
  BY <1>2 DEF Store1
<1> HIDE DEF r
<1> QED BY <1>1, <1>3 DEF Store1

(* A part of a chunked upload, answered or not.                            *)
LEMMA PartKeeps ==
  ASSUME Whole, NEW p \in Files, ChunkPart(p)
  PROVE  Whole'
<1> DEFINE w == worker[p]
<1>1. /\ w \in Worker1 /\ w.phase = "part" /\ w.size = Len(local[p]) /\ w.parts < w.size
      /\ Len(store.parts[p]) = w.parts /\ w.parts \in Nat
      /\ \A n \in 1 .. w.parts : store.parts[p][n] = local[p][n]
      /\ w.sha = local[p] /\ UNCHANGED <<local, pool, ledger>>
  BY DEF ChunkPart, Whole, PoolTypes, WorkerOK, Worker1
<1>2. /\ store \in Store1 /\ pool \in Pool1 /\ ledger \in Ledger1
      /\ store.parts[p] \in Seq(Pieces) /\ local[p] \in Bodies
  BY DEF Whole, PoolTypes, Store1
<1>3. local[p] \in Seq(Pieces)
  <2>1. local[p] \in Seq({local[p][n] : n \in DOMAIN local[p]}) BY <1>2, BodiesAssumption
  <2>2. {local[p][n] : n \in DOMAIN local[p]} \subseteq Pieces BY <1>2 DEF Pieces
  <2> DEFINE R == {local[p][n] : n \in DOMAIN local[p]}
  <2>3. local[p] \in Seq(R) /\ R \subseteq Pieces BY <2>1, <2>2
  <2> HIDE DEF R
  <2> QED BY <2>3
<1> DEFINE x == Piece(p, w.parts + 1)
           s == Append(store.parts[p], x)
<1>4. x = local[p][w.parts + 1] /\ x \in Pieces
  BY <1>1, <1>3 DEF Piece
<1> HIDE DEF x
<1>5. /\ s \in Seq(Pieces) /\ Len(s) = w.parts + 1
      /\ \A n \in 1 .. w.parts + 1 : s[n] = local[p][n]
  BY <1>1, <1>2, <1>4
<1> HIDE DEF s
<1>6. CASE store' = [store EXCEPT !.parts[p] = Append(@, Piece(p, w.parts + 1))]
           /\ Steps(p, AfterPart(w))
  <2> DEFINE r == [store.parts EXCEPT ![p] = s]
             v == AfterPart(w)
  <2>1. store' = [store EXCEPT !.parts = r] BY <1>2, <1>6 DEF Store1, s, x
  <2>2. /\ r \in [Files -> Seq(Pieces)] /\ r[p] = s
        /\ \A q \in Files \ {p} : r[q] = store.parts[q]
    BY <1>2, <1>5 DEF Store1
  <2> HIDE DEF r
  <2>3. store' \in Store1 /\ store'.bodies = store.bodies /\ store'.parts = r
    BY <1>2, <2>1, <2>2 DEF Store1
  <2> DEFINE f == IF w.parts + 1 = w.size THEN "complete" ELSE "part"
  <2>4. f \in {"complete", "part"} /\ (f = "complete" <=> w.parts + 1 = w.size)
    OBVIOUS
  <2>5. v = [w EXCEPT !.parts = @ + 1, !.phase = f] BY DEF AfterPart
  <2> HIDE DEF f, v
  <2> DEFINE u == [w EXCEPT !.parts = @ + 1]
  <2>6. /\ u \in Worker1 /\ u.parts = w.parts + 1 /\ u.size = w.size /\ u.sha = w.sha
    BY <1>1 DEF Worker1
  <2>7. v = [u EXCEPT !.phase = f] BY <2>5
  <2> HIDE DEF u
  <2>8. /\ v \in Worker1 /\ v.phase = f /\ v.parts = w.parts + 1 /\ v.size = w.size
        /\ v.sha = w.sha
    BY <2>4, <2>6, <2>7 DEF Worker1
  <2>9. worker'[p] = v => WorkerOK(p)'
    <3> SUFFICES ASSUME worker'[p] = v PROVE WorkerOK(p)' OBVIOUS
    <3>1. CASE f = "complete"
      <4>1. Len(s) = Len(local[p]) BY <1>1, <1>5, <2>4, <3>1
      <4>2. \A n \in 1 .. Len(local[p]) : s[n] = local[p][n]
        BY <1>1, <1>5, <2>4, <3>1
      <4>3. s = local[p] BY <1>3, <1>5, <4>1, <4>2, SeqEqual
      <4> QED BY <1>1, <2>2, <2>3, <2>8, <3>1, <4>3 DEF WorkerOK
    <3>2. CASE f = "part"
      <4>1. w.parts + 1 < w.size BY <1>1, <1>3, <2>4, <3>2
      <4> QED BY <1>1, <1>5, <2>2, <2>3, <2>8, <3>2, <4>1 DEF WorkerOK
    <3> QED BY <2>4, <3>1, <3>2
  <2>10. Steps(p, v) BY <1>6 DEF v
  <2> QED BY <1>1, <1>2, <2>2, <2>3, <2>8, <2>9, <2>10, WorkerMoves DEF Whole
<1>7. CASE store' = [store EXCEPT !.parts[p] = << >>] /\ Steps(p, GivesUp(w))
  <2> DEFINE v == GivesUp(w)
  <2>1. v \in Worker1 /\ v.phase = "record" /\ v.out = "failed" /\ v.sha = w.sha
    BY <1>1 DEF GivesUp, Worker1
  <2>2. worker'[p] = v => WorkerOK(p)' BY <1>1, <2>1 DEF WorkerOK
  <2>3. /\ store' \in Store1 /\ store'.bodies = store.bodies
        /\ \A q \in Files \ {p} : store'.parts[q] = store.parts[q]
    BY <1>2, <1>7, EmptyParts
  <2>4. Steps(p, v) BY <1>7
  <2> HIDE DEF v
  <2> QED BY <1>1, <1>2, <2>1, <2>2, <2>3, <2>4, WorkerMoves DEF Whole
<1> QED BY <1>6, <1>7 DEF ChunkPart

LEMMA InitKeeps ==
  ASSUME Whole, NEW p \in Files, ChunkInit(p)
  PROVE  Whole'
<1> DEFINE w == worker[p]
<1>1. /\ w \in Worker1 /\ w.phase = "init" /\ w.sha = local[p]
      /\ UNCHANGED <<local, pool, ledger>>
  BY DEF ChunkInit, Whole, PoolTypes, WorkerOK
<1>2. store \in Store1 /\ pool \in Pool1 /\ ledger \in Ledger1 /\ local[p] \in Bodies
  BY DEF Whole, PoolTypes
<1>3. Len(local[p]) \in Nat /\ (local[p] # Gone => Len(local[p]) > 0)
  <2> DEFINE R == {local[p][n] : n \in DOMAIN local[p]}
  <2>1. local[p] \in Seq(R) BY <1>2, BodiesAssumption
  <2> HIDE DEF R
  <2> QED BY <2>1, EmptySeq DEF Gone
<1>4. CASE /\ local[p] # Gone
           /\ Steps(p, [w EXCEPT !.phase = "part", !.size = Len(local[p]), !.parts = 0])
           /\ store' = [store EXCEPT !.parts[p] = << >>]
  <2> DEFINE v == [w EXCEPT !.phase = "part", !.size = Len(local[p]), !.parts = 0]
  <2>1. /\ v \in Worker1 /\ v.phase = "part" /\ v.size = Len(local[p]) /\ v.parts = 0
        /\ v.sha = w.sha
    BY <1>1, <1>3 DEF Worker1
  <2>2. /\ store' \in Store1 /\ store'.bodies = store.bodies /\ store'.parts[p] = << >>
        /\ \A q \in Files \ {p} : store'.parts[q] = store.parts[q]
    BY <1>2, <1>4, EmptyParts
  <2>3. Steps(p, v) BY <1>4
  <2> HIDE DEF v
  <2>4. worker'[p] = v => WorkerOK(p)' BY <1>1, <1>3, <1>4, <2>1, <2>2 DEF WorkerOK
  <2> QED BY <1>1, <1>2, <2>1, <2>2, <2>3, <2>4, WorkerMoves DEF Whole
<1>5. CASE Steps(p, [w EXCEPT !.phase = "record", !.out = "failed"]) /\ UNCHANGED store
  <2> DEFINE v == [w EXCEPT !.phase = "record", !.out = "failed"]
  <2>1. v \in Worker1 /\ v.phase = "record" /\ v.out = "failed" /\ v.sha = w.sha
    BY <1>1 DEF Worker1
  <2>2. worker'[p] = v => WorkerOK(p)' BY <1>1, <2>1 DEF WorkerOK
  <2>3. Steps(p, v) BY <1>5
  <2> HIDE DEF v
  <2> QED BY <1>1, <1>5, <2>1, <2>2, <2>3, WorkerGoesOn
<1> QED BY <1>4, <1>5 DEF ChunkInit

(* A goroutine is over: it knows nothing any more.                         *)
LEMMA OverIsFine ==
  Done1 \in Worker1 /\ Done1.phase = "over" /\ Fresh \in Worker1 /\ Fresh.phase = "none"
BY DEF Done1, Fresh, Worker1

LEMMA CheckKeeps ==
  ASSUME Whole, NEW p \in Files, Check(p)
  PROVE  Whole'
<1> DEFINE w == worker[p]
<1>1. /\ w \in Worker1 /\ w.phase = "check" /\ w.sha = local[p]
      /\ UNCHANGED <<local, store>>
  BY DEF Check, Whole, PoolTypes, WorkerOK
<1>2. /\ store \in Store1 /\ pool \in Pool1 /\ ledger \in Ledger1
      /\ ledger.seen \cup ledger.disk \subseteq store.bodies
      /\ store.bodies \subseteq {local[q] : q \in Files}
  BY DEF Whole, PoolTypes
<1>3. CASE Skips(w.sha)
  <2>1. w.sha \in store.bodies BY <1>3 DEF Skips, Has, Whole
  <2>2. Counted("skipped") /\ ledger' \in {ledger, Added(w.sha)} /\ Steps(p, Done1)
    BY <1>3 DEF Check
  <2>3. ledger' \in Ledger1 /\ ledger'.seen \cup ledger'.disk \subseteq store.bodies
    BY <1>2, <2>1, <2>2, LedgerKeeps
  <2>4. pool' \in Pool1 /\ pool'.known = pool.known BY <2>2, CountsKeep
  <2>5. worker'[p] = Done1 => WorkerOK(p)' BY OverIsFine DEF WorkerOK
  <2> QED BY <1>1, <1>2, <2>2, <2>3, <2>4, <2>5, OverIsFine, WorkerMoves
<1>4. CASE ~Skips(w.sha)
  <2> DEFINE f == IF ~pool.gallery /\ Len(local[p]) > Large THEN "init" ELSE "send"
             v == [w EXCEPT !.phase = f]
  <2>1. f \in {"init", "send"} OBVIOUS
  <2>2. Steps(p, v) /\ UNCHANGED <<pool, ledger>> BY <1>4 DEF Check
  <2> HIDE DEF f
  <2>3. v \in Worker1 /\ v.phase = f /\ v.sha = w.sha BY <1>1, <2>1 DEF Worker1
  <2> HIDE DEF v
  <2>4. worker'[p] = v => WorkerOK(p)' BY <1>1, <2>1, <2>3 DEF WorkerOK
  <2> QED BY <1>1, <2>2, <2>3, <2>4, WorkerGoesOn
<1> QED BY <1>3, <1>4

LEMMA RecordKeeps ==
  ASSUME Whole, NEW p \in Files, Record(p)
  PROVE  Whole'
<1> DEFINE w == worker[p]
<1>1. /\ w.phase = "record" /\ UNCHANGED <<local, store>> /\ Steps(p, Done1)
      /\ w.out = "ok" => w.sha \in store.bodies
  BY DEF Record, Whole, WorkerOK
<1>2. /\ store \in Store1 /\ ledger \in Ledger1
      /\ ledger.seen \cup ledger.disk \subseteq store.bodies
      /\ store.bodies \subseteq {local[q] : q \in Files}
  BY DEF Whole, PoolTypes
<1>3. ledger' \in Ledger1 /\ ledger'.seen \cup ledger'.disk \subseteq store.bodies
  <2>1. CASE w.out = "ok" /\ w.sha # Gone
    <3>1. ledger' = Checkpointed(Added(w.sha)) BY <2>1 DEF Record
    <3> QED BY <1>1, <2>1, <3>1, LedgerKeeps
  <2>2. CASE ~(w.out = "ok" /\ w.sha # Gone) BY <1>2, <2>2 DEF Record
  <2> QED BY <2>1, <2>2
<1>4. pool' \in Pool1 /\ pool'.known = pool.known
  <2>1. PICK k \in {"ok", "skipped", "failed"} : Counted(k) BY DEF Record
  <2> QED BY <2>1, CountsKeep
<1>5. worker'[p] = Done1 => WorkerOK(p)' BY OverIsFine DEF WorkerOK
<1> QED BY <1>1, <1>2, <1>3, <1>4, <1>5, OverIsFine, WorkerMoves

LEMMA HashKeeps ==
  ASSUME Whole, NEW p \in Files, Hash(p)
  PROVE  Whole'
<1> DEFINE v == [worker[p] EXCEPT !.phase = "check", !.sha = local[p]]
<1>1. worker[p] \in Worker1 /\ local[p] \in Bodies BY DEF Whole, PoolTypes
<1>2. v \in Worker1 /\ v.phase = "check" /\ v.sha = local[p] BY <1>1 DEF Worker1
<1>3. Steps(p, v) /\ UNCHANGED <<local, pool, store, ledger>> BY DEF Hash
<1> HIDE DEF v
<1>4. worker'[p] = v => WorkerOK(p)' BY <1>2, <1>3 DEF WorkerOK
<1> QED BY <1>2, <1>3, <1>4, WorkerGoesOn

(* The steps of the pool itself.                                           *)
LEMMA SpawnKeeps ==
  ASSUME Whole, Spawn
  PROVE  Whole'
<1> DEFINE p == Args[pool.next]
           missing == local[p] = Gone /\ ~pool.gallery
           f == IF missing THEN "over" ELSE "hash"
           c == pool.failed + (IF missing THEN 1 ELSE 0)
           v == [Fresh EXCEPT !.phase = f]
<1>1. /\ pool' = [pool EXCEPT !.next = @ + 1, !.failed = c] /\ Steps(p, v)
      /\ UNCHANGED <<local, store, ledger>>
  BY DEF Spawn, Whole, PoolTypes, Pool1
<1>2. pool \in Pool1 /\ worker \in [Files -> Worker1] BY DEF Whole, PoolTypes
<1>3. c \in Int /\ f \in {"over", "hash"}
  <2>1. pool.failed \in Int BY <1>2 DEF Pool1
  <2>2. CASE missing BY <2>1, <2>2
  <2>3. CASE ~missing BY <2>1, <2>3
  <2> QED BY <2>2, <2>3
<1> HIDE DEF f, c, missing
<1>4. v \in Worker1 /\ v.phase = f BY <1>3 DEF Fresh, Worker1, Gone
<1>5. pool' \in Pool1 /\ pool'.known = pool.known
  <2> DEFINE m == [pool EXCEPT !.next = @ + 1]
  <2>1. m \in Pool1 /\ m.known = pool.known BY <1>2 DEF Pool1
  <2>2. pool' = [m EXCEPT !.failed = c] BY <1>1
  <2> HIDE DEF m
  <2> QED BY <1>3, <2>1, <2>2 DEF Pool1
<1> HIDE DEF p, v
<1>6. \A q \in Files : worker'[q] \in {worker[q], v} BY <1>1, <1>2 DEF Steps
<1>7. worker' \in [Files -> Worker1] BY <1>1, <1>2, <1>4 DEF Steps
<1>8. \A q \in Files : WorkerOK(q)'
  BY <1>1, <1>3, <1>4, <1>6 DEF WorkerOK, Whole
<1> QED BY <1>1, <1>5, <1>7, <1>8 DEF Whole, PoolTypes

LEMMA ManyKeep ==
  ASSUME Whole, UNCHANGED <<local, store>>, worker' \in {worker, [p \in Files |-> Fresh]},
         pool' \in Pool1, pool'.known \subseteq store.bodies,
         ledger' \in Ledger1, ledger'.seen \cup ledger'.disk \subseteq store.bodies
  PROVE  Whole'
<1>1. worker' \in [Files -> Worker1] BY OverIsFine DEF Whole, PoolTypes
<1>2. ASSUME NEW p \in Files PROVE WorkerOK(p)'
  <2>1. worker'[p] \in {worker[p], Fresh} OBVIOUS
  <2> QED BY <2>1, OverIsFine DEF WorkerOK, Whole
<1> QED BY <1>1, <1>2 DEF Whole, PoolTypes

LEMMA PoolStepsKeep ==
  ASSUME Whole,
         KillPool \/ Finish \/ \E force, same \in BOOLEAN : Begin(force, same)
  PROVE  Whole'
<1>1. /\ pool \in Pool1 /\ ledger \in Ledger1 /\ store \in Store1
      /\ pool.known \subseteq store.bodies
      /\ ledger.seen \cup ledger.disk \subseteq store.bodies
  BY DEF Whole, PoolTypes
<1>2. CASE KillPool
  <2>1. pool' \in Pool1 /\ pool'.known = pool.known BY <1>1, <1>2 DEF KillPool, Pool1
  <2> QED BY <1>1, <1>2, <2>1, ManyKeep DEF KillPool
<1>3. CASE Finish
  <2>1. pool' \in Pool1 /\ pool'.known = pool.known BY <1>1, <1>3 DEF Finish, Pool1
  <2>2. ledger' \in Ledger1 /\ ledger'.seen \cup ledger'.disk \subseteq store.bodies
    BY <1>1, <1>3, SaveKeeps DEF Finish
  <2> QED BY <1>1, <1>3, <2>1, <2>2, ManyKeep DEF Finish
<1>4. ASSUME NEW force \in BOOLEAN, NEW same \in BOOLEAN,
             Begin(force, same)
      PROVE  Whole'
  <2>1. PICK known \in {{}, store.bodies} :
          pool' = [pool EXCEPT !.phase = "run", !.force = force,
                               !.known = known, !.next = 1, !.ok = 0, !.skipped = 0,
                               !.failed = 0]
    BY <1>4 DEF Begin
  <2>2. known \in SUBSET Bodies /\ known \subseteq store.bodies
    BY <1>1 DEF Store1
  <2>3. pool' \in Pool1 /\ pool'.known = known
    <3> DEFINE m == [pool EXCEPT !.phase = "run", !.force = force]
               n == [m EXCEPT !.known = known]
               k == [n EXCEPT !.next = 1]
               o == [k EXCEPT !.ok = 0]
               s == [o EXCEPT !.skipped = 0]
    <3>1. m \in Pool1 BY <1>1 DEF Pool1
    <3>2. pool' = [s EXCEPT !.failed = 0] BY <2>1
    <3> HIDE DEF m
    <3>3. n \in Pool1 /\ n.known = known BY <2>2, <3>1 DEF Pool1
    <3> HIDE DEF n
    <3>4. k \in Pool1 /\ k.known = known BY <3>3 DEF Pool1
    <3> HIDE DEF k
    <3>5. o \in Pool1 /\ o.known = known BY <3>4 DEF Pool1
    <3> HIDE DEF o
    <3>6. s \in Pool1 /\ s.known = known BY <3>5 DEF Pool1
    <3> HIDE DEF s
    <3> QED BY <3>2, <3>6 DEF Pool1
  <2> DEFINE r == IF same THEN ledger.disk ELSE {}
  <2>4. r \subseteq ledger.disk OBVIOUS
  <2>5. ledger' = [ledger EXCEPT !.seen = r, !.dirty = 0] BY <1>4 DEF Begin, Opened
  <2> HIDE DEF r
  <2>6. ledger' \in Ledger1 /\ ledger'.seen = r /\ ledger'.disk = ledger.disk
    <3> DEFINE m == [ledger EXCEPT !.seen = r]
    <3>1. r \in SUBSET Bodies BY <1>1, <2>4 DEF Ledger1
    <3>2. m \in Ledger1 /\ m.seen = r /\ m.disk = ledger.disk BY <1>1, <3>1 DEF Ledger1
    <3>3. ledger' = [m EXCEPT !.dirty = 0] BY <2>5
    <3> HIDE DEF m
    <3> QED BY <3>2, <3>3 DEF Ledger1
  <2>7. ledger'.seen \cup ledger'.disk \subseteq store.bodies BY <1>1, <2>4, <2>6
  <2>8. UNCHANGED <<local, store>> /\ worker' = [p \in Files |-> Fresh]
    BY <1>4 DEF Begin
  <2> QED BY <2>2, <2>3, <2>6, <2>7, <2>8, ManyKeep
<1> QED BY <1>2, <1>3, <1>4

-----------------------------------------------------------------------------
LEMMA PoolKeeps ==
  ASSUME PoolInv, [PoolNext]_poolVars
  PROVE  PoolInv'
<1>1. LuckOK(luck)' /\ (luck.edited => luck'.edited) BY EditsStay DEF PoolInv
<1>2. ASSUME ~luck'.edited PROVE Whole'
  <2>1. Whole BY <1>1, <1>2 DEF PoolInv
  <2>2. CASE \E force, same \in BOOLEAN : Begin(force, same)
    BY <2>1, <2>2, PoolStepsKeep
  <2>3. CASE Finish \/ KillPool BY <2>1, <2>3, PoolStepsKeep
  <2>4. CASE Spawn BY <2>1, <2>4, SpawnKeeps
  <2>5. ASSUME NEW p \in Files, Hash(p) \/ Check(p) \/ ChunkInit(p) \/ ChunkPart(p) \/ Record(p)
        PROVE  Whole'
    BY <2>1, <2>5, HashKeeps, CheckKeeps, InitKeeps, PartKeeps, RecordKeeps
  <2>6. ASSUME NEW p \in Files, Send(p) PROVE Whole'
    BY <2>1, <2>6, UploadKeeps DEF Send
  <2>7. ASSUME NEW p \in Files, ChunkComplete(p) PROVE Whole'
    <3>1. worker[p].phase = "complete" BY <2>7 DEF ChunkComplete, Upload
    <3>2. store.parts[p] = local[p] BY <2>1, <3>1 DEF Whole, WorkerOK
    <3> QED BY <2>1, <2>7, <3>2, UploadKeeps DEF ChunkComplete
  <2>8. ASSUME NEW p \in Files, Edit(p) PROVE FALSE
    BY <1>2, <2>8 DEF Edit, PoolInv, LuckOK
  <2>9. CASE UNCHANGED poolVars
    BY <2>1, <2>9 DEF poolVars, Whole, PoolTypes, WorkerOK
  <2> QED BY <2>2, <2>3, <2>4, <2>5, <2>6, <2>7, <2>8, <2>9 DEF PoolNext
<1> QED BY <1>1, <1>2 DEF PoolInv

(* While no file is changed under a command, whatever the ledger holds, in *)
(* memory or in its file, the server has accepted: saves, checkpoints,     *)
(* kills, failed requests and new runs included.                           *)
THEOREM LedgerNeverLies == PoolSpec => []LedgerIsTrue
<1>1. PoolInv => LedgerIsTrue BY DEF PoolInv, Whole, LedgerIsTrue
<1> QED BY <1>1, PoolStarts, PoolKeeps, PTL DEF PoolSpec

(* While no file is changed under a command, a body the server assembled   *)
(* is a file as a whole.                                                   *)
THEOREM NoHoles == PoolSpec => []AssembledIsWhole
<1>1. PoolInv => AssembledIsWhole BY DEF PoolInv, Whole, AssembledIsWhole
<1> QED BY <1>1, PoolStarts, PoolKeeps, PTL DEF PoolSpec

-----------------------------------------------------------------------------
(* Whatever happens to the files: the counts, the slots and the types.     *)
PoolT   == [phase : {"off", "run", "over", "killed"}, gallery : BOOLEAN, force : BOOLEAN,
            known : SUBSET Seq(Pieces), next : 1 .. Len(Args) + 1, ok : Nat, skipped : Nat,
            failed : Nat]
WorkerT == {w \in Worker1 : /\ w.parts <= w.size
                            /\ w.phase = "part" => w.parts < w.size}
LedgerT == {l \in [seen : SUBSET Bodies, dirty : Nat, disk : SUBSET Bodies] :
              /\ IsFiniteSet(l.seen) /\ IsFiniteSet(l.disk)
              /\ l.dirty <= Cardinality(l.seen)}
StoreT  == [bodies : SUBSET Seq(Pieces), parts : [Files -> Seq(Pieces)]]
Typed ==
  /\ local \in [Files -> Bodies \cup {Gone}] /\ pool \in PoolT
  /\ worker \in [Files -> WorkerT] /\ ledger \in LedgerT /\ store \in StoreT

Counted1 == {"ok", "skipped", "failed"}

(* Every argument that was handed to a goroutine is counted or is being    *)
(* worked on; the others have not begun.                                   *)
Sum     == pool.ok + pool.skipped + pool.failed
Counts1 ==
  /\ pool.phase = "run" =>
       /\ Sum + Cardinality(Running) = pool.next - 1
       /\ \A m \in pool.next .. Len(Args) : worker[Args[m]].phase = "none"
  /\ pool.phase = "over" => Sum = Len(Args)
Tally   == Typed /\ Counts1 /\ Cardinality(Running) <= Jobs

LEMMA ArgsAreFiles ==
  /\ Args \in Seq(Files) /\ Len(Args) \in Nat /\ IsFiniteSet(Files)
  /\ \A n \in 1 .. Len(Args) : Args[n] \in Files
  /\ \A m, n \in 1 .. Len(Args) : Args[m] = Args[n] => m = n
<1>1. Args \in Seq(Files)
  BY ArgsAssumption DEF Files
<1>2. \A p \in Files : \E n \in 1 .. Len(Args) : Args[n] = p
  BY <1>1 DEF Files
<1>3. Len(Args) \in Nat /\ DOMAIN Args = 1 .. Len(Args)
  BY <1>1
<1>4. IsFiniteSet(Files)
  BY <1>1, <1>2 DEF IsFiniteSet
<1>5. \A n \in 1 .. Len(Args) : Args[n] \in Files
  BY <1>3 DEF Files
<1>6. \A m, n \in 1 .. Len(Args) : Args[m] = Args[n] => m = n
  BY <1>3, ArgsAssumption
<1> QED
  BY <1>1, <1>3, <1>4, <1>5, <1>6

LEMMA RunningIsFinite ==
  IsFiniteSet(Running) /\ Cardinality(Running) \in Nat
BY ArgsAreFiles, FS_Subset, FS_CardinalityType DEF Running

LEMMA FilesArePieces ==
  ASSUME Typed, NEW p \in Files
  PROVE  local[p] \in Seq(Pieces) /\ Len(local[p]) \in Nat
         /\ (local[p] # Gone => Len(local[p]) > 0)
<1>1. CASE local[p] = Gone
  BY <1>1 DEF Gone
<1>2. CASE local[p] \in Bodies
  <2> DEFINE R == {local[p][n] : n \in DOMAIN local[p]}
  <2>1. local[p] \in Seq(R) /\ R \subseteq Pieces
    BY <1>2, BodiesAssumption DEF Pieces
  <2> HIDE DEF R
  <2> QED
    BY <2>1, EmptySeq DEF Gone
<1> QED
  BY <1>1, <1>2 DEF Typed

LEMMA FreshIsTyped ==
  /\ Fresh \in WorkerT /\ Fresh.phase = "none"
  /\ Done1 \in WorkerT /\ Done1.phase = "over"
BY DEF Fresh, Done1, WorkerT, Worker1

LEMMA TallyStarts == PoolInit => Tally
<1> SUFFICES ASSUME PoolInit PROVE Tally
  OBVIOUS
<1>1. Running = {}
  BY FreshIsTyped DEF PoolInit, Running
<1>2. pool \in PoolT /\ pool.phase = "off"
  BY ArgsAreFiles DEF PoolInit, PoolT
<1>3. ledger \in LedgerT
  <2>1. IsFiniteSet({}) /\ Cardinality({}) = 0
    BY FS_EmptySet
  <2>2. ledger = [seen |-> {}, dirty |-> 0, disk |-> {}]
    BY DEF PoolInit
  <2> QED
    BY <2>1, <2>2 DEF LedgerT
<1>4. store \in StoreT
  <2>1. << >> \in Seq(Pieces)
    OBVIOUS
  <2> QED
    BY <2>1 DEF PoolInit, StoreT
<1>5. Typed
  BY <1>2, <1>3, <1>4, FreshIsTyped DEF PoolInit, Typed
<1> QED
  BY <1>1, <1>2, <1>5, FS_EmptySet, JobsAssumption DEF Tally, Counts1

(* What the ledger is after a body is added and after it is saved.         *)
LEMMA SavedIsTyped == ASSUME NEW l \in LedgerT PROVE Saved1(l) \in LedgerT
<1> DEFINE m == [l EXCEPT !.disk = l.seen]
<1>1. m = [seen |-> l.seen, dirty |-> l.dirty, disk |-> l.seen] BY DEF LedgerT
<1>2. Saved1(l) = [m EXCEPT !.dirty = 0] BY DEF Saved1
<1> HIDE DEF m
<1>3. Saved1(l) = [seen |-> l.seen, dirty |-> 0, disk |-> l.seen] BY <1>1, <1>2
<1> QED BY <1>3, FS_CardinalityType DEF LedgerT

LEMMA AddedIsTyped ==
  ASSUME ledger \in LedgerT, NEW sha \in Bodies
  PROVE  Added(sha) \in LedgerT /\ Checkpointed(Added(sha)) \in LedgerT
<1> DEFINE n == ledger.dirty + (IF Has(sha) THEN 0 ELSE 1)
           s == ledger.seen \cup {sha}
           l == Added(sha)
<1>1. l = [[ledger EXCEPT !.seen = s] EXCEPT !.dirty = n]
  BY DEF Added, LedgerT
<1>2. /\ IsFiniteSet(s) /\ Cardinality(ledger.seen) \in Nat
      /\ Cardinality(s) = IF sha \in ledger.seen THEN Cardinality(ledger.seen)
                                                 ELSE Cardinality(ledger.seen) + 1
  BY FS_AddElement, FS_CardinalityType DEF LedgerT
<1>3. n \in Nat /\ n <= Cardinality(s)
  <2>1. ledger.dirty \in Nat /\ ledger.dirty <= Cardinality(ledger.seen) BY DEF LedgerT
  <2>2. CASE Has(sha) BY <1>2, <2>1, <2>2 DEF Has
  <2>3. CASE ~Has(sha) BY <1>2, <2>1, <2>3 DEF Has
  <2> QED BY <2>2, <2>3
<1>4. s \in SUBSET Bodies BY DEF LedgerT
<1> HIDE DEF n, s
<1>5. l = [seen |-> s, dirty |-> n, disk |-> ledger.disk] BY <1>1 DEF LedgerT
<1>6. l \in LedgerT BY <1>2, <1>3, <1>4, <1>5 DEF LedgerT
<1> HIDE DEF l
<1> QED BY <1>6, SavedIsTyped DEF Checkpointed, l

(* A goroutine goes on, or comes to its end and is counted.                *)
LEMMA TallyMoves ==
  ASSUME Tally, NEW p \in Files, NEW w \in WorkerT, Steps(p, w), UNCHANGED local,
         pool.phase = "run", worker[p].phase \notin {"none", "over"}, w.phase # "none",
         pool' \in PoolT, pool'.phase = "run", pool'.next = pool.next,
         Sum' = Sum + (IF w.phase = "over" THEN 1 ELSE 0),
         ledger' \in LedgerT, store' \in StoreT
  PROVE  Tally'
<1>1. worker' = [worker EXCEPT ![p] = w] /\ worker \in [Files -> WorkerT]
  BY DEF Steps, Tally, Typed
<1>2. Typed'
  BY <1>1 DEF Tally, Typed
<1>3. pool.next \in 1 .. Len(Args) + 1 /\ Sum \in Nat
  BY DEF Tally, Typed, PoolT, Sum
<1>4. \A m \in pool.next .. Len(Args) : worker'[Args[m]].phase = "none"
  BY <1>1, <1>3, ArgsAreFiles DEF Tally, Counts1
<1>5. p \in Running
  BY DEF Running
<1>6. CASE w.phase = "over"
  <2>1. Running' = Running \ {p}
    BY <1>1, <1>6 DEF Running
  <2>2. Cardinality(Running') = Cardinality(Running) - 1
    BY <1>5, <2>1, RunningIsFinite, FS_RemoveElement
  <2> QED
    BY <1>2, <1>3, <1>4, <1>6, <2>2, RunningIsFinite, JobsAssumption
    DEF Tally, Counts1
<1>7. CASE w.phase # "over"
  <2>1. Running' = Running
    BY <1>1, <1>5, <1>7 DEF Running
  <2> QED
    BY <1>2, <1>3, <1>4, <1>7, <2>1 DEF Tally, Counts1
<1> QED
  BY <1>6, <1>7

(* The same when only the goroutine and the store change.                  *)
LEMMA TallyGoesOn ==
  ASSUME Tally, NEW p \in Files, NEW w \in WorkerT, Steps(p, w),
         UNCHANGED <<local, pool, ledger>>, store' \in StoreT,
         pool.phase = "run", worker[p].phase \notin {"none", "over"},
         w.phase \notin {"none", "over"}
  PROVE  Tally'
<1>1. Sum' = Sum + (IF w.phase = "over" THEN 1 ELSE 0) /\ pool' \in PoolT
  BY DEF Tally, Typed, PoolT, Sum
<1> QED
  BY <1>1, TallyMoves DEF Tally, Typed

LEMMA CountIsTyped ==
  ASSUME pool \in PoolT, NEW k \in Counted1, Counted(k)
  PROVE  /\ pool' \in PoolT /\ pool'.phase = pool.phase /\ pool'.next = pool.next
         /\ Sum' = Sum + 1
<1>1. pool' = [pool EXCEPT ![k] = @ + 1] BY DEF Counted
<1>2. pool.ok \in Nat /\ pool.skipped \in Nat /\ pool.failed \in Nat BY DEF PoolT
<1>3. CASE k = "ok"
  <2>1. /\ pool' \in PoolT /\ pool'.ok = pool.ok + 1
        /\ \A f \in {"phase", "next", "skipped", "failed"} : pool'[f] = pool[f]
    BY <1>1, <1>3 DEF PoolT
  <2> QED BY <1>2, <2>1 DEF Sum
<1>4. CASE k = "skipped"
  <2>1. /\ pool' \in PoolT /\ pool'.skipped = pool.skipped + 1
        /\ \A f \in {"phase", "next", "ok", "failed"} : pool'[f] = pool[f]
    BY <1>1, <1>4 DEF PoolT
  <2> QED BY <1>2, <2>1 DEF Sum
<1>5. CASE k = "failed"
  <2>1. /\ pool' \in PoolT /\ pool'.failed = pool.failed + 1
        /\ \A f \in {"phase", "next", "ok", "skipped"} : pool'[f] = pool[f]
    BY <1>1, <1>5 DEF PoolT
  <2> QED BY <1>2, <2>1 DEF Sum
<1> QED BY <1>3, <1>4, <1>5 DEF Counted1

LEMMA TallyRequests ==
  ASSUME Tally, NEW p \in Files, NEW body \in Seq(Pieces), NEW from \in {"send", "complete"},
         Upload(p, body, from)
  PROVE  Tally'
<1> DEFINE w(ok) == [worker[p] EXCEPT !.phase = "record", !.out = IF ok THEN "ok" ELSE "failed",
                                      !.parts = 0, !.size = 0]
<1>1. PICK ok, done \in BOOLEAN :
        /\ store' = IF done THEN Took(p, body) ELSE store
        /\ Steps(p, w(ok))
  BY DEF Upload
<1>2. /\ pool.phase = "run" /\ worker[p].phase = from
      /\ UNCHANGED <<local, pool, ledger>> /\ worker[p] \in WorkerT /\ store \in StoreT
  BY DEF Upload, Tally, Typed
<1>3. w(ok) \in WorkerT /\ w(ok).phase = "record"
  <2> DEFINE o == IF ok THEN "ok" ELSE "failed"
             u == [worker[p] EXCEPT !.phase = "record", !.out = o]
  <2>1. o \in {"ok", "failed"} OBVIOUS
  <2>2. w(ok) = [u EXCEPT !.parts = 0, !.size = 0] OBVIOUS
  <2> HIDE DEF o
  <2>3. u \in Worker1 /\ u.phase = "record" BY <1>2, <2>1 DEF WorkerT, Worker1
  <2> HIDE DEF u
  <2>4. /\ w(ok) \in Worker1 /\ w(ok).phase = "record" /\ w(ok).parts = 0
        /\ w(ok).size = 0
    BY <2>2, <2>3 DEF Worker1
  <2> HIDE DEF w
  <2> QED BY <2>4 DEF WorkerT
<1> HIDE DEF w
<1>4. store' \in StoreT
  <2>1. CASE ~done BY <1>1, <1>2, <2>1
  <2>2. CASE done
    <3> DEFINE r == [store.parts EXCEPT ![p] = << >>]
    <3>1. store' = [[store EXCEPT !.bodies = @ \cup {body}] EXCEPT !.parts = r]
      BY <1>1, <1>2, <2>2 DEF Took, StoreT
    <3>2. r \in [Files -> Seq(Pieces)] BY <1>2 DEF StoreT
    <3> HIDE DEF r
    <3> QED BY <1>2, <3>1, <3>2 DEF StoreT
  <2> QED BY <2>1, <2>2
<1> QED
  BY <1>1, <1>2, <1>3, <1>4, TallyGoesOn

LEMMA PartsAreTyped ==
  ASSUME store \in StoreT, NEW p \in Files, NEW s \in Seq(Pieces)
  PROVE  [store EXCEPT !.parts[p] = s] \in StoreT
<1> DEFINE r == [store.parts EXCEPT ![p] = s]
<1>1. [store EXCEPT !.parts[p] = s] = [store EXCEPT !.parts = r] BY DEF StoreT
<1>2. r \in [Files -> Seq(Pieces)] BY DEF StoreT
<1> HIDE DEF r
<1> QED BY <1>1, <1>2 DEF StoreT

LEMMA TallyWorks ==
  ASSUME Tally, NEW p \in Files,
         Hash(p) \/ Check(p) \/ ChunkInit(p) \/ ChunkPart(p) \/ Record(p)
  PROVE  Tally'
<1> DEFINE w == worker[p]
<1>1. /\ w \in WorkerT /\ pool \in PoolT /\ ledger \in LedgerT /\ store \in StoreT
      /\ local[p] \in Bodies \cup {Gone} /\ w.sha \in Bodies \cup {Gone}
  BY DEF Tally, Typed, WorkerT, Worker1
<1>2. << >> \in Seq(Pieces)
  OBVIOUS
<1>3. CASE Hash(p)
  <2> DEFINE v == [w EXCEPT !.phase = "check", !.sha = local[p]]
  <2>1. v \in WorkerT /\ v.phase = "check" BY <1>1 DEF WorkerT, Worker1
  <2> QED BY <1>1, <1>3, <2>1, TallyGoesOn DEF Hash
<1>4. CASE Check(p)
  <2>1. CASE Skips(w.sha)
    <3>1. ledger' \in {ledger, Added(w.sha)} /\ Steps(p, Done1) /\ Counted("skipped")
      BY <1>4, <2>1 DEF Check
    <3>2. w.sha \in Bodies BY <1>1, <2>1 DEF Skips
    <3>3. ledger' \in LedgerT BY <1>1, <3>1, <3>2, AddedIsTyped
    <3>4. /\ pool' \in PoolT /\ pool'.phase = pool.phase /\ pool'.next = pool.next
          /\ Sum' = Sum + 1
      BY <1>1, <3>1, CountIsTyped DEF Counted1
    <3> QED BY <1>1, <1>4, <3>1, <3>3, <3>4, FreshIsTyped, TallyMoves DEF Check
  <2>2. CASE ~Skips(w.sha)
    <3>1. PICK f \in {"init", "send"} : Steps(p, [w EXCEPT !.phase = f])
      BY <1>4, <2>2 DEF Check
    <3> DEFINE v == [w EXCEPT !.phase = f]
    <3>2. v \in WorkerT /\ v.phase = f BY <1>1 DEF WorkerT, Worker1
    <3>3. UNCHANGED <<local, pool, ledger, store>> BY <1>4, <2>2 DEF Check
    <3> QED BY <1>1, <1>4, <3>1, <3>2, <3>3, TallyGoesOn DEF Check
  <2> QED BY <2>1, <2>2
<1>5. CASE ChunkInit(p)
  <2>1. UNCHANGED <<local, pool, ledger>> /\ pool.phase = "run" /\ w.phase = "init"
    BY <1>5 DEF ChunkInit
  <2>2. CASE /\ local[p] # Gone
             /\ Steps(p, [w EXCEPT !.phase = "part", !.size = Len(local[p]), !.parts = 0])
             /\ store' = [store EXCEPT !.parts[p] = << >>]
    <3> DEFINE v == [w EXCEPT !.phase = "part", !.size = Len(local[p]), !.parts = 0]
    <3>1. Len(local[p]) \in Nat /\ Len(local[p]) > 0
      BY <2>2, FilesArePieces DEF Tally
    <3>2. v \in WorkerT /\ v.phase = "part"
      <4> DEFINE n == Len(local[p])
      <4>1. w \in Worker1 /\ n \in Nat /\ n > 0 BY <1>1, <3>1 DEF WorkerT
      <4> HIDE DEF n, w
      <4>2. [w EXCEPT !.phase = "part", !.size = n, !.parts = 0] \in WorkerT
        <5> DEFINE r == [w EXCEPT !.phase = "part", !.size = n, !.parts = 0]
        <5>1. /\ r \in Worker1 /\ r.phase = "part" /\ r.size = n /\ r.parts = 0
          BY <4>1 DEF Worker1
        <5> HIDE DEF r
        <5>2. r \in WorkerT BY <4>1, <5>1 DEF WorkerT
        <5> QED BY <5>2 DEF r
      <4> QED BY <4>1, <4>2 DEF n, w, Worker1
    <3> HIDE DEF v
    <3> QED BY <1>1, <1>2, <2>1, <2>2, <3>2, PartsAreTyped, TallyGoesOn DEF v
  <2>3. CASE Steps(p, [w EXCEPT !.phase = "record", !.out = "failed"]) /\ UNCHANGED store
    <3> DEFINE v == [w EXCEPT !.phase = "record", !.out = "failed"]
    <3>1. v \in WorkerT /\ v.phase = "record" BY <1>1 DEF WorkerT, Worker1
    <3> QED BY <1>1, <2>1, <2>3, <3>1, TallyGoesOn
  <2> QED BY <1>5, <2>2, <2>3 DEF ChunkInit
<1>6. CASE ChunkPart(p)
  <2>1. UNCHANGED <<local, pool, ledger>> /\ pool.phase = "run" /\ w.phase = "part"
    BY <1>6 DEF ChunkPart
  <2>2. CASE /\ store' = [store EXCEPT !.parts[p] = Append(@, Piece(p, w.parts + 1))]
             /\ Steps(p, AfterPart(w))
    <3> DEFINE x == Piece(p, w.parts + 1)
               s == Append(store.parts[p], x)
               v == AfterPart(w)
    <3>1. x \in Pieces
      <4>1. local[p] \in Seq(Pieces) BY FilesArePieces DEF Tally
      <4>2. w.parts + 1 \in Nat \ {0} BY <1>1 DEF WorkerT, Worker1
      <4>3. CASE w.parts + 1 <= Len(local[p])
        <5>1. local[p][w.parts + 1] \in Pieces BY <4>1, <4>2, <4>3
        <5> QED BY <4>3, <5>1 DEF Piece
      <4>4. CASE ~(w.parts + 1 <= Len(local[p])) 
        <5>1. Zeros \in Pieces BY DEF Pieces
        <5> QED BY <4>4, <5>1 DEF Piece
      <4> QED BY <4>3, <4>4
    <3>2. store.parts[p] \in Seq(Pieces) BY <1>1 DEF StoreT
    <3> HIDE DEF x
    <3>3. s \in Seq(Pieces) BY <3>1, <3>2
    <3>4. store' = [store EXCEPT !.parts[p] = s] BY <1>1, <2>2 DEF x, StoreT
    <3>5. store' \in StoreT BY <1>1, <3>3, <3>4, PartsAreTyped
    <3> DEFINE f == IF w.parts + 1 = w.size THEN "complete" ELSE "part"
    <3>6. f \in {"complete", "part"} /\ (f = "part" => w.parts + 1 # w.size) OBVIOUS
    <3>7. v = [w EXCEPT !.parts = @ + 1, !.phase = f] BY DEF AfterPart
    <3> HIDE DEF f, v
    <3>8. w.parts \in Nat /\ w.size \in Nat /\ w.parts < w.size
      BY <1>1, <2>1 DEF WorkerT, Worker1
    <3>9. v \in WorkerT /\ v.phase = f
      <4> DEFINE u == [w EXCEPT !.parts = @ + 1]
      <4>1. u \in Worker1 /\ u.parts = w.parts + 1 /\ u.size = w.size
        BY <1>1, <3>8 DEF WorkerT, Worker1
      <4>2. v = [u EXCEPT !.phase = f] BY <3>7
      <4> HIDE DEF u
      <4>3. v \in Worker1 /\ v.phase = f /\ v.parts = w.parts + 1 /\ v.size = w.size
        BY <3>6, <4>1, <4>2 DEF Worker1
      <4> QED BY <3>6, <3>8, <4>3 DEF WorkerT
    <3> QED BY <1>1, <2>1, <2>2, <3>5, <3>6, <3>9, TallyGoesOn DEF v
  <2>3. CASE /\ store' = [store EXCEPT !.parts[p] = << >>] /\ Steps(p, GivesUp(w))
    <3> DEFINE v == GivesUp(w)
    <3>1. v \in WorkerT /\ v.phase = "record" BY <1>1 DEF GivesUp, WorkerT, Worker1
    <3> HIDE DEF v
    <3> QED BY <1>1, <1>2, <2>1, <2>3, <3>1, PartsAreTyped, TallyGoesOn DEF v
  <2> QED BY <1>6, <2>2, <2>3 DEF ChunkPart
<1>7. CASE Record(p)
  <2>1. /\ UNCHANGED <<local, store>> /\ pool.phase = "run" /\ w.phase = "record"
        /\ Steps(p, Done1)
    BY <1>7 DEF Record
  <2>2. ledger' \in LedgerT
    <3>1. CASE w.out = "ok" /\ w.sha # Gone
      BY <1>1, <1>7, <3>1, AddedIsTyped DEF Record
    <3>2. CASE ~(w.out = "ok" /\ w.sha # Gone)
      BY <1>1, <1>7, <3>2 DEF Record
    <3> QED BY <3>1, <3>2
  <2>3. PICK k \in Counted1 : Counted(k) BY <1>7 DEF Record, Counted1
  <2>4. /\ pool' \in PoolT /\ pool'.phase = pool.phase /\ pool'.next = pool.next
        /\ Sum' = Sum + 1
    BY <1>1, <2>3, CountIsTyped
  <2> QED BY <1>1, <2>1, <2>2, <2>4, FreshIsTyped, TallyMoves
<1> QED
  BY <1>3, <1>4, <1>5, <1>6, <1>7

(* The steps of the pool itself.                                           *)
LEMMA TallySpawns == Tally /\ Spawn => Tally'
<1> SUFFICES ASSUME Tally, Spawn PROVE Tally'
  OBVIOUS
<1> DEFINE p == Args[pool.next]
           missing == local[p] = Gone /\ ~pool.gallery
           f == IF missing THEN "over" ELSE "hash"
           c == pool.failed + (IF missing THEN 1 ELSE 0)
           v == [Fresh EXCEPT !.phase = f]
<1>1. /\ pool.phase = "run" /\ UNCHANGED <<local, ledger, store>>
      /\ pool' = [pool EXCEPT !.next = @ + 1, !.failed = c]
      /\ worker' = [worker EXCEPT ![p] = v] /\ (missing \/ FreeSlot)
      /\ pool \in PoolT /\ worker \in [Files -> WorkerT]
      /\ pool.next \in 1 .. Len(Args) /\ Len(Args) \in Nat
  BY ArgsAreFiles DEF Spawn, Steps, Tally, Typed, PoolT
<1>2. p \in Files /\ worker[p].phase = "none" /\ p \notin Running
  <2>1. p \in Files BY <1>1, ArgsAreFiles
  <2>2. worker[p].phase = "none" BY <1>1 DEF Tally, Counts1
  <2> QED BY <2>1, <2>2 DEF Running
<1>3. /\ c \in Nat /\ f \in {"over", "hash"} /\ (f = "over" <=> missing)
      /\ c = pool.failed + (IF f = "over" THEN 1 ELSE 0)
  <2>1. pool.failed \in Nat BY <1>1 DEF PoolT
  <2>2. CASE missing BY <2>1, <2>2
  <2>3. CASE ~missing BY <2>1, <2>3
  <2> QED BY <2>2, <2>3
<1> HIDE DEF f, c, missing
<1>4. v \in WorkerT /\ v.phase = f
  BY <1>3 DEF Fresh, WorkerT, Worker1, Gone
<1>5. /\ pool' \in PoolT /\ pool'.next = pool.next + 1 /\ pool'.failed = c
      /\ pool'.ok = pool.ok /\ pool'.skipped = pool.skipped /\ pool'.phase = "run"
  <2> DEFINE m == [pool EXCEPT !.next = @ + 1]
  <2>1. /\ m \in PoolT /\ m.next = pool.next + 1 /\ m.ok = pool.ok
        /\ m.skipped = pool.skipped /\ m.phase = "run"
    BY <1>1 DEF PoolT
  <2>2. pool' = [m EXCEPT !.failed = c]
    BY <1>1
  <2> HIDE DEF m
  <2> QED
    BY <1>3, <2>1, <2>2 DEF PoolT
<1> HIDE DEF v
<1>6. Typed'
  BY <1>1, <1>4, <1>5 DEF Tally, Typed
<1>7. \A m \in pool'.next .. Len(Args) : worker'[Args[m]].phase = "none"
  <2> SUFFICES ASSUME NEW m \in pool.next + 1 .. Len(Args)
               PROVE  worker'[Args[m]].phase = "none"
    BY <1>5
  <2>1. Args[m] # p /\ Args[m] \in Files /\ worker[Args[m]].phase = "none"
    BY <1>1, ArgsAreFiles DEF Tally, Counts1
  <2> QED
    BY <1>1, <2>1
<1>8. /\ pool.ok \in Nat /\ pool.skipped \in Nat /\ pool.failed \in Nat
      /\ Sum \in Nat /\ Sum + Cardinality(Running) = pool.next - 1
      /\ Cardinality(Running) \in Nat /\ Cardinality(Running) <= Jobs
  BY <1>1, RunningIsFinite DEF PoolT, Tally, Counts1, Sum
<1>9. CASE f = "over"
  <2>1. Running' = Running
    BY <1>1, <1>2, <1>4, <1>9 DEF Running
  <2>2. Sum' = Sum + 1
    BY <1>3, <1>5, <1>8, <1>9 DEF Sum
  <2>3. Sum' + Cardinality(Running') = pool'.next - 1
    BY <1>1, <1>5, <1>8, <2>1, <2>2
  <2> QED
    BY <1>5, <1>6, <1>7, <1>8, <2>1, <2>3 DEF Tally, Counts1
<1>10. CASE f = "hash"
  <2>1. Running' = Running \cup {p}
    BY <1>1, <1>2, <1>4, <1>10 DEF Running
  <2>2. Cardinality(Running') = Cardinality(Running) + 1
    BY <1>2, <2>1, RunningIsFinite, FS_AddElement
  <2>3. Sum' + Cardinality(Running') = pool'.next - 1
    <3>1. Sum' = Sum
      BY <1>3, <1>5, <1>8, <1>10 DEF Sum
    <3> QED
      BY <1>1, <1>5, <1>8, <2>2, <3>1
  <2>4. Cardinality(Running') <= Jobs
    BY <1>1, <1>3, <1>8, <1>10, <2>2, JobsAssumption DEF FreeSlot
  <2> QED
    BY <1>5, <1>6, <1>7, <2>3, <2>4 DEF Tally, Counts1
<1> QED
  BY <1>3, <1>9, <1>10

LEMMA NobodyRuns ==
  ASSUME worker = [p \in Files |-> Fresh] PROVE Running = {}
BY FreshIsTyped DEF Running

LEMMA TallyBegins ==
  ASSUME Tally, NEW force \in BOOLEAN, NEW same \in BOOLEAN,
         Begin(force, same)
  PROVE  Tally'
<1>1. PICK known \in {{}, store.bodies} :
        pool' = [pool EXCEPT !.phase = "run", !.force = force,
                             !.known = known, !.next = 1, !.ok = 0, !.skipped = 0,
                             !.failed = 0]
  BY DEF Begin
<1>2. /\ UNCHANGED <<local, store>> /\ worker' = [p \in Files |-> Fresh]
      /\ pool \in PoolT /\ ledger \in LedgerT /\ known \in SUBSET Seq(Pieces)
  BY DEF Begin, Tally, Typed, StoreT
<1>3. /\ pool' \in PoolT /\ pool'.phase = "run" /\ pool'.next = 1
      /\ pool'.ok = 0 /\ pool'.skipped = 0 /\ pool'.failed = 0
  <2> DEFINE m == [pool EXCEPT !.phase = "run", !.force = force]
             l == [m EXCEPT !.known = known]
             n == [l EXCEPT !.next = 1]
  <2>1. m \in PoolT /\ m.phase = "run" BY <1>2 DEF PoolT
  <2>2. pool' = [n EXCEPT !.ok = 0, !.skipped = 0, !.failed = 0] BY <1>1
  <2> HIDE DEF m
  <2>3. l \in PoolT /\ l.phase = "run"
    BY <1>2, <2>1 DEF PoolT
  <2> HIDE DEF l
  <2>4. 1 \in 1 .. Len(Args) + 1
    BY ArgsAreFiles
  <2>5. n \in PoolT /\ n.phase = "run" /\ n.next = 1
    BY <2>3, <2>4 DEF PoolT
  <2> HIDE DEF n
  <2> QED BY <2>2, <2>5 DEF PoolT
<1>4. ledger' \in LedgerT
  <2> DEFINE r == IF same THEN ledger.disk ELSE {}
             m == [ledger EXCEPT !.seen = r]
  <2>1. ledger' = [m EXCEPT !.dirty = 0] BY DEF Begin, Opened
  <2>2. r \in SUBSET Bodies /\ IsFiniteSet(r) /\ 0 <= Cardinality(r)
    BY <1>2, FS_EmptySet, FS_CardinalityType DEF LedgerT
  <2> HIDE DEF r
  <2>3. m = [seen |-> r, dirty |-> ledger.dirty, disk |-> ledger.disk] BY <1>2 DEF LedgerT
  <2> HIDE DEF m
  <2>4. ledger' = [seen |-> r, dirty |-> 0, disk |-> ledger.disk] BY <2>1, <2>3
  <2> QED BY <1>2, <2>2, <2>4 DEF LedgerT
<1>5. Typed'
  BY <1>2, <1>3, <1>4, FreshIsTyped DEF Typed, Tally
<1>6. Running' = {} /\ \A p \in Files : worker'[p].phase = "none"
  BY <1>2, FreshIsTyped DEF Running
<1>7. Cardinality({}) = 0 /\ Sum' = 0
  BY <1>3, FS_EmptySet DEF Sum
<1> QED
  BY <1>3, <1>5, <1>6, <1>7, ArgsAreFiles, JobsAssumption DEF Tally, Counts1

LEMMA TallyEnds == Tally /\ (Finish \/ KillPool) => Tally'
<1> SUFFICES ASSUME Tally, Finish \/ KillPool PROVE Tally'
  OBVIOUS
<1>1. /\ UNCHANGED <<local, store>> /\ pool \in PoolT /\ ledger \in LedgerT
      /\ pool.phase = "run" /\ pool.next \in 1 .. Len(Args) + 1 /\ Len(Args) \in Nat
  BY ArgsAreFiles DEF Finish, KillPool, Tally, Typed, PoolT
<1>2. CASE Finish
  <2>1. pool' \in PoolT /\ pool'.phase = "over" /\ Sum' = Sum /\ Sum \in Nat
    BY <1>1, <1>2 DEF Finish, PoolT, Sum
  <2>2. ledger' \in LedgerT /\ UNCHANGED worker
    BY <1>1, <1>2, SavedIsTyped DEF Finish
  <2>3. Running = {} /\ pool.next = Len(Args) + 1
    BY <1>1, <1>2 DEF Finish, AllDone
  <2>4. Sum = Len(Args)
    BY <1>1, <2>1, <2>3, FS_EmptySet DEF Tally, Counts1
  <2>5. Running' = Running
    BY <2>2 DEF Running
  <2> QED
    BY <1>1, <2>1, <2>2, <2>4, <2>5 DEF Tally, Typed, Counts1
<1>3. CASE KillPool
  <2>1. pool' \in PoolT /\ pool'.phase = "killed"
    BY <1>1, <1>3 DEF KillPool, PoolT
  <2>2. worker' \in [Files -> WorkerT] /\ Running' = {} /\ UNCHANGED ledger
    BY <1>3, FreshIsTyped DEF KillPool, Running
  <2> QED
    BY <1>1, <2>1, <2>2, FS_EmptySet, JobsAssumption DEF Tally, Typed, Counts1
<1> QED
  BY <1>2, <1>3

LEMMA TallyKeeps == Tally /\ [PoolNext]_poolVars => Tally'
<1> SUFFICES ASSUME Tally, [PoolNext]_poolVars PROVE Tally'
  OBVIOUS
<1>1. CASE \E force, same \in BOOLEAN : Begin(force, same)
  BY <1>1, TallyBegins
<1>2. CASE Spawn \/ Finish \/ KillPool
  BY <1>2, TallySpawns, TallyEnds
<1>3. ASSUME NEW p \in Files, Hash(p) \/ Check(p) \/ ChunkInit(p) \/ ChunkPart(p) \/ Record(p)
      PROVE  Tally'
  BY <1>3, TallyWorks
<1>4. ASSUME NEW p \in Files, Send(p) \/ ChunkComplete(p) PROVE Tally'
  <2>1. local[p] \in Seq(Pieces) /\ store.parts[p] \in Seq(Pieces)
    BY FilesArePieces DEF Tally, Typed, StoreT
  <2> QED
    BY <1>4, <2>1, TallyRequests DEF Send, ChunkComplete
<1>5. ASSUME NEW p \in Files, Edit(p) PROVE Tally'
  <2>1. local' \in [Files -> Bodies \cup {Gone}] /\ UNCHANGED <<pool, worker, ledger, store>>
    BY <1>5 DEF Edit, Tally, Typed
  <2> QED
    BY <2>1 DEF Tally, Typed, Counts1, Sum, Running
<1>6. CASE UNCHANGED poolVars
  BY <1>6 DEF Tally, Typed, Counts1, Sum, Running, poolVars
<1> QED
  BY <1>1, <1>2, <1>3, <1>4, <1>5, <1>6 DEF PoolNext

(* At most Jobs files are worked on at a time, the ledger's dirty counter  *)
(* never exceeds what it holds, and a chunked upload never sends more      *)
(* parts than the size it read: also when files change under the command.  *)
THEOREM SlotsAndTypes == PoolSpec => []PoolTypeOK
<1>1. Tally => PoolTypeOK
  <2> SUFFICES ASSUME Tally PROVE PoolTypeOK
    OBVIOUS
  <2>1. pool.next \in 1 .. Len(Args) + 1 /\ ledger \in LedgerT
        /\ local \in [Files -> Bodies \cup {Gone}]
    BY DEF Tally, Typed, PoolT
  <2>2. ledger.dirty \in 0 .. Cardinality(ledger.seen)
    BY <2>1, FS_CardinalityType DEF LedgerT
  <2>3. \A p \in Files : worker[p].parts \in 0 .. worker[p].size
    BY DEF Tally, Typed, WorkerT, Worker1
  <2> QED
    BY <2>1, <2>2, <2>3 DEF PoolTypeOK, LedgerT, Tally
<1> QED
  BY <1>1, TallyStarts, TallyKeeps, PTL DEF PoolSpec

(* However the goroutines interleave, fail, skip or find their file gone,  *)
(* each argument of a run that came to its end is in exactly one of the    *)
(* three counts it prints.                                                 *)
THEOREM EveryFileIsCounted == PoolSpec => []CountsAddUp
<1>1. Tally => CountsAddUp
  BY DEF Tally, Counts1, Sum, CountsAddUp
<1> QED
  BY <1>1, TallyStarts, TallyKeeps, PTL DEF PoolSpec
-----------------------------------------------------------------------------
(* A clean history: nobody edited a file, no request failed, no run was    *)
(* killed or forced, and the ledger was always this server's.  What was    *)
(* sent is then in the ledger, or its goroutine is about to put it there;  *)
(* between two runs it is in the ledger's file.  A body that a goroutine   *)
(* has decided to send has not been sent before.                           *)
LuckIs(l) ==
  /\ {"edited", "clean", "sent"} \subseteq DOMAIN l
  /\ l.edited \in BOOLEAN /\ l.clean \in BOOLEAN /\ l.sent \in [Bodies -> Nat]
  /\ l.clean => ~l.edited
Recording(p)  == worker[p].phase = "record" /\ worker[p].out = "ok"
Remembered(b) ==
  b \in ledger.seen \/ \E p \in Files : Recording(p) /\ worker[p].sha = b
Sending == {"send", "init", "part", "complete"}
Once ==
  /\ pool.phase # "killed" /\ (pool.phase = "run" => ~pool.force)
  /\ \A b \in Bodies : luck.sent[b] > 0 =>
       /\ luck.sent[b] = 1 /\ b # Gone
       /\ IF pool.phase = "run" THEN Remembered(b) ELSE b \in ledger.disk
  /\ \A p \in Files : worker[p].phase \in Sending => luck.sent[local[p]] = 0
OnceInv ==
  PoolInv /\ Tally /\ LuckIs(luck) /\ (luck.clean /\ Distinct => Once)

(* No history becomes clean again.                                         *)
LEMMA FailedIsUnclean ==
  ASSUME NEW l, LuckIs(l)
  PROVE  LuckIs(Failed(l)) /\ ~Failed(l).clean /\ Failed(l).sent = l.sent
<1> DEFINE n == IF l.failures > 0 THEN l.failures - 1 ELSE 0
           m == [l EXCEPT !.failures = IF @ > 0 THEN @ - 1 ELSE 0]
<1>1. /\ DOMAIN m = DOMAIN l /\ m.edited = l.edited /\ m.clean = l.clean /\ m.sent = l.sent
  BY DEF LuckIs
<1>2. Failed(l) = [m EXCEPT !.clean = FALSE]
  BY DEF Failed
<1> HIDE DEF m
<1> QED
  BY <1>1, <1>2 DEF LuckIs

LEMMA SentIsCounted ==
  ASSUME NEW l, LuckIs(l), NEW b
  PROVE  /\ LuckIs(Sent1(l, b)) /\ Sent1(l, b).clean = l.clean
         /\ \A c \in Bodies : Sent1(l, b).sent[c] = l.sent[c] + (IF c = b THEN 1 ELSE 0)
<1>1. CASE b \in Bodies
  <2> DEFINE s == [l.sent EXCEPT ![b] = @ + 1]
  <2>1. s \in [Bodies -> Nat] /\ \A c \in Bodies : s[c] = l.sent[c] + (IF c = b THEN 1 ELSE 0)
    BY <1>1 DEF LuckIs
  <2>2. Sent1(l, b) = [l EXCEPT !.sent = s]
    BY <1>1 DEF Sent1, LuckIs
  <2> HIDE DEF s
  <2> QED
    BY <2>1, <2>2 DEF LuckIs
<1>2. CASE b \notin Bodies
  BY <1>2 DEF Sent1, LuckIs
<1> QED
  BY <1>1, <1>2

(* How a request changes the history.                                      *)
LEMMA RequestsCount ==
  ASSUME LuckIs(luck), NEW p \in Files, NEW body, NEW from, Upload(p, body, from)
  PROVE  /\ LuckIs(luck)' /\ (luck'.clean => luck.clean)
         /\ luck'.clean =>
              \/ /\ luck'.sent = luck.sent
                 /\ Steps(p, [worker[p] EXCEPT !.phase = "record", !.out = "failed",
                                               !.parts = 0, !.size = 0])
              \/ /\ body # Gone
                 /\ \A c \in Bodies : luck'.sent[c] = luck.sent[c] + (IF c = body THEN 1 ELSE 0)
                 /\ Steps(p, [worker[p] EXCEPT !.phase = "record", !.out = "ok",
                                               !.parts = 0, !.size = 0])
<1>1. PICK ok, done \in BOOLEAN :
        /\ ok => done
        /\ done => body # Gone
        /\ luck' = LET l == IF done THEN Sent1(luck, body) ELSE luck
                   IN  IF ok THEN l ELSE IF body = Gone THEN l ELSE Failed(l)
        /\ Steps(p, [worker[p] EXCEPT !.phase = "record", !.out = IF ok THEN "ok" ELSE "failed",
                                      !.parts = 0, !.size = 0])
  BY DEF Upload
<1> DEFINE l == IF done THEN Sent1(luck, body) ELSE luck
<1>2. LuckIs(l) /\ l.clean = luck.clean
  BY SentIsCounted
<1>3. CASE ok
  <2>1. luck' = Sent1(luck, body) /\ body # Gone
    BY <1>1, <1>3
  <2> QED
    BY <1>1, <1>3, <2>1, SentIsCounted
<1>4. CASE ~ok /\ body = Gone
  <2>1. luck' = luck
    BY <1>1, <1>4
  <2> QED
    BY <1>1, <1>4, <2>1
<1>5. CASE ~ok /\ body # Gone
  <2>1. luck' = Failed(l)
    BY <1>1, <1>5
  <2> HIDE DEF l
  <2> QED
    BY <1>2, <2>1, FailedIsUnclean
<1> QED
  BY <1>3, <1>4, <1>5

(* A goroutine moves on without a request.                                 *)
LEMMA OnceMoves ==
  ASSUME Once, luck.sent \in [Bodies -> Nat], worker \in [Files -> Worker1],
         NEW p \in Files, NEW w, Steps(p, w),
         UNCHANGED local, luck'.sent = luck.sent,
         pool.phase = "run", pool'.phase = "run", pool'.force = pool.force,
         ledger.seen \subseteq ledger'.seen,
         Recording(p) /\ worker[p].sha \in Bodies /\ worker[p].sha # Gone
           => worker[p].sha \in ledger'.seen,
         w.phase \in Sending => luck.sent[local[p]] = 0
  PROVE  Once'
<1>1. worker' = [worker EXCEPT ![p] = w]
  BY DEF Steps
<1>2. \A q \in Files : worker'[q] = IF q = p THEN w ELSE worker[q]
  BY <1>1
<1>3. ASSUME NEW b \in Bodies, luck.sent[b] > 0 PROVE Remembered(b)'
  <2>1. Remembered(b) /\ b # Gone
    BY <1>3 DEF Once
  <2>2. CASE b \in ledger.seen
    BY <2>2 DEF Remembered
  <2>3. CASE b \notin ledger.seen
    <3>1. PICK q \in Files : Recording(q) /\ worker[q].sha = b
      BY <2>1, <2>3 DEF Remembered
    <3>2. CASE q = p
      BY <2>1, <3>1, <3>2 DEF Remembered
    <3>3. CASE q # p
      BY <1>2, <3>1, <3>3 DEF Remembered, Recording
    <3> QED
      BY <3>2, <3>3
  <2> QED
    BY <2>2, <2>3
<1>4. \A q \in Files : worker'[q].phase \in Sending => luck'.sent[local'[q]] = 0
  BY <1>2 DEF Once
<1> QED
  BY <1>3, <1>4 DEF Once

LEMMA LedgerGrows ==
  ASSUME Tally, NEW sha \in Bodies
  PROVE  /\ ledger.seen \cup {sha} \subseteq Added(sha).seen
         /\ ledger.seen \cup {sha} \subseteq Checkpointed(Added(sha)).seen
<1>1. ledger \in LedgerT
  BY DEF Tally, Typed
<1> DEFINE l == Added(sha)
<1>2. l.seen = ledger.seen \cup {sha} /\ l \in LedgerT
  BY <1>1, AddedIsTyped DEF Added, LedgerT
<1> HIDE DEF l
<1>3. Saved1(l).seen = l.seen
  BY <1>2 DEF Saved1, LedgerT
<1> QED
  BY <1>2, <1>3 DEF Checkpointed, l

(* Every goroutine: the cases in which the history stays clean.            *)
LEMMA WorkersSendOnce ==
  ASSUME Whole, Tally, LuckIs(luck), Distinct, Once, luck'.clean, NEW p \in Files,
         Hash(p) \/ Check(p) \/ ChunkInit(p) \/ ChunkPart(p) \/ Record(p)
  PROVE  Once'
<1> DEFINE w == worker[p]
<1>1. /\ worker \in [Files -> Worker1] /\ luck.sent \in [Bodies -> Nat]
      /\ UNCHANGED local /\ pool.phase = "run" /\ w \in Worker1 /\ local[p] \in Bodies
  BY DEF Whole, PoolTypes, LuckIs, Hash, Check, ChunkInit, ChunkPart, Record
<1>2. luck' = luck
  <2>1. luck' = luck \/ luck' = Failed(luck)
    BY DEF Hash, Check, ChunkInit, ChunkPart, Record
  <2> QED
    BY <2>1, FailedIsUnclean
<1>3. CASE Hash(p)
  <2> DEFINE v == [w EXCEPT !.phase = "check", !.sha = local[p]]
  <2>1. v.phase = "check" BY <1>1 DEF Worker1
  <2> QED BY <1>1, <1>2, <1>3, <2>1, OnceMoves DEF Hash, Recording, Sending
<1>4. CASE Check(p)
  <2>1. w.phase = "check" /\ w.sha = local[p] /\ ~pool.force
    BY <1>1, <1>4 DEF Check, Whole, WorkerOK, Once
  <2>2. CASE Skips(w.sha)
    <3>1. ledger' \in {ledger, Added(w.sha)} /\ Counted("skipped") /\ Steps(p, Done1)
      BY <1>4, <2>2 DEF Check
    <3>2. ledger.seen \subseteq ledger'.seen
      BY <1>1, <2>1, <3>1, LedgerGrows
    <3>3. pool' = [pool EXCEPT !.skipped = @ + 1] /\ pool \in PoolT
      BY <3>1 DEF Counted, Tally, Typed
    <3>4. pool'.phase = pool.phase /\ pool'.force = pool.force
      BY <3>3 DEF PoolT
    <3>5. Done1.phase = "over"
      BY DEF Done1, Fresh
    <3> QED
      BY <1>1, <1>2, <2>1, <3>1, <3>2, <3>4, <3>5, OnceMoves DEF Recording, Sending
  <2>3. CASE ~Skips(w.sha)
    <3>1. PICK f \in {"init", "send"} : Steps(p, [w EXCEPT !.phase = f])
      BY <1>4, <2>3 DEF Check
    <3>2. UNCHANGED <<pool, ledger>>
      BY <1>4, <2>3 DEF Check
    <3>3. luck.sent[local[p]] = 0
      <4> SUFFICES ASSUME luck.sent[local[p]] > 0 PROVE FALSE
        BY <1>1
      <4>1. local[p] # Gone /\ Remembered(local[p])
        BY <1>1 DEF Once
      <4>2. local[p] \notin ledger.seen
        BY <2>1, <2>3, <4>1 DEF Skips, Has
      <4>3. PICK q \in Files : Recording(q) /\ worker[q].sha = local[p]
        BY <4>1, <4>2 DEF Remembered
      <4>4. worker[q].sha = local[q]
        BY <4>3 DEF Whole, WorkerOK, Recording
      <4>5. q = p
        BY <4>3, <4>4 DEF Distinct
      <4> QED
        BY <2>1, <4>3, <4>5 DEF Recording
    <3> DEFINE v == [w EXCEPT !.phase = f]
    <3>4. v.phase = f /\ Steps(p, v)
      BY <1>1, <3>1 DEF Worker1
    <3> HIDE DEF v
    <3> QED
      BY <1>1, <1>2, <2>1, <3>2, <3>3, <3>4, OnceMoves DEF Recording
  <2> QED
    BY <2>2, <2>3
<1>5. CASE ChunkInit(p) \/ ChunkPart(p)
  <2>1. w.phase \in {"init", "part"} /\ UNCHANGED <<pool, ledger>>
    BY <1>5 DEF ChunkInit, ChunkPart
  <2>2. luck.sent[local[p]] = 0
    BY <2>1 DEF Once, Sending
  <2>3. PICK v : Steps(p, v)
    BY <1>5 DEF ChunkInit, ChunkPart
  <2> QED
    BY <1>1, <1>2, <2>1, <2>2, <2>3, OnceMoves DEF Recording
<1>6. CASE Record(p)
  <2>1. Steps(p, Done1) /\ w.phase = "record"
    BY <1>6 DEF Record
  <2>2. Done1.phase = "over"
    BY DEF Done1, Fresh
  <2>3. PICK k \in Counted1 : Counted(k)
    BY <1>6 DEF Record, Counted1
  <2>4. pool'.phase = pool.phase /\ pool'.force = pool.force
    <3>1. pool \in PoolT /\ k \notin {"phase", "force"}
      BY DEF Tally, Typed, Counted1
    <3> QED
      BY <2>3, <3>1 DEF Counted, PoolT
  <2>5. /\ ledger.seen \subseteq ledger'.seen
        /\ Recording(p) /\ w.sha \in Bodies /\ w.sha # Gone => w.sha \in ledger'.seen
    <3>1. CASE w.out = "ok" /\ w.sha # Gone
      <4>1. ledger' = Checkpointed(Added(w.sha))
        BY <1>6, <3>1 DEF Record
      <4>2. w.sha \in Bodies
        BY <1>1, <3>1 DEF Worker1
      <4> QED
        BY <4>1, <4>2, LedgerGrows
    <3>2. CASE ~(w.out = "ok" /\ w.sha # Gone)
      BY <1>6, <3>2 DEF Record, Recording
    <3> QED
      BY <3>1, <3>2
  <2> QED
    BY <1>1, <1>2, <2>1, <2>2, <2>4, <2>5, OnceMoves DEF Sending
<1> QED
  BY <1>3, <1>4, <1>5, <1>6

LEMMA RequestsSendOnce ==
  ASSUME Whole, LuckIs(luck), Distinct, Once, luck'.clean, NEW p \in Files,
         NEW from \in {"send", "complete"}, Upload(p, local[p], from)
  PROVE  Once'
<1> DEFINE w == worker[p]
           v(o) == [w EXCEPT !.phase = "record", !.out = o, !.parts = 0, !.size = 0]
<1>1. /\ worker \in [Files -> Worker1] /\ luck.sent \in [Bodies -> Nat]
      /\ UNCHANGED <<local, pool, ledger>> /\ pool.phase = "run" /\ w \in Worker1
      /\ w.phase = from /\ local[p] \in Bodies
  BY DEF Whole, PoolTypes, LuckIs, Upload
<1>2. w.sha = local[p] /\ luck.sent[local[p]] = 0
  BY <1>1 DEF Whole, WorkerOK, Once, Sending
<1>3. ASSUME NEW o PROVE v(o).phase = "record" /\ v(o).out = o /\ v(o).sha = local[p]
  BY <1>1, <1>2 DEF Worker1
<1>4. CASE luck'.sent = luck.sent /\ Steps(p, v("failed"))
  <2>1. v("failed").phase = "record" /\ w.phase # "record"
    BY <1>1, <1>3
  <2> HIDE DEF v
  <2> QED
    BY <1>1, <1>4, <2>1, OnceMoves DEF Recording, Sending
<1>5. CASE /\ local[p] # Gone /\ Steps(p, v("ok"))
           /\ \A c \in Bodies : luck'.sent[c] = luck.sent[c] + (IF c = local[p] THEN 1 ELSE 0)
  <2> HIDE DEF v
  <2>1. \A q \in Files : worker'[q] = IF q = p THEN v("ok") ELSE worker[q]
    BY <1>1, <1>5 DEF Steps
  <2>2. Recording(p)' /\ worker'[p].sha = local[p]
    BY <1>3, <2>1 DEF Recording
  <2>3. ASSUME NEW b \in Bodies, luck'.sent[b] > 0
        PROVE  luck'.sent[b] = 1 /\ b # Gone /\ Remembered(b)'
    <3>1. CASE b = local[p]
      <4>1. luck'.sent[b] = 1
        BY <1>2, <1>5, <3>1
      <4> QED
        BY <1>5, <2>2, <3>1, <4>1 DEF Remembered
    <3>2. CASE b # local[p]
      <4>1. luck.sent[b] = luck'.sent[b]
        BY <1>1, <1>5, <3>2
      <4>2. luck.sent[b] = 1 /\ b # Gone /\ Remembered(b)
        BY <1>1, <2>3, <4>1 DEF Once
      <4>3. CASE b \in ledger.seen
        BY <1>1, <4>1, <4>2, <4>3 DEF Remembered
      <4>4. CASE b \notin ledger.seen
        <5>1. PICK q \in Files : Recording(q) /\ worker[q].sha = b
          BY <4>2, <4>4 DEF Remembered
        <5>2. q # p
          BY <1>1, <5>1 DEF Recording
        <5> QED
          BY <2>1, <4>1, <4>2, <5>1, <5>2 DEF Remembered, Recording
      <4> QED
        BY <4>3, <4>4
    <3> QED
      BY <3>1, <3>2
  <2>4. ASSUME NEW q \in Files, worker'[q].phase \in Sending PROVE luck'.sent[local'[q]] = 0
    <3>1. q # p
      BY <1>3, <2>1, <2>4 DEF Sending
    <3>2. luck.sent[local[q]] = 0 /\ local[q] # local[p] /\ local[q] \in Bodies
      BY <2>1, <2>4, <3>1 DEF Once, Distinct, Whole, PoolTypes
    <3> QED
      BY <1>1, <1>5, <3>2
  <2> QED
    BY <1>1, <2>3, <2>4 DEF Once
<1> HIDE DEF v
<1> QED
  BY <1>4, <1>5, RequestsCount DEF v

LEMMA PoolSendsOnce ==
  ASSUME Whole, Tally, LuckIs(luck), Once, luck'.clean,
         \/ Spawn \/ Finish \/ KillPool
         \/ \E force, same \in BOOLEAN : Begin(force, same)
  PROVE  Once'
<1>1. /\ worker \in [Files -> Worker1] /\ luck.sent \in [Bodies -> Nat] /\ pool \in PoolT
      /\ ledger \in LedgerT
  BY DEF Whole, PoolTypes, LuckIs, Tally, Typed
<1>2. CASE Spawn
  <2> DEFINE p == Args[pool.next]
             missing == local[p] = Gone /\ ~pool.gallery
             f == IF missing THEN "over" ELSE "hash"
             c == pool.failed + (IF missing THEN 1 ELSE 0)
             v == [Fresh EXCEPT !.phase = f]
  <2>1. /\ pool.phase = "run" /\ UNCHANGED <<local, ledger, luck>>
        /\ pool' = [pool EXCEPT !.next = @ + 1, !.failed = c] /\ Steps(p, v)
        /\ pool.next \in 1 .. Len(Args)
    BY <1>1, <1>2, ArgsAreFiles DEF Spawn, PoolT
  <2>2. p \in Files /\ worker[p].phase = "none"
    BY <2>1, ArgsAreFiles DEF Tally, Counts1
  <2>3. f \in {"over", "hash"}
    OBVIOUS
  <2> HIDE DEF f, c
  <2>4. v.phase \in {"over", "hash"}
    BY <2>3 DEF Fresh
  <2>5. pool'.phase = "run" /\ pool'.force = pool.force
    <3> DEFINE m == [pool EXCEPT !.next = @ + 1]
    <3>1. m.phase = "run" /\ m.force = pool.force /\ DOMAIN m = DOMAIN pool
      BY <1>1, <2>1 DEF PoolT
    <3>2. pool' = [m EXCEPT !.failed = c]
      BY <2>1
    <3> HIDE DEF m
    <3> QED
      BY <1>1, <3>1, <3>2 DEF PoolT
  <2> HIDE DEF v, p
  <2> QED
    BY <1>1, <2>1, <2>2, <2>4, <2>5, OnceMoves DEF Recording, Sending
<1>3. CASE KillPool
  BY <1>3 DEF KillPool, LuckIs
<1>4. CASE Finish
  <2>1. pool.phase = "run" /\ pool' = [pool EXCEPT !.phase = "over"] /\ Running = {}
        /\ UNCHANGED <<local, worker>>
    BY <1>4 DEF Finish, AllDone
  <2>2. ledger' = Saved1(ledger) /\ luck' = luck
    BY <1>4, FailedIsUnclean DEF Finish
  <2>3. ledger'.disk = ledger.seen
    BY <1>1, <2>2 DEF Saved1, LedgerT
  <2>4. \A p \in Files : worker[p].phase \in {"none", "over"}
    BY <2>1 DEF Running
  <2>5. \A b \in Bodies : luck.sent[b] > 0 => luck.sent[b] = 1 /\ b # Gone /\ b \in ledger.seen
    BY <2>1, <2>4 DEF Once, Remembered, Recording
  <2>6. pool'.phase = "over"
    BY <1>1, <2>1 DEF PoolT
  <2> QED
    BY <2>1, <2>2, <2>3, <2>4, <2>5, <2>6 DEF Once, Sending
<1>5. ASSUME NEW force \in BOOLEAN, NEW same \in BOOLEAN,
             Begin(force, same)
      PROVE  Once'
  <2>1. PICK known \in {{}, store.bodies} :
          pool' = [pool EXCEPT !.phase = "run", !.force = force,
                               !.known = known, !.next = 1, !.ok = 0, !.skipped = 0,
                               !.failed = 0]
    BY <1>5 DEF Begin
  <2>2. luck' = [luck EXCEPT !.runs = @ - 1, !.clean = @ /\ ~force /\ same]
    BY <1>5 DEF Begin
  <2>3. ~force /\ same /\ luck'.sent = luck.sent
    <3> DEFINE m == [luck EXCEPT !.runs = @ - 1]
    <3>1. DOMAIN m = DOMAIN luck /\ m.sent = luck.sent
      BY DEF LuckIs
    <3>2. luck' = [m EXCEPT !.clean = @ /\ ~force /\ same]
      BY <2>2
    <3> HIDE DEF m
    <3> QED
      BY <3>1, <3>2 DEF LuckIs
  <2>4. pool'.phase = "run" /\ pool'.force = force
    BY <1>1, <2>1 DEF PoolT
  <2>5. ledger'.seen = ledger.disk
    BY <1>1, <1>5, <2>3 DEF Begin, Opened, LedgerT
  <2>6. \A p \in Files : worker'[p].phase = "none"
    BY <1>5, FreshIsTyped DEF Begin
  <2>7. pool.phase # "run"
    BY <1>5 DEF Begin
  <2> QED
    BY <2>3, <2>4, <2>5, <2>6, <2>7 DEF Once, Remembered, Sending
<1> QED
  BY <1>2, <1>3, <1>4, <1>5

LEMMA HistoryIsKept ==
  ASSUME LuckIs(luck), [PoolNext]_poolVars
  PROVE  LuckIs(luck)' /\ (luck'.clean => luck.clean /\ UNCHANGED local)
<1>1. ASSUME NEW force \in BOOLEAN, NEW same \in BOOLEAN,
             Begin(force, same)
      PROVE  LuckIs(luck)' /\ (luck'.clean => luck.clean /\ UNCHANGED local)
  <2> DEFINE m == [luck EXCEPT !.runs = @ - 1]
  <2>1. DOMAIN m = DOMAIN luck /\ m.sent = luck.sent /\ m.edited = luck.edited
        /\ m.clean = luck.clean
    BY DEF LuckIs
  <2>2. luck' = [m EXCEPT !.clean = @ /\ ~force /\ same] /\ UNCHANGED local
    BY <1>1 DEF Begin
  <2> HIDE DEF m
  <2> QED
    BY <2>1, <2>2 DEF LuckIs
<1>2. CASE Spawn \/ Finish
  BY <1>2, FailedIsUnclean DEF Spawn, Finish
<1>3. CASE KillPool
  BY <1>3 DEF KillPool, LuckIs
<1>4. ASSUME NEW p \in Files, Hash(p) \/ Check(p) \/ ChunkInit(p) \/ ChunkPart(p) \/ Record(p)
      PROVE  LuckIs(luck)' /\ (luck'.clean => luck.clean /\ UNCHANGED local)
  BY <1>4, FailedIsUnclean DEF Hash, Check, ChunkInit, ChunkPart, Record
<1>5. ASSUME NEW p \in Files, Send(p) \/ ChunkComplete(p)
      PROVE  LuckIs(luck)' /\ (luck'.clean => luck.clean /\ UNCHANGED local)
  <2>1. PICK body : \E from \in {"send", "complete"} : Upload(p, body, from)
    BY <1>5 DEF Send, ChunkComplete
  <2>2. PICK from \in {"send", "complete"} : Upload(p, body, from)
    BY <2>1
  <2>3. UNCHANGED local
    BY <2>2 DEF Upload
  <2> QED
    BY <2>2, <2>3, RequestsCount
<1>6. ASSUME NEW p \in Files, Edit(p)
      PROVE  LuckIs(luck)' /\ (luck'.clean => luck.clean /\ UNCHANGED local)
  <2> DEFINE m == [luck EXCEPT !.edits = @ - 1]
  <2>1. DOMAIN m = DOMAIN luck /\ m.sent = luck.sent
    BY DEF LuckIs
  <2>2. luck' = [m EXCEPT !.edited = TRUE, !.clean = FALSE]
    BY <1>6 DEF Edit
  <2> HIDE DEF m
  <2>3. /\ luck'.sent = luck.sent /\ luck'.edited \in BOOLEAN
        /\ luck'.clean \in BOOLEAN /\ ~luck'.clean
        /\ DOMAIN luck' = DOMAIN luck
    BY <2>1, <2>2 DEF LuckIs
  <2> QED
    BY <2>3 DEF LuckIs
<1>7. CASE UNCHANGED poolVars
  BY <1>7 DEF poolVars, LuckIs
<1> QED
  BY <1>1, <1>2, <1>3, <1>4, <1>5, <1>6, <1>7 DEF PoolNext

LEMMA OnceStarts == PoolInit => OnceInv
<1> SUFFICES ASSUME PoolInit PROVE OnceInv
  OBVIOUS
<1>1. luck.sent = [b \in Bodies |-> 0] /\ LuckIs(luck)
  <2>1. /\ luck.sent = [b \in Bodies |-> 0] 
        /\ luck.edited \in BOOLEAN /\ ~luck.edited /\ luck.clean \in BOOLEAN
        /\ {"edited", "clean", "sent"} \subseteq DOMAIN luck
    BY DEF PoolInit
  <2> QED
    BY <2>1 DEF LuckIs
<1>2. Once
  BY <1>1, FreshIsTyped DEF PoolInit, Once, Sending
<1> QED
  BY <1>1, <1>2, PoolStarts, TallyStarts DEF OnceInv

LEMMA OnceKeeps == OnceInv /\ [PoolNext]_poolVars => OnceInv'
<1> SUFFICES ASSUME OnceInv, [PoolNext]_poolVars PROVE OnceInv'
  OBVIOUS
<1>1. PoolInv' /\ Tally' /\ LuckIs(luck)' /\ (luck'.clean => luck.clean /\ UNCHANGED local)
  BY PoolKeeps, TallyKeeps, HistoryIsKept DEF OnceInv
<1>2. ASSUME luck'.clean, Distinct' PROVE Once'
  <2>1. Distinct /\ Once /\ Tally /\ LuckIs(luck)
    BY <1>1, <1>2 DEF OnceInv, Distinct
  <2>2. Whole
    BY <1>1, <1>2 DEF OnceInv, PoolInv, LuckIs
  <2>3. CASE \/ Spawn \/ Finish \/ KillPool
             \/ \E force, same \in BOOLEAN : Begin(force, same)
    BY <1>2, <2>1, <2>2, <2>3, PoolSendsOnce
  <2>4. ASSUME NEW p \in Files,
               Hash(p) \/ Check(p) \/ ChunkInit(p) \/ ChunkPart(p) \/ Record(p)
        PROVE  Once'
    BY <1>2, <2>1, <2>2, <2>4, WorkersSendOnce
  <2>5. ASSUME NEW p \in Files, Send(p) \/ ChunkComplete(p) PROVE Once'
    <3>1. PICK from \in {"send", "complete"} : Upload(p, local[p], from)
      <4>1. ChunkComplete(p) => store.parts[p] = local[p]
        BY <2>2 DEF ChunkComplete, Upload, Whole, WorkerOK
      <4> QED
        BY <2>5, <4>1 DEF Send, ChunkComplete
    <3> QED
      BY <1>2, <2>1, <2>2, <3>1, RequestsSendOnce
  <2>6. ASSUME NEW p \in Files, Edit(p) PROVE FALSE
    BY <1>1, <1>2, <2>6 DEF Edit, OnceInv, LuckIs
  <2>7. CASE UNCHANGED poolVars
    BY <2>1, <2>7 DEF poolVars, Once, Remembered, Recording
  <2> QED
    BY <2>3, <2>4, <2>5, <2>6, <2>7 DEF PoolNext
<1> QED
  BY <1>1, <1>2 DEF OnceInv

(* "So nothing is sent twice": in a clean history of either command, with  *)
(* files of distinct contents, a body travels once, however the goroutines *)
(* interleave, for any number of files, slots and runs and any checkpoint  *)
(* distance.                                                               *)
THEOREM NothingIsSentTwice == PoolSpec => []SentOnce
<1>1. OnceInv => SentOnce
  BY DEF OnceInv, Once, LuckIs, SentOnce
<1> QED
  BY <1>1, OnceStarts, OnceKeeps, PTL DEF PoolSpec

(***************************************************************************)
(* The camera folder.                                                      *)
(***************************************************************************)
Body1   == [photo : Photo \cup {"none"}, gen : Nat, size : Nat]
Sender1 == [phase : {"off", "next", "sent", "remove"}, queue : Seq(Photo), body : Body1,
            delete : BOOLEAN, calm : BOOLEAN]
CameraTypes ==
  /\ shot \in [Photo -> [gen : Nat, size : Nat]]
  /\ watch \in [seen : [Photo -> Nat], done : SUBSET Photo, waiting : BOOLEAN]
  /\ sender \in [Senders -> Sender1]
  /\ \A s \in Senders : sender[s].phase = "next" => sender[s].queue # << >>

(* A body that is under way, or whose original is about to be removed, is  *)
(* that of a photo; while nobody has written that photo, it is what the    *)
(* file holds, unless the other upload has removed the file; and nothing   *)
(* is removed before its body is in the gallery.                           *)
InHand ==
  \A s \in Senders :
    /\ sender[s].phase \in {"sent", "remove"} =>
         /\ sender[s].body.photo \in Photo
         /\ sender[s].calm => \/ shot[sender[s].body.photo].size = 0
                              \/ Content(sender[s].body.photo) = sender[s].body
    /\ sender[s].phase = "remove" => sender[s].body \in gallery

CameraInv == CameraTypes /\ InHand /\ DoneWasSent

(* An order of some photos is a sequence of photos.                        *)
LEMMA OrdersAreSequences ==
  ASSUME NEW ps \in SUBSET Photo, NEW q \in Orders(ps)
  PROVE  q \in Seq(Photo)
<1>1. Cardinality(ps) \in Nat
  BY PhotoAssumption, FS_Subset, FS_CardinalityType
<1>2. q \in [1 .. Cardinality(ps) -> Photo]
  BY DEF Orders
<1> QED BY <1>1, <1>2, SeqDef

(* What a sender is when it goes on to the next photo of its queue.        *)
LEMMA NextIsSender ==
  ASSUME CameraTypes, NEW s \in Senders
  PROVE  /\ Next1(s) \in Sender1
         /\ Next1(s).phase \in {"off", "next"}
         /\ Next1(s).phase = "next" => Next1(s).queue # << >>
<1> DEFINE x == sender[s]
<1>1. x \in Sender1 BY DEF CameraTypes
<1>2. Unsent \in Sender1 /\ Unsent.phase = "off"
  BY DEF Unsent, Nothing, Sender1, Body1
<1>3. CASE Len(x.queue) > 1
  <2> DEFINE rest == Tail(x.queue)
  <2>1. rest \in Seq(Photo) /\ rest # << >>
    <3>1. x.queue \in Seq(Photo) BY <1>1 DEF Sender1
    <3>2. x.queue # << >> BY <1>3
    <3> HIDE DEF x
    <3>3. rest \in Seq(Photo) /\ Len(rest) = Len(x.queue) - 1
      BY <3>1, <3>2, HeadTailProperties
    <3>4. Len(x.queue) \in Nat BY <3>1, LenProperties
    <3> HIDE DEF rest
    <3> QED BY <1>3, <3>3, <3>4, EmptySeq
  <2>2. Next1(s) = [x EXCEPT !.phase = "next", !.queue = rest, !.body = Nothing,
                             !.calm = TRUE]
    BY <1>3 DEF Next1
  <2>3. Nothing \in Body1 BY DEF Nothing, Body1
  <2> HIDE DEF x, rest
  <2> QED BY <1>1, <2>1, <2>2, <2>3 DEF Sender1
<1>4. CASE ~(Len(x.queue) > 1)
  BY <1>2, <1>4 DEF Next1
<1> QED BY <1>3, <1>4

LEMMA CameraStarts == CameraInit => CameraInv
<1> SUFFICES ASSUME CameraInit PROVE CameraInv OBVIOUS
<1>1. Unsent \in Sender1 /\ Unsent.phase = "off"
  BY DEF Unsent, Nothing, Sender1, Body1
<1> QED BY <1>1 DEF CameraInit, CameraInv, CameraTypes, InHand, DoneWasSent
(* A step in which one sender moves on, a file may be removed, and the     *)
(* gallery and the set of what is done may grow.                           *)
Fits(x) ==
  /\ x.phase = "next" => x.queue # << >>
  /\ x.phase \in {"sent", "remove"} =>
       /\ x.body.photo \in Photo
       /\ x.calm => \/ shot[x.body.photo].size = 0
                    \/ Content(x.body.photo) = x.body
  /\ x.phase = "remove" => x.body \in gallery
LEMMA HandKeeps ==
  ASSUME CameraInv, NEW s \in Senders, NEW x \in Sender1, Hand(s, x),
         shot' \in [Photo -> [gen : Nat, size : Nat]],
         \A p \in Photo : shot'[p] = shot[p] \/ shot'[p].size = 0,
         watch' \in [seen : [Photo -> Nat], done : SUBSET Photo, waiting : BOOLEAN],
         gallery \subseteq gallery', DoneWasSent',
         sender'[s] = x => Fits(sender[s])'
  PROVE  CameraInv'
<1>1. sender' = [sender EXCEPT ![s] = x] /\ sender \in [Senders -> Sender1]
  BY DEF Hand, CameraInv, CameraTypes
<1>2. ASSUME NEW r \in Senders PROVE Fits(sender[r])'
  <2>1. CASE r = s BY <1>1, <2>1
  <2>2. CASE r # s
    <3>1. sender'[r] = sender[r] BY <1>1, <2>2
    <3>2. Fits(sender[r]) BY DEF CameraInv, CameraTypes, InHand, Fits
    <3> QED BY <3>1, <3>2 DEF Fits, Content
  <2> QED BY <2>1, <2>2
<1>3. CameraTypes' BY <1>1, <1>2 DEF CameraTypes, Fits
<1>4. InHand' BY <1>2 DEF InHand, Fits, Content
<1> QED BY <1>3, <1>4 DEF CameraInv


(* A tick either leaves the uploads alone or starts one.                   *)
Waits  == UNCHANGED sender /\ \E w \in BOOLEAN : watch' = [watch EXCEPT !.waiting = w]
Starts ==
  /\ watch' = [watch EXCEPT !.seen = SeenNow, !.waiting = FALSE]
  /\ \E q \in Orders(Settled), delete \in BOOLEAN :
       sender' = [sender EXCEPT !["watcher"] =
         [Unsent EXCEPT !.phase = IF q = << >> THEN "off" ELSE "next",
                        !.queue = q, !.delete = delete]]
LEMMA TicksKeep == CameraInv /\ (Tick \/ LatePass) => CameraInv'
<1> SUFFICES ASSUME CameraInv, Tick \/ LatePass PROVE CameraInv' OBVIOUS
<1>1. SeenNow \in [Photo -> Nat]
  BY DEF SeenNow, CameraInv, CameraTypes
<1>2. CASE Waits
  BY <1>2 DEF Waits, Tick, LatePass, CameraInv, CameraTypes, InHand, DoneWasSent, Content
<1>3. CASE Starts
  <2>1. PICK q \in Orders(Settled), delete \in BOOLEAN :
          sender' = [sender EXCEPT !["watcher"] =
            [Unsent EXCEPT !.phase = IF q = << >> THEN "off" ELSE "next",
                           !.queue = q, !.delete = delete]]
    BY <1>3 DEF Starts
  <2> DEFINE x == [Unsent EXCEPT !.phase = IF q = << >> THEN "off" ELSE "next",
                                 !.queue = q, !.delete = delete]
  <2>2. q \in Seq(Photo)
    BY OrdersAreSequences, Settled \in SUBSET Photo DEF Settled, Present
  <2>3. x \in Sender1 /\ (x.phase = "next" => x.queue # << >>)
        /\ x.phase \notin {"sent", "remove"}
    BY <2>2 DEF Unsent, Nothing, Sender1, Body1
  <2>4. Hand("watcher", x) /\ UNCHANGED <<shot, gallery>>
    BY <2>1 DEF Hand, Tick, LatePass
  <2> HIDE DEF x
  <2>5. watch' \in [seen : [Photo -> Nat], done : SUBSET Photo, waiting : BOOLEAN]
        /\ watch'.done = watch.done
    BY <1>1, <1>3 DEF Starts, CameraInv, CameraTypes
  <2>6. DoneWasSent' BY <2>4, <2>5 DEF DoneWasSent, CameraInv
  <2>7. sender'["watcher"] = x => Fits(sender["watcher"])'
    BY <2>3 DEF Fits
  <2>8. shot' \in [Photo -> [gen : Nat, size : Nat]]
    BY <2>4 DEF CameraInv, CameraTypes
  <2> QED BY <2>3, <2>4, <2>5, <2>6, <2>7, <2>8, HandKeeps DEF Senders
<1>4. UNCHANGED <<watch, sender>> => Waits
  <2>1. watch = [watch EXCEPT !.waiting = watch.waiting] /\ watch.waiting \in BOOLEAN
    BY DEF CameraInv, CameraTypes
  <2> QED BY <2>1 DEF Waits
<1>5. Pass => Waits \/ Starts
  BY <1>4 DEF Pass, Starts
<1>6. Tick => Waits \/ Starts
  BY <1>5 DEF Tick, Waits
<1>7. LatePass => Waits \/ Starts
  BY <1>5 DEF LatePass, Waits
<1> QED BY <1>2, <1>3, <1>6, <1>7

LEMMA WritersKeep ==
  ASSUME CameraInv, NEW p \in Photo, Shoot(p) \/ Grow(p)
  PROVE  CameraInv' /\ shot'[p].size > 0 /\ (\A o \in Photo \ {p} : shot'[o] = shot[o])
<1>1. PICK to \in [gen : Nat, size : Nat] : to.size > 0 /\ Writes1(p, to)
  <2>0. shot[p] \in [gen : Nat, size : Nat] BY DEF CameraInv, CameraTypes
  <2>1. CASE Grow(p)
    <3> DEFINE to == [shot[p] EXCEPT !.size = @ + 1]
    <3>1. to \in [gen : Nat, size : Nat] /\ to.size > 0 BY <2>0
    <3>2. Writes1(p, to) BY <2>1 DEF Grow
    <3> QED BY <3>1, <3>2
  <2>2. CASE Shoot(p)
    <3> DEFINE to == [gen |-> shot[p].gen + 1, size |-> 1]
    <3>1. to \in [gen : Nat, size : Nat] /\ to.size > 0 BY <2>0
    <3>2. Writes1(p, to) BY <2>2 DEF Shoot
    <3> QED BY <3>1, <3>2
  <2> QED BY <2>1, <2>2
<1>2. /\ shot' = [shot EXCEPT ![p] = to] /\ UNCHANGED <<watch, gallery>>
      /\ \A s \in Senders :
           sender'[s] = IF sender[s].body.photo = p
                        THEN [sender[s] EXCEPT !.calm = FALSE] ELSE sender[s]
  BY <1>1 DEF Writes1
<1>3. CameraTypes'
  <2>1. sender' = [s \in Senders |-> IF sender[s].body.photo = p
                                     THEN [sender[s] EXCEPT !.calm = FALSE] ELSE sender[s]]
    BY <1>1 DEF Writes1
  <2>2. ASSUME NEW s \in Senders
        PROVE  /\ sender'[s] \in Sender1
               /\ sender'[s].phase = "next" => sender'[s].queue # << >>
    <3>1. sender[s] \in Sender1 /\ (sender[s].phase = "next" => sender[s].queue # << >>)
      BY DEF CameraInv, CameraTypes
    <3> QED BY <1>2, <3>1 DEF Sender1
  <2>3. sender' \in [Senders -> Sender1] BY <2>1, <2>2
  <2>4. shot' \in [Photo -> [gen : Nat, size : Nat]]
    BY <1>2 DEF CameraInv, CameraTypes
  <2> QED BY <1>2, <2>2, <2>3, <2>4 DEF CameraInv, CameraTypes
<1>4. InHand'
  <2> SUFFICES ASSUME NEW s \in Senders, sender'[s].phase \in {"sent", "remove"}
               PROVE  /\ sender'[s].body.photo \in Photo
                      /\ sender'[s].calm =>
                           \/ shot'[sender'[s].body.photo].size = 0
                           \/ Content(sender[s].body.photo)' = sender'[s].body
                      /\ sender'[s].phase = "remove" => sender'[s].body \in gallery'
    BY DEF InHand, Content
  <2>1. sender[s] \in Sender1 BY DEF CameraInv, CameraTypes
  <2>2. CASE sender[s].body.photo = p
    BY <1>2, <2>1, <2>2 DEF CameraInv, InHand, Sender1
  <2>3. CASE sender[s].body.photo # p
    <3>1. sender'[s] = sender[s] BY <1>2, <2>3
    <3>2. sender[s].body.photo \in Photo BY <3>1 DEF CameraInv, InHand
    <3>3. shot'[sender[s].body.photo] = shot[sender[s].body.photo]
      BY <1>2, <2>3, <3>2 DEF CameraInv, CameraTypes
    <3> QED BY <1>2, <3>1, <3>2, <3>3 DEF CameraInv, InHand, Content
  <2> QED BY <2>2, <2>3
<1>5. DoneWasSent' BY <1>2 DEF DoneWasSent, CameraInv
<1> QED BY <1>1, <1>2, <1>3, <1>4, <1>5 DEF CameraInv, CameraTypes

(* What one of the two uploads does.                                       *)
LEMMA SendersKeep ==
  ASSUME CameraInv, NEW s \in Senders,
         ReadBody(s) \/ UploadFails(s) \/ UploadSucceeds(s) \/ RemoveUploaded(s)
  PROVE  CameraInv'
<1> DEFINE x == sender[s]
           W == [seen : [Photo -> Nat], done : SUBSET Photo, waiting : BOOLEAN]
<1>1. /\ x \in Sender1 /\ Next1(s) \in Sender1 /\ Next1(s).phase \in {"off", "next"}
      /\ Next1(s).phase = "next" => Next1(s).queue # << >>
      /\ watch \in W /\ shot \in [Photo -> [gen : Nat, size : Nat]]
  BY NextIsSender DEF CameraInv, CameraTypes
<1>2. ASSUME Hand(s, Next1(s))
      PROVE  sender'[s] = Next1(s) => Fits(sender[s])'
  BY <1>1 DEF Fits
<1>3. CASE ReadBody(s)
  <2>1. UNCHANGED <<shot, watch, gallery>> BY <1>3 DEF ReadBody
  <2>2. DoneWasSent' BY <2>1 DEF CameraInv, DoneWasSent
  <2>3. CASE Hand(s, Next1(s))
    BY <1>1, <1>2, <2>1, <2>2, <2>3, HandKeeps
  <2>4. CASE ~Hand(s, Next1(s))
    <3> DEFINE p == Head(x.queue)
               y == [x EXCEPT !.phase = "sent", !.body = Content(p)]
    <3>1. Hand(s, y) /\ x.phase = "next" BY <1>3, <2>4 DEF ReadBody
    <3>2. x.queue \in Seq(Photo) /\ x.queue # << >>
      BY <1>1, <3>1 DEF CameraInv, CameraTypes, Sender1
    <3>3. p \in Photo BY <3>2, HeadTailProperties
    <3> HIDE DEF p
    <3>4. Content(p) \in Body1 /\ Content(p).photo = p
      BY <1>1, <3>3 DEF Content, Body1
    <3>5. /\ y \in Sender1 /\ y.phase = "sent" /\ y.body = Content(p)
      BY <1>1, <3>4 DEF Sender1
    <3> HIDE DEF y
    <3>6. sender'[s] = y => Fits(sender[s])'
      BY <2>1, <3>3, <3>4, <3>5 DEF Fits, Content
    <3> QED BY <1>1, <2>1, <2>2, <3>1, <3>5, <3>6, HandKeeps
  <2> QED BY <2>3, <2>4
<1>4. CASE UploadFails(s)
  <2>1. /\ Hand(s, Next1(s)) /\ UNCHANGED <<shot, watch>> /\ gallery \subseteq gallery'
    BY <1>4 DEF UploadFails
  <2>2. DoneWasSent' BY <2>1 DEF CameraInv, DoneWasSent
  <2> QED BY <1>1, <1>2, <2>1, <2>2, HandKeeps
<1>5. CASE UploadSucceeds(s)
  <2>1. /\ x.phase = "sent" /\ gallery' = gallery \cup {x.body}
        /\ watch' = Marked(s) /\ UNCHANGED shot
    BY <1>5 DEF UploadSucceeds
  <2>2. x.body.photo \in Photo BY <2>1 DEF CameraInv, InHand
  <2>3. watch' \in W /\ watch'.done \subseteq watch.done \cup {x.body.photo}
    BY <1>1, <2>1, <2>2 DEF Marked
  <2>4. DoneWasSent' BY <2>1, <2>3 DEF CameraInv, DoneWasSent
  <2>5. CASE Hand(s, Next1(s))
    BY <1>1, <1>2, <2>1, <2>3, <2>4, <2>5, HandKeeps
  <2>6. CASE ~Hand(s, Next1(s))
    <3> DEFINE y == [x EXCEPT !.phase = "remove"]
    <3>1. Hand(s, y) BY <1>5, <2>6 DEF UploadSucceeds
    <3>2. /\ y \in Sender1 /\ y.phase = "remove" /\ y.body = x.body /\ y.calm = x.calm
      BY <1>1 DEF Sender1
    <3> HIDE DEF y
    <3>3. x.calm => \/ shot[x.body.photo].size = 0
                    \/ Content(x.body.photo) = x.body
      BY <2>1 DEF CameraInv, InHand
    <3>4. sender'[s] = y => Fits(sender[s])'
      BY <2>1, <2>2, <3>2, <3>3 DEF Fits, Content
    <3> QED BY <1>1, <2>1, <2>3, <2>4, <3>1, <3>2, <3>4, HandKeeps
  <2> QED BY <2>5, <2>6
<1>6. CASE RemoveUploaded(s)
  <2>1. /\ x.phase = "remove" /\ Hand(s, Next1(s)) /\ UNCHANGED <<watch, gallery>>
        /\ shot' \in {shot, [shot EXCEPT ![x.body.photo].size = 0]}
    BY <1>6 DEF RemoveUploaded
  <2>2. /\ shot' \in [Photo -> [gen : Nat, size : Nat]]
        /\ \A p \in Photo : shot'[p] = shot[p] \/ shot'[p].size = 0
    <3> DEFINE p == x.body.photo
    <3>1. p \in Photo BY <2>1 DEF CameraInv, InHand
    <3>2. shot' = shot \/ shot' = [shot EXCEPT ![p].size = 0] BY <2>1
    <3> HIDE DEF p, x
    <3>3. CASE shot' = shot BY <1>1, <3>3
    <3>4. CASE shot' = [shot EXCEPT ![p].size = 0]
      <4> DEFINE y == [shot[p] EXCEPT !.size = 0]
      <4>1. shot[p] \in [gen : Nat, size : Nat] BY <1>1, <3>1
      <4>2. y \in [gen : Nat, size : Nat] /\ y.size = 0 BY <4>1
      <4>3. shot' = [shot EXCEPT ![p] = y] BY <3>4
      <4> HIDE DEF y
      <4> QED BY <1>1, <3>1, <4>2, <4>3
    <3> QED BY <3>2, <3>3, <3>4
  <2>3. DoneWasSent' BY <2>1 DEF CameraInv, DoneWasSent
  <2> QED BY <1>1, <1>2, <2>1, <2>2, <2>3, HandKeeps
<1> QED BY <1>3, <1>4, <1>5, <1>6

LEMMA StepsKeep == CameraInv /\ [CameraNext]_cameraVars => CameraInv'
<1> SUFFICES ASSUME CameraInv, [CameraNext]_cameraVars PROVE CameraInv' OBVIOUS
<1>1. CASE Tick \/ LatePass BY <1>1, TicksKeep
<1>2. CASE SendPhotos
  <2>0. PICK ps \in SUBSET Present : \E q \in Orders(ps) :
          /\ q # << >>
          /\ sender' = [sender EXCEPT !["tab"] = [Unsent EXCEPT !.phase = "next", !.queue = q]]
    BY <1>2 DEF SendPhotos
  <2>1. PICK q \in Orders(ps) :
          /\ q # << >>
          /\ sender' = [sender EXCEPT !["tab"] = [Unsent EXCEPT !.phase = "next", !.queue = q]]
    BY <2>0
  <2> DEFINE x == [Unsent EXCEPT !.phase = "next", !.queue = q]
  <2>2. q \in Seq(Photo)
    BY OrdersAreSequences, ps \in SUBSET Photo DEF Present
  <2>3. x \in Sender1 /\ x.phase = "next" /\ x.queue # << >>
    BY <2>1, <2>2 DEF Unsent, Nothing, Sender1, Body1
  <2>4. Hand("tab", x) /\ UNCHANGED <<shot, watch, gallery>>
    BY <1>2, <2>1 DEF Hand, SendPhotos
  <2> HIDE DEF x
  <2>5. sender'["tab"] = x => Fits(sender["tab"])' BY <2>3 DEF Fits
  <2>6. DoneWasSent' BY <2>4 DEF CameraInv, DoneWasSent
  <2>7. /\ shot' \in [Photo -> [gen : Nat, size : Nat]]
        /\ watch' \in [seen : [Photo -> Nat], done : SUBSET Photo, waiting : BOOLEAN]
    BY <2>4 DEF CameraInv, CameraTypes
  <2> QED BY <2>3, <2>4, <2>5, <2>6, <2>7, HandKeeps DEF Senders
<1>3. CASE \E p \in Photo : Shoot(p) \/ Grow(p) BY <1>3, WritersKeep
<1>4. CASE \E s \in Senders :
             ReadBody(s) \/ UploadFails(s) \/ UploadSucceeds(s) \/ RemoveUploaded(s)
  BY <1>4, SendersKeep
<1>5. CASE UNCHANGED cameraVars
  BY <1>5 DEF cameraVars, CameraInv, CameraTypes, InHand, DoneWasSent, Content
<1> QED BY <1>1, <1>2, <1>3, <1>4, <1>5 DEF CameraNext

(* No photo of the camera folder is marked as done before a file of that   *)
(* name reached the gallery, however ticks, the Photos tab, writers and    *)
(* failed uploads interleave.                                              *)
THEOREM NothingIsGivenUp == CameraSpec => []DoneWasSent
<1>1. CameraInv => DoneWasSent BY DEF CameraInv
<1> QED BY <1>1, CameraStarts, StepsKeep, PTL DEF CameraSpec

(* Only removeUploaded makes a photo disappear, and what it removes is in  *)
(* the gallery as it was, unless somebody wrote it since the upload read   *)
(* it: for any number of photos and files, and whichever upload removes.   *)
THEOREM NothingIsLost == CameraSpec => RemovedIsKept
<1> DEFINE Kept ==
      \A p \in Photo :
        shot[p].size > 0 /\ shot'[p].size = 0
          => \E s \in Senders : /\ sender[s].phase = "remove" /\ sender[s].body.photo = p
                                /\ sender[s].calm => Content(p) \in gallery
<1>1. CameraInv /\ [CameraNext]_cameraVars => [Kept]_cameraVars
  <2> SUFFICES ASSUME CameraInv, CameraNext, NEW p \in Photo,
                      shot[p].size > 0, shot'[p].size = 0
               PROVE  \E s \in Senders :
                        /\ sender[s].phase = "remove" /\ sender[s].body.photo = p
                        /\ sender[s].calm => Content(p) \in gallery
    OBVIOUS
  <2>1. shot \in [Photo -> [gen : Nat, size : Nat]] BY DEF CameraInv, CameraTypes
  <2>2. ~UNCHANGED shot BY <2>1
  <2>3. CASE \E s \in Senders : RemoveUploaded(s)
    <3>1. PICK s \in Senders : RemoveUploaded(s) BY <2>3
    <3>2. sender[s].phase = "remove" /\ shot' = [shot EXCEPT ![sender[s].body.photo].size = 0]
      BY <2>2, <3>1 DEF RemoveUploaded
    <3>3. sender[s].body.photo = p BY <2>1, <3>2
    <3> QED BY <3>2, <3>3 DEF CameraInv, InHand
  <2>4. CASE \E o \in Photo : Shoot(o) \/ Grow(o)
    <3>1. PICK o \in Photo : Shoot(o) \/ Grow(o) BY <2>4
    <3>2. shot'[o].size > 0 /\ (o # p => shot'[p] = shot[p]) BY <3>1, WritersKeep
    <3> QED BY <2>1, <3>2
  <2>5. Tick \/ LatePass \/ SendPhotos => UNCHANGED shot
    BY DEF Tick, LatePass, SendPhotos
  <2>6. \A s \in Senders : ReadBody(s) \/ UploadFails(s) \/ UploadSucceeds(s) => UNCHANGED shot
    BY DEF ReadBody, UploadFails, UploadSucceeds
  <2> QED BY <2>2, <2>3, <2>4, <2>5, <2>6 DEF CameraNext
<1> QED BY <1>1, CameraStarts, StepsKeep, PTL DEF CameraSpec, RemovedIsKept

-----------------------------------------------------------------------------
(* As long as no pass outlasted a tick, the size that the watcher saw is   *)
(* that of the file now only if nobody wrote it since the last tick.  What *)
(* has settled is therefore whole, or its writer has stalled, or it is not *)
(* the first file of its name; and that stays so while it waits its turn.  *)
Camera1 == [ticks : Nat, wrote : SUBSET Photo, stalled : SUBSET (Photo \X Nat), late : BOOLEAN]
SeenIsOld(p) ==
  /\ shot[p].size <= Full
  /\ shot[p].gen = 0 => shot[p].size = 0 /\ watch.seen[p] = 0
  /\ shot[p].gen = 1 /\ shot[p].size > 0 =>
       watch.seen[p] <= shot[p].size /\ (watch.seen[p] = shot[p].size => p \notin camera.wrote)
Quiet(p) ==
  /\ shot[p].gen > 0
  /\ shot[p].gen = 1 => shot[p].size \in {0, Full} \/ <<p, 1>> \in camera.stalled
HalvesWait ==
  /\ ~watch.waiting
  /\ \A p \in Photo : SeenIsOld(p)
  /\ \A n \in DOMAIN sender["watcher"].queue : Quiet(sender["watcher"].queue[n])
  /\ HalvesStayHere
HalfInv == CameraInv /\ camera \in Camera1 /\ (~camera.late => HalvesWait)

LEMMA HalfStarts == CameraInit => HalfInv
<1> SUFFICES ASSUME CameraInit PROVE HalfInv
  OBVIOUS
<1>1. camera \in Camera1
  BY DEF CameraInit, Camera1
<1>2. HalvesWait
  BY FullAssumption
  DEF CameraInit, HalvesWait, SeenIsOld, HalvesStayHere, Unsent, Nothing, Senders
<1> QED
  BY <1>1, <1>2, CameraStarts DEF HalfInv

(* What has settled is quiet from this tick on.                            *)
LEMMA SettledIsQuiet ==
  ASSUME CameraTypes, camera \in Camera1, HalvesWait, NEW p \in Settled,
         camera'.stalled = camera.stalled \cup
           {<<q, shot[q].gen>> : q \in {q \in Present \ camera.wrote : shot[q].size < Full}},
         UNCHANGED shot
  PROVE  Quiet(p)'
<1>1. /\ p \in Photo /\ shot[p].size \in Nat /\ shot[p].size > 0 /\ shot[p].gen \in Nat
      /\ watch.seen[p] = shot[p].size /\ p \in Present
  BY DEF Settled, Present, CameraTypes
<1>2. SeenIsOld(p)
  BY <1>1 DEF HalvesWait
<1>3. shot[p].gen > 0
  BY <1>1, <1>2 DEF SeenIsOld
<1>4. CASE shot[p].gen = 1 /\ shot[p].size # Full
  <2>1. p \in {q \in Present \ camera.wrote : shot[q].size < Full}
    BY <1>1, <1>2, <1>4, FullAssumption DEF SeenIsOld
  <2>2. <<p, shot[p].gen>> \in camera'.stalled
    BY <2>1
  <2> QED
    BY <1>3, <1>4, <2>2 DEF Quiet
<1> QED
  BY <1>3, <1>4 DEF Quiet

(* What a tick notes: who wrote is forgotten, who stalled is added.        *)
Stalling == {<<p, shot[p].gen>> : p \in {q \in Present \ camera.wrote : shot[q].size < Full}}
LEMMA TickIsNoted ==
  ASSUME CameraTypes, camera \in Camera1, Tick
  PROVE  /\ camera' \in Camera1 /\ camera'.wrote = {}
         /\ camera'.stalled = camera.stalled \cup Stalling
         /\ camera'.late <=> camera.late \/ Busy
<1> DEFINE b == camera.late \/ Busy
           S == Stalling
           k == [camera EXCEPT !.ticks = @ + 1]
           m == [k EXCEPT !.wrote = {}]
           n == [m EXCEPT !.late = b]
<1>1. S \subseteq Photo \X Nat
  BY DEF Stalling, CameraTypes, Present
<1>2. camera' = [n EXCEPT !.stalled = @ \cup S]
  BY DEF Tick, Stalling, Camera1
<1>3. m \in Camera1 /\ m.wrote = {} /\ m.stalled = camera.stalled
  <2>1. k \in Camera1 /\ k.stalled = camera.stalled
    BY DEF Camera1
  <2> HIDE DEF k
  <2>2. m \in [ticks : Nat, wrote : SUBSET Photo, stalled : SUBSET (Photo \X Nat), late : BOOLEAN]
    BY <2>1 DEF Camera1
  <2> QED
    BY <2>1, <2>2 DEF Camera1
<1>4. b \in BOOLEAN /\ (b <=> camera.late \/ Busy)
  BY DEF Camera1, Busy
<1> HIDE DEF b, S, m
<1>5. n \in Camera1 /\ n.wrote = {} /\ n.stalled = camera.stalled /\ n.late = b
  BY <1>3, <1>4 DEF Camera1
<1> HIDE DEF n
<1>6. /\ camera' \in Camera1 /\ camera'.wrote = {} /\ camera'.stalled = camera.stalled \cup S
      /\ camera'.late = b
  BY <1>1, <1>2, <1>5 DEF Camera1
<1> QED
  BY <1>4, <1>6 DEF S

LEMMA TicksWait ==
  ASSUME CameraInv, camera \in Camera1, HalvesWait, Tick, ~camera'.late
  PROVE  camera' \in Camera1 /\ HalvesWait'
<1>1. CameraTypes
  BY DEF CameraInv
<1>4. /\ camera' \in Camera1 /\ camera'.wrote = {}
      /\ camera'.stalled = camera.stalled \cup Stalling
      /\ (camera'.late <=> camera.late \/ Busy)
  BY <1>1, TickIsNoted
<1>5. ~Busy /\ UNCHANGED shot /\ Pass
  BY <1>4 DEF Tick
<1>6. CASE UNCHANGED <<watch, sender>>
  <2>1. \A p \in Photo : SeenIsOld(p)'
    BY <1>4, <1>5, <1>6 DEF HalvesWait, SeenIsOld
  <2>2. \A p : Quiet(p) => Quiet(p)'
    BY <1>4, <1>5 DEF Quiet
  <2> QED
    BY <1>4, <1>5, <1>6, <2>1, <2>2 DEF HalvesWait, HalvesStayHere, Busy
<1>7. CASE Starts
  <2>1. PICK q \in Orders(Settled), delete \in BOOLEAN :
          sender' = [sender EXCEPT !["watcher"] =
            [Unsent EXCEPT !.phase = IF q = << >> THEN "off" ELSE "next",
                           !.queue = q, !.delete = delete]]
    BY <1>7 DEF Starts
  <2>2. sender'["watcher"].queue = q /\ sender'["watcher"].phase # "sent"
    BY <1>1, <2>1 DEF Unsent, CameraTypes, Senders
  <2>3. \A n \in DOMAIN q : q[n] \in Settled
    BY DEF Orders
  <2>4. \A p \in Settled : Quiet(p)'
    BY <1>1, <1>4, <1>5, SettledIsQuiet DEF Stalling
  <2>5. watch' = [watch EXCEPT !.seen = SeenNow, !.waiting = FALSE]
    BY <1>7 DEF Starts
  <2>6. /\ ~watch'.waiting
        /\ \A p \in Photo : watch'.seen[p] \in {0, shot[p].size}
    BY <1>1, <2>5 DEF SeenNow, CameraTypes
  <2>7. ASSUME NEW p \in Photo PROVE SeenIsOld(p)'
    <3>1. SeenIsOld(p) /\ shot[p].size \in Nat
      BY <1>1 DEF HalvesWait, CameraTypes
    <3> QED
      BY <1>4, <1>5, <2>6, <3>1 DEF SeenIsOld
  <2> QED
    BY <1>4, <2>2, <2>3, <2>4, <2>6, <2>7 DEF HalvesWait, HalvesStayHere
<1> QED
  BY <1>5, <1>6, <1>7 DEF Pass, Starts

(* A program writes the file p.                                            *)
LEMMA WritersWait ==
  ASSUME CameraInv, camera \in Camera1, NEW p \in Photo, Shoot(p) \/ Grow(p)
  PROVE  camera' \in Camera1 /\ (~camera'.late => ~camera.late)
         /\ (~camera.late /\ HalvesWait => HalvesWait')
<1>1. PICK to : /\ shot' = [shot EXCEPT ![p] = to]
                /\ camera' = [camera EXCEPT !.wrote = @ \cup {p}]
                /\ sender' = [s \in Senders |-> IF sender[s].body.photo = p
                                THEN [sender[s] EXCEPT !.calm = FALSE] ELSE sender[s]]
                /\ UNCHANGED <<watch, gallery>>
                /\ to \in {[gen |-> shot[p].gen + 1, size |-> 1],
                           [shot[p] EXCEPT !.size = @ + 1]}
  BY DEF Shoot, Grow, Writes1
<1>2. /\ CameraTypes /\ shot[p].gen \in Nat /\ shot[p].size \in Nat
  BY DEF CameraInv, CameraTypes
<1>3. /\ camera' \in Camera1 /\ camera'.stalled = camera.stalled
      /\ camera'.late = camera.late /\ camera'.wrote = camera.wrote \cup {p}
  BY <1>1 DEF Camera1
<1>4. \A q \in Photo : shot'[q] = IF q = p THEN to ELSE shot[q]
  BY <1>1, <1>2 DEF CameraTypes
<1>5. \/ shot[p].size \in {0, Full} /\ to.gen = shot[p].gen + 1 /\ to.size = 1
      \/ shot[p].size \in 1 .. Full - 1 /\ to.gen = shot[p].gen /\ to.size = shot[p].size + 1
  <2>1. CASE Shoot(p)
    <3>1. shot' = [shot EXCEPT ![p] = [gen |-> shot[p].gen + 1, size |-> 1]]
          /\ shot[p].size \in {0, Full}
      BY <2>1 DEF Shoot, Writes1
    <3>2. shot'[p] = [gen |-> shot[p].gen + 1, size |-> 1]
      BY <1>2, <3>1 DEF CameraTypes
    <3> QED
      BY <1>4, <3>1, <3>2
  <2>2. CASE Grow(p)
    <3>1. shot' = [shot EXCEPT ![p] = [shot[p] EXCEPT !.size = @ + 1]]
          /\ shot[p].size \in 1 .. Full - 1
      BY <2>2 DEF Grow, Writes1
    <3>2. shot'[p] = [shot[p] EXCEPT !.size = @ + 1] /\ shot[p] \in [gen : Nat, size : Nat]
      BY <1>2, <3>1 DEF CameraTypes
    <3> QED
      BY <1>4, <3>1, <3>2
  <2> QED
    BY <2>1, <2>2
<1>6. ASSUME HalvesWait, ~camera.late PROVE HalvesWait'
  <2>1. ASSUME NEW q \in Photo PROVE SeenIsOld(q)'
    <3>1. SeenIsOld(q) /\ watch.seen[q] \in Nat /\ shot[q].size \in Nat
      BY <1>2, <1>6 DEF HalvesWait, CameraTypes
    <3>2. CASE q = p
      BY <1>1, <1>2, <1>4, <1>5, <3>1, <3>2, FullAssumption DEF SeenIsOld
    <3>3. CASE q # p
      BY <1>1, <1>3, <1>4, <3>1, <3>3 DEF SeenIsOld
    <3> QED
      BY <3>2, <3>3
  <2>2. ASSUME NEW q \in Photo, Quiet(q) PROVE Quiet(q)'
    <3>1. CASE q = p
      BY <1>2, <1>3, <1>4, <1>5, <2>2, <3>1, FullAssumption DEF Quiet
    <3>2. CASE q # p
      BY <1>3, <1>4, <2>2, <3>2 DEF Quiet
    <3> QED
      BY <3>1, <3>2
  <2>3. /\ sender'["watcher"].queue = sender["watcher"].queue
        /\ sender'["watcher"].phase = sender["watcher"].phase
        /\ sender'["watcher"].body = sender["watcher"].body
        /\ sender["watcher"].queue \in Seq(Photo)
    BY <1>1, <1>2 DEF CameraTypes, Sender1, Senders
  <2>4. \A n \in DOMAIN sender["watcher"].queue : sender["watcher"].queue[n] \in Photo
    BY <2>3
  <2> QED
    BY <1>1, <1>3, <1>6, <2>1, <2>2, <2>3, <2>4 DEF HalvesWait, HalvesStayHere
<1> QED
  BY <1>3, <1>6

(* The uploads: the watcher's queue only becomes shorter.                  *)
LEMMA TailIsQuiet ==
  ASSUME CameraTypes, HalvesWait,
         NEW n \in DOMAIN Next1("watcher").queue
  PROVE  Quiet(Next1("watcher").queue[n])
<1> DEFINE x == sender["watcher"]
<1>1. x \in Sender1 /\ x.queue \in Seq(Photo)
  BY DEF CameraTypes, Sender1, Senders
<1>2. CASE Len(x.queue) > 1
  <2> DEFINE t == Tail(x.queue)
  <2>1. Next1("watcher") = [x EXCEPT !.phase = "next", !.queue = t, !.body = Nothing,
                                     !.calm = TRUE]
    BY <1>2 DEF Next1
  <2>2. x.queue # << >>
    BY <1>2
  <2> HIDE DEF x
  <2>3. /\ DOMAIN x.queue = 1 .. Len(x.queue) /\ Len(x.queue) \in Nat
        /\ DOMAIN t = 1 .. Len(x.queue) - 1
        /\ \A k \in 1 .. Len(x.queue) - 1 : t[k] = x.queue[k + 1]
    <3>1. t \in Seq(Photo) /\ Len(t) = Len(x.queue) - 1
          /\ \A k \in 1 .. Len(t) : t[k] = x.queue[k + 1]
      BY <1>1, <2>2, HeadTailProperties
    <3> HIDE DEF t
    <3> QED
      BY <1>1, <3>1
  <2> HIDE DEF t
  <2>4. Next1("watcher").queue = t
    BY <1>1, <2>1 DEF Sender1
  <2>5. n \in 1 .. Len(x.queue) - 1
    BY <2>3, <2>4
  <2>6. n + 1 \in DOMAIN x.queue /\ t[n] = x.queue[n + 1]
    BY <2>3, <2>5
  <2> QED
    BY <2>4, <2>6 DEF HalvesWait, x
<1>3. CASE ~(Len(x.queue) > 1)
  BY <1>3 DEF Next1, Unsent
<1> QED
  BY <1>2, <1>3

LEMMA UploadsWait ==
  ASSUME CameraInv, camera \in Camera1, HalvesWait, ~camera.late, NEW s \in Senders,
         ReadBody(s) \/ UploadFails(s) \/ UploadSucceeds(s) \/ RemoveUploaded(s)
  PROVE  HalvesWait'
<1> DEFINE x == sender["watcher"]
           y == sender'["watcher"]
<1>1. /\ CameraTypes /\ x \in Sender1 /\ UNCHANGED camera
      /\ x.queue \in Seq(Photo) /\ sender \in [Senders -> Sender1]
  BY DEF CameraInv, CameraTypes, Sender1, Senders, ReadBody, UploadFails, UploadSucceeds,
         RemoveUploaded
<1>2. \A p \in Photo : shot'[p] = shot[p] \/ (shot'[p].size = 0 /\ shot'[p].gen = shot[p].gen)
  <2>1. CASE RemoveUploaded(s)
    <3> DEFINE p == sender[s].body.photo
    <3>1. shot' = shot \/ shot' = [shot EXCEPT ![p].size = 0]
      BY <2>1 DEF RemoveUploaded
    <3> HIDE DEF p
    <3> QED
      BY <1>1, <3>1 DEF CameraTypes
  <2>2. CASE ~RemoveUploaded(s)
    BY <2>2 DEF ReadBody, UploadFails, UploadSucceeds
  <2> QED
    BY <2>1, <2>2
<1>3. ~watch'.waiting /\ \A p \in Photo : watch'.seen[p] \in {watch.seen[p], 0}
  <2>1. CASE UNCHANGED watch
    BY <2>1 DEF HalvesWait
  <2>2. CASE watch' = Marked(s)
    <3> DEFINE p == sender[s].body.photo
               m == [watch EXCEPT !.done = @ \cup {p}]
               z == [watch.seen EXCEPT ![p] = 0]
    <3>1. watch' = watch \/ watch' = [m EXCEPT !.seen[p] = 0]
      BY <2>2 DEF Marked
    <3>2. m.seen = watch.seen /\ m.waiting = watch.waiting /\ DOMAIN m = DOMAIN watch
          /\ "seen" \in DOMAIN watch /\ "waiting" \in DOMAIN watch
      BY <1>1 DEF CameraTypes
    <3>3. [m EXCEPT !.seen[p] = 0].seen = z /\ [m EXCEPT !.seen[p] = 0].waiting = watch.waiting
      <4> HIDE DEF m, p
      <4> QED
        BY <3>2
    <3>4. \A q \in Photo : z[q] \in {watch.seen[q], 0}
      <4> HIDE DEF p
      <4> QED
        BY <1>1 DEF CameraTypes
    <3> HIDE DEF m, z
    <3> QED
      BY <3>1, <3>3, <3>4 DEF HalvesWait
  <2> QED
    BY <2>1, <2>2 DEF ReadBody, UploadFails, UploadSucceeds, RemoveUploaded
<1>4. ASSUME NEW p \in Photo PROVE SeenIsOld(p)' /\ (Quiet(p) => Quiet(p)')
  <2>1. /\ SeenIsOld(p) /\ watch.seen[p] \in Nat /\ shot[p].size \in Nat
        /\ watch'.seen[p] \in {watch.seen[p], 0}
        /\ shot'[p] = shot[p] \/ (shot'[p].size = 0 /\ shot'[p].gen = shot[p].gen)
    BY <1>1, <1>2, <1>3 DEF HalvesWait, CameraTypes
  <2> QED
    BY <1>1, <2>1, FullAssumption DEF SeenIsOld, Quiet
<1>5. /\ \A n \in DOMAIN y.queue : y.queue[n] \in Photo /\ Quiet(y.queue[n])
      /\ y.phase = "sent" /\ y.body.gen = 1 =>
           y.body.size = Full \/ <<y.body.photo, y.body.gen>> \in camera.stalled
  <2>0. \A n \in DOMAIN x.queue : x.queue[n] \in Photo /\ Quiet(x.queue[n])
    BY <1>1 DEF HalvesWait
  <2>1. CASE s # "watcher"
    <3>1. y = x
      BY <1>1, <2>1 DEF Senders, Hand, ReadBody, UploadFails, UploadSucceeds, RemoveUploaded
    <3> QED
      BY <2>0, <3>1 DEF HalvesWait, HalvesStayHere
  <2>2. CASE y = Next1("watcher")
    <3>1. Next1("watcher") \in Sender1 /\ Next1("watcher").phase # "sent"
      BY <1>1, NextIsSender DEF Senders
    <3>2. \A n \in DOMAIN Next1("watcher").queue : Next1("watcher").queue[n] \in Photo
      BY <3>1 DEF Sender1
    <3> QED
      BY <1>1, <2>2, <3>1, <3>2, TailIsQuiet
  <2>3. CASE y = [x EXCEPT !.phase = "remove"]
    <3>1. y.queue = x.queue /\ y.phase = "remove"
      BY <1>1, <2>3 DEF Sender1
    <3> HIDE DEF x, y
    <3> QED
      BY <2>0, <3>1
  <2>4. CASE /\ s = "watcher" /\ x.phase = "next" /\ shot[Head(x.queue)].size # 0
             /\ y = [x EXCEPT !.phase = "sent", !.body = Content(Head(x.queue))]
    <3> DEFINE p == Head(x.queue)
    <3>1. x.queue # << >>
      BY <2>4 DEF CameraInv, CameraTypes, Senders
    <3>2. p = x.queue[1] /\ 1 \in DOMAIN x.queue
      <4> HIDE DEF x
      <4> QED
        BY <1>1, <3>1
    <3>3. y.queue = x.queue /\ y.body = Content(p)
      BY <1>1, <2>4 DEF Sender1
    <3>4. Quiet(p)
      BY <2>0, <3>2
    <3> HIDE DEF x, y, p
    <3> QED
      BY <2>0, <2>4, <3>3, <3>4 DEF Quiet, Content, p
  <2>5. s = "watcher" =>
          \/ y = Next1("watcher")
          \/ y = [x EXCEPT !.phase = "remove"]
          \/ /\ x.phase = "next" /\ shot[Head(x.queue)].size # 0
             /\ y = [x EXCEPT !.phase = "sent", !.body = Content(Head(x.queue))]
    BY <1>1 DEF Hand, ReadBody, UploadFails, UploadSucceeds, RemoveUploaded
  <2> QED
    BY <2>1, <2>2, <2>3, <2>4, <2>5
<1> QED
  BY <1>1, <1>3, <1>4, <1>5 DEF HalvesWait, HalvesStayHere

LEMMA HalfKeeps == HalfInv /\ [CameraNext]_cameraVars => HalfInv'
<1> SUFFICES ASSUME HalfInv, [CameraNext]_cameraVars PROVE HalfInv'
  OBVIOUS
<1>1. CameraInv /\ CameraInv' /\ camera \in Camera1
  BY StepsKeep DEF HalfInv
<1>2. CASE Tick
  <2>1. camera' \in Camera1 /\ (camera.late => camera'.late)
    BY <1>1, <1>2, TickIsNoted DEF CameraInv
  <2> QED
    BY <1>1, <1>2, <2>1, TicksWait DEF HalfInv
<1>3. CASE LatePass
  <2>1. UNCHANGED camera /\ watch.waiting
    BY <1>3 DEF LatePass
  <2> QED
    BY <1>1, <2>1 DEF HalfInv, HalvesWait
<1>4. CASE SendPhotos
  <2>1. UNCHANGED <<shot, watch, camera>>
    BY <1>4 DEF SendPhotos
  <2>2. sender'["watcher"] = sender["watcher"]
    BY <1>1, <1>4 DEF SendPhotos, CameraInv, CameraTypes
  <2> QED
    BY <1>1, <2>1, <2>2 DEF HalfInv, HalvesWait, SeenIsOld, Quiet, HalvesStayHere
<1>5. CASE \E p \in Photo : Shoot(p) \/ Grow(p)
  BY <1>1, <1>5, WritersWait DEF HalfInv
<1>6. ASSUME NEW s \in Senders,
             ReadBody(s) \/ UploadFails(s) \/ UploadSucceeds(s) \/ RemoveUploaded(s)
      PROVE  HalfInv'
  <2>1. UNCHANGED camera
    BY <1>6 DEF ReadBody, UploadFails, UploadSucceeds, RemoveUploaded
  <2> QED
    BY <1>1, <1>6, <2>1, UploadsWait DEF HalfInv
<1>7. CASE UNCHANGED cameraVars
  BY <1>1, <1>7 DEF cameraVars, HalfInv, HalvesWait, SeenIsOld, Quiet, HalvesStayHere
<1> QED
  BY <1>2, <1>3, <1>4, <1>5, <1>6, <1>7 DEF CameraNext

(* "A poll that only takes files whose size stopped changing cannot upload *)
(* half a video": for any number of photos, writers, ticks and failures,   *)
(* while no pass outlasts a tick, and for a first file whose writer writes *)
(* in every interval.                                                      *)
THEOREM HalvesAreNotSent == CameraSpec => []HalvesStayHere
<1>1. HalfInv => HalvesStayHere
  BY DEF HalfInv, HalvesWait, HalvesStayHere
<1> QED
  BY <1>1, HalfStarts, HalfKeeps, PTL DEF CameraSpec
=============================================================================
