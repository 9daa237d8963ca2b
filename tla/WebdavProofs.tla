---------------------------- MODULE WebdavProofs ----------------------------
(***************************************************************************)
(* The drive, for any handlers, requests and paths, and whatever other     *)
(* clients do to the account meanwhile.  First, that the mutex of the      *)
(* snapshot is held by a handler that is reading the tree and by no other, *)
(* and that a read-only mount changes nothing.  Then, over a server whose  *)
(* rows are what its interface says: that a client sees its own writes,    *)
(* that what is reported as done was done, and that nothing is lost.       *)
(* Then, that the drive itself leaves the account such a server.  Last,    *)
(* the drive, the commands and Explorer's menu together.                   *)
(***************************************************************************)
EXTENDS WebdavBridge, FileCommandsProofs, FilesApiProofs, SequenceTheorems

(* What the two arguments need of a request: which phase it is in at which *)
(* of its methods.                                                         *)
Holding == {"fetch", "install"}
Looking == {"snapshot", "fetch", "install", "look"}
Phases  == Looking \cup {"idle", "write", "call", "close", "invalidate", "answer"}
Looks   == {"Stat", "OpenFile", "Mkdir", "RemoveAll", "Rename"}
Shaped(q) == /\ {"phase", "ask", "at", "api"} \subseteq DOMAIN q
             /\ q.ask \in Asks /\ q.at \in 1 .. Len(Methods(q.ask.kind))
Fine(q) ==
  /\ q.phase \in Phases
  /\ q.phase # "idle" => Shaped(q)
  /\ q.phase \in Looking => Method(q) \in Looks
  /\ q.phase = "close" => q.ask.kind \in {"GET", "PUT"} /\ Method(q) = "Close"

(* A request of a read-only mount is stopped before it asks for a change.  *)
Harmless(q) ==
  /\ q.phase \notin {"write", "invalidate"}
  /\ q.phase \in {"fetch", "install", "look"} => Method(q) \in {"Stat", "OpenFile"}
  /\ q.phase = "call"  =>
       q.api = "Download" /\ q.ask.kind = "GET" /\ Method(q) = "Read"
  /\ q.phase = "close" => q.ask.kind = "GET"

Held ==
  /\ mu \in Handler \cup {Nobody}
  /\ mu # Nobody => req[mu].phase \in Holding
  /\ \A h \in Handler : req[h].phase \in Holding => mu = h
ReadOnly ==
  /\ "readOnly" \in DOMAIN mount /\ "count" \in DOMAIN made
  /\ mount.readOnly => made.count = 0 /\ \A h \in Handler : Harmless(req[h])
BridgeInv == /\ DOMAIN req = Handler /\ \A h \in Handler : Fine(req[h])
             /\ Held /\ ReadOnly

LEMMA BridgeStarts == BridgeInit => BridgeInv
<1> SUFFICES ASSUME BridgeInit PROVE BridgeInv OBVIOUS
<1>1. DOMAIN req = Handler /\ \A h \in Handler : req[h] = Idle BY DEF BridgeInit
<1>2. Fine(Idle) /\ Harmless(Idle) /\ Idle.phase \notin Holding
  BY DEF Fine, Harmless, Idle, Phases, Looking, Holding
<1>3. Held BY <1>1, <1>2 DEF Held, BridgeInit
<1>4. ReadOnly BY <1>1, <1>2 DEF ReadOnly, BridgeInit
<1> QED BY <1>1, <1>2, <1>3, <1>4 DEF BridgeInv

(* Changing other fields of a request leaves these alone.                  *)
LEMMA NextIs ==
  ASSUME NEW q, Shaped(q)
  PROVE  LET r == NextMethod(q) IN
         /\ Fine(r) /\ r.phase \notin Holding \cup {"invalidate", "idle", "look"}
         /\ r.ask = q.ask /\ Shaped(r)
         /\ Method(q) = "Stat" => r.phase \in {"answer", "snapshot"}
         /\ r.phase = "write" => Method(q) = "OpenFile" /\ q.ask.kind = "PUT"
         /\ r.phase = "call"  => Method(q) = "OpenFile" /\ q.ask.kind = "GET"
         /\ r.phase = "close" => q.ask.kind \in {"GET", "PUT"}
<1> DEFINE k == q.ask.kind
           r == NextMethod(q)
<1>1. k \in Kinds /\ q.at \in 1 .. Len(Methods(k)) BY AsksAssumption DEF Shaped
<1>2. CASE q.at = Len(Methods(k))
  <2>1. r = [q EXCEPT !.phase = "answer", !.code = "ok"] BY <1>2 DEF NextMethod
  <2>2. r.phase = "answer" /\ r.ask = q.ask /\ r.at = q.at /\ DOMAIN r = DOMAIN q
    BY <2>1 DEF Shaped
  <2> HIDE DEF r
  <2>3. Shaped(r) BY <2>2 DEF Shaped
  <2>4. Fine(r) BY <2>2, <2>3 DEF Fine, Phases, Looking
  <2> QED BY <2>2, <2>3, <2>4 DEF Holding, r
<1>3. CASE q.at # Len(Methods(k))
  <2> DEFINE m == Methods(k)[q.at + 1]
  <2>1. r = [q EXCEPT !.at = @ + 1, !.api = "none", !.done = "none", !.phase = Begins[m]]
    BY <1>3 DEF NextMethod
  <2>2. /\ m \in {"RemoveAll", "Rename", "Read", "Write", "Close"}
        /\ q.at + 1 \in 1 .. Len(Methods(k))
        /\ m = "Read"  => Method(q) = "OpenFile" /\ k = "GET"
        /\ m = "Write" => Method(q) = "OpenFile" /\ k = "PUT"
        /\ m = "Close" => k \in {"GET", "PUT"}
        /\ Method(q) = "Stat" => m = "RemoveAll"
    <3>1. CASE k = "PROPFIND" BY <1>1, <1>3, <3>1 DEF Methods, Method
    <3>2. CASE k = "GET" BY <1>1, <1>3, <3>2 DEF Methods, Method
    <3>3. CASE k = "MKCOL" BY <1>1, <1>3, <3>3 DEF Methods, Method
    <3>4. CASE k = "DELETE" BY <1>1, <1>3, <3>4 DEF Methods, Method
    <3>5. CASE k = "PUT" BY <1>1, <1>3, <3>5 DEF Methods, Method
    <3>6. CASE k = "MOVE" BY <1>1, <1>3, <3>6 DEF Methods, Method
    <3> QED BY <1>1, <3>1, <3>2, <3>3, <3>4, <3>5, <3>6 DEF Kinds
  <2>3. /\ r.phase = Begins[m] /\ r.ask = q.ask /\ r.at = q.at + 1 /\ DOMAIN r = DOMAIN q
    BY <2>1 DEF Shaped
  <2>4. Method(r) = m BY <2>3 DEF Method
  <2> HIDE DEF r, m
  <2>5. Shaped(r) BY <2>2, <2>3 DEF Shaped
  <2>6. /\ m \in {"RemoveAll", "Rename"} => r.phase = "snapshot"
        /\ m = "Read"  => r.phase = "call"
        /\ m = "Write" => r.phase = "write"
        /\ m = "Close" => r.phase = "close"
    BY <2>3 DEF Begins
  <2>7. Fine(r) BY <2>2, <2>3, <2>4, <2>5, <2>6 DEF Fine, Phases, Looking, Looks
  <2> QED BY <2>2, <2>3, <2>5, <2>6, <2>7 DEF Holding, r
<1> QED BY <1>2, <1>3

(* A handler goes on with its request.                                     *)
LEMMA HandlerMoves ==
  ASSUME BridgeInv, NEW h \in Handler, NEW q, Goes(h, q), Fine(q),
         mount' = mount, "count" \in DOMAIN made',
         mount.readOnly => Harmless(q) /\ made'.count = made.count,
         \/ mu' = mu /\ (q.phase \in Holding <=> req[h].phase \in Holding)
         \/ mu' = h /\ mu = Nobody /\ q.phase \in Holding
         \/ mu' = Nobody /\ mu = h /\ q.phase \notin Holding
  PROVE  BridgeInv'
<1>1. req' = [req EXCEPT ![h] = q] /\ DOMAIN req = Handler BY DEF Goes, BridgeInv
<1>2. /\ DOMAIN req' = Handler /\ req'[h] = q
      /\ \A g \in Handler \ {h} : req'[g] = req[g]
  BY <1>1
<1>3. (\A g \in Handler : Fine(req[g]))' BY <1>2 DEF BridgeInv
<1>4. Held'
  <2>1. Held BY DEF BridgeInv
  <2> QED BY <1>2, <2>1, NobodyAssumption DEF Held
<1>5. ReadOnly' BY <1>2 DEF BridgeInv, ReadOnly
<1> QED BY <1>2, <1>3, <1>4, <1>5 DEF BridgeInv

(* The same when it neither takes nor frees the mutex.                     *)
LEMMA HandlerGoesOn ==
  ASSUME BridgeInv, NEW h \in Handler, NEW q, Goes(h, q), Fine(q),
         UNCHANGED <<mu, mount>>, "count" \in DOMAIN made',
         mount.readOnly => Harmless(q) /\ made'.count = made.count,
         q.phase \notin Holding, req[h].phase \notin Holding
  PROVE  BridgeInv'
BY HandlerMoves

(* A request that fails.                                                   *)
LEMMA FailIs ==
  ASSUME NEW q, Shaped(q)
  PROVE  /\ Fine(Fail(q)) /\ Harmless(Fail(q)) /\ Fail(q).phase = "answer"
<1>1. /\ Fail(q).phase = "answer" /\ Fail(q).ask = q.ask /\ Fail(q).at = q.at
      /\ DOMAIN Fail(q) = DOMAIN q
  BY DEF Fail, Shaped
<1> HIDE DEF Fail
<1> QED BY <1>1 DEF Fine, Harmless, Shaped, Phases, Looking

(* A request for which the server is asked.                                *)
LEMMA WantsIs ==
  ASSUME NEW q, Shaped(q), NEW api
  PROVE  /\ Shaped(Wants(q, api)) /\ Wants(q, api).phase = "call"
         /\ Wants(q, api).ask = q.ask
<1> DEFINE r == Wants(q, api)
<1>1. r.phase = "call" /\ r.ask = q.ask /\ r.at = q.at /\ DOMAIN r = DOMAIN q
  BY DEF Wants, Shaped
<1> HIDE DEF r
<1>2. Shaped(r) BY <1>1 DEF Shaped
<1> QED BY <1>1, <1>2 DEF r

-----------------------------------------------------------------------------
(* The steps of a handler.                                                 *)
LEMMA ReceiveKeeps ==
  ASSUME BridgeInv, NEW h \in Handler, Receive(h)
  PROVE  BridgeInv'
<1>1. PICK r \in Asks : Goes(h, Received(r)) BY DEF Receive
<1> DEFINE q == Received(r)
<1>2. /\ q.phase = "snapshot" /\ q.ask = r /\ q.at = 1
      /\ {"phase", "ask", "at", "api"} \subseteq DOMAIN q
  BY DEF Received
<1> HIDE DEF q
<1>3. r.kind \in Kinds BY AsksAssumption
<1>4. Methods(r.kind)[1] \in Looks /\ 1 \in 1 .. Len(Methods(r.kind))
  BY <1>3 DEF Kinds, Methods, Looks
<1>5. Fine(q) /\ Harmless(q)
  BY <1>2, <1>4 DEF Fine, Harmless, Shaped, Phases, Looking, Method
<1>6. /\ req[h].phase = "idle" /\ UNCHANGED <<mu, made>>
      /\ mount' = [mount EXCEPT !.left = @ - 1]
  BY DEF Receive
<1>7. /\ req' = [req EXCEPT ![h] = q] /\ DOMAIN req = Handler BY <1>1 DEF Goes, BridgeInv, q
<1>8. /\ DOMAIN req' = Handler /\ req'[h] = q
      /\ \A g \in Handler \ {h} : req'[g] = req[g]
  BY <1>7
<1>9. Held' BY <1>2, <1>6, <1>8 DEF Held, Holding, BridgeInv
<1>10. ReadOnly' BY <1>5, <1>6, <1>8 DEF ReadOnly, BridgeInv
<1>11. (\A g \in Handler : Fine(req[g]))' BY <1>5, <1>8 DEF BridgeInv
<1> QED BY <1>8, <1>9, <1>10, <1>11 DEF BridgeInv

LEMMA SnapshotKeeps ==
  ASSUME BridgeInv, NEW h \in Handler, Snapshot(h)
  PROVE  BridgeInv'
<1> DEFINE q == req[h]
<1>1. /\ q.phase = "snapshot" /\ Fine(q) /\ Shaped(q) /\ Method(q) \in Looks
      /\ UNCHANGED <<mount, made>> /\ "count" \in DOMAIN made
  BY DEF Snapshot, BridgeInv, Fine, Looking, ReadOnly
<1>2. CASE mount.readOnly /\ Writes(q)
  <2>1. Goes(h, Fail(q)) /\ UNCHANGED mu BY <1>2 DEF Snapshot
  <2> QED BY <1>1, <2>1, FailIs, HandlerGoesOn DEF Holding
<1>3. ASSUME NEW r, ~(mount.readOnly /\ Writes(q)), r.phase \in {"look", "fetch"},
             r.ask = q.ask, r.at = q.at, DOMAIN r = DOMAIN q
      PROVE  Fine(r) /\ (mount.readOnly => Harmless(r))
  <2>1. Shaped(r) /\ Method(r) = Method(q) BY <1>1, <1>3 DEF Shaped, Method
  <2>2. Fine(r) BY <1>1, <1>3, <2>1 DEF Fine, Phases, Looking
  <2>3. mount.readOnly => Method(q) \in {"Stat", "OpenFile"}
    BY <1>1, <1>3 DEF Writes, Looks
  <2> QED BY <1>3, <2>1, <2>2, <2>3 DEF Harmless
<1>4. CASE ~(mount.readOnly /\ Writes(q)) /\ Usable
  <2> DEFINE r == [q EXCEPT !.phase = "look"]
  <2>1. Goes(h, r) /\ UNCHANGED mu BY <1>4 DEF Snapshot
  <2>2. r.phase = "look" /\ r.ask = q.ask /\ r.at = q.at /\ DOMAIN r = DOMAIN q
    BY <1>1 DEF Shaped
  <2> HIDE DEF r
  <2>3. Fine(r) /\ (mount.readOnly => Harmless(r)) BY <1>3, <1>4, <2>2
  <2> QED BY <1>1, <2>1, <2>2, <2>3, HandlerGoesOn DEF Holding
<1>5. CASE ~(mount.readOnly /\ Writes(q)) /\ ~Usable
  <2> DEFINE r == [q EXCEPT !.phase = "fetch", !.tries = 1]
  <2>1. Goes(h, r) /\ mu = Nobody /\ mu' = h BY <1>5 DEF Snapshot
  <2>2. r.phase = "fetch" /\ r.ask = q.ask /\ r.at = q.at /\ DOMAIN r = DOMAIN q
    BY <1>1 DEF Shaped
  <2> HIDE DEF r
  <2>3. Fine(r) /\ (mount.readOnly => Harmless(r)) BY <1>3, <1>5, <2>2
  <2> QED BY <1>1, <2>1, <2>2, <2>3, HandlerMoves DEF Holding
<1> QED BY <1>2, <1>4, <1>5

LEMMA FetchKeeps ==
  ASSUME BridgeInv, NEW h \in Handler, Fetch(h) \/ Install(h)
  PROVE  BridgeInv'
<1> DEFINE q == req[h]
<1>1. /\ q.phase \in Holding /\ Fine(q) /\ Shaped(q) /\ mu = h
      /\ UNCHANGED <<mount, made>> /\ "count" \in DOMAIN made
      /\ Method(q) \in Looks
      /\ mount.readOnly => Method(q) \in {"Stat", "OpenFile"}
  BY DEF Fetch, Install, BridgeInv, Fine, Held, Holding, ReadOnly, Harmless, Looking
<1>2. ASSUME NEW r, r.phase \in {"look", "fetch", "install"}, r.ask = q.ask, r.at = q.at,
             DOMAIN r = DOMAIN q
      PROVE  Fine(r) /\ (mount.readOnly => Harmless(r))
  <2>1. Shaped(r) /\ Method(r) = Method(q) BY <1>1, <1>2 DEF Shaped, Method
  <2>2. Fine(r) BY <1>1, <1>2, <2>1 DEF Fine, Phases, Looking
  <2> QED BY <1>1, <1>2, <2>1, <2>2 DEF Harmless
<1>3. CASE q.phase = "fetch" /\ UNCHANGED mu /\ Goes(h, [q EXCEPT !.tries = @ + 1])
  <2> DEFINE r == [q EXCEPT !.tries = @ + 1]
  <2>1. r.phase = "fetch" /\ r.ask = q.ask /\ r.at = q.at /\ DOMAIN r = DOMAIN q
    BY <1>1, <1>3 DEF Shaped
  <2> HIDE DEF r
  <2>2. Fine(r) /\ (mount.readOnly => Harmless(r)) BY <1>2, <2>1
  <2>3. Goes(h, r) BY <1>3 DEF r
  <2> QED BY <1>1, <1>3, <2>1, <2>2, <2>3, HandlerMoves DEF Holding
<1>4. CASE UNCHANGED mu /\ Goes(h, [q EXCEPT !.phase = "install"])
  <2> DEFINE r == [q EXCEPT !.phase = "install"]
  <2>1. r.phase = "install" /\ r.ask = q.ask /\ r.at = q.at /\ DOMAIN r = DOMAIN q
    BY <1>1 DEF Shaped
  <2> HIDE DEF r
  <2>2. Fine(r) /\ (mount.readOnly => Harmless(r)) BY <1>2, <2>1
  <2>3. Goes(h, r) BY <1>4 DEF r
  <2> QED BY <1>1, <1>4, <2>1, <2>2, <2>3, HandlerMoves DEF Holding
<1>5. CASE mu' = Nobody /\ Goes(h, [q EXCEPT !.phase = "look"])
  <2> DEFINE r == [q EXCEPT !.phase = "look"]
  <2>1. r.phase = "look" /\ r.ask = q.ask /\ r.at = q.at /\ DOMAIN r = DOMAIN q
    BY <1>1 DEF Shaped
  <2> HIDE DEF r
  <2>2. Fine(r) /\ (mount.readOnly => Harmless(r)) BY <1>2, <2>1
  <2>3. Goes(h, r) BY <1>5 DEF r
  <2> QED BY <1>1, <1>5, <2>1, <2>2, <2>3, HandlerMoves DEF Holding
<1>6. CASE mu' = Nobody /\ Goes(h, Fail(q))
  BY <1>1, <1>6, FailIs, HandlerMoves DEF Holding
<1> QED BY <1>3, <1>4, <1>5, <1>6 DEF Fetch, Install, FetchFails

(* A request that the server is asked for, or that is answered: such a     *)
(* step is fine, and of a read-only mount when it downloads or answers.    *)
LEMMA AsksOrAnswers ==
  ASSUME NEW q, Shaped(q), NEW r, DOMAIN r = DOMAIN q, r.ask = q.ask, r.at = q.at,
         r.phase \in {"call", "answer", "invalidate"}
  PROVE  /\ Fine(r) /\ Shaped(r) /\ r.phase \notin Holding
         /\ r.phase = "answer" => Harmless(r)
<1>1. Shaped(r) BY DEF Shaped
<1> QED BY <1>1 DEF Fine, Harmless, Phases, Looking, Holding

LEMMA StatIs ==
  ASSUME NEW q, Shaped(q), Method(q) = "Stat"
  PROVE  Fine(StatAt(q)) /\ Harmless(StatAt(q)) /\ StatAt(q).phase \notin Holding
<1>1. q.ask.kind \in Kinds BY AsksAssumption DEF Shaped
<1>2. CASE StatAt(q) = NextMethod(q)
  BY <1>2, NextIs DEF Harmless, Holding
<1>3. CASE StatAt(q) = Fail(q) BY <1>3, FailIs DEF Holding
<1>4. CASE q.ask.kind = "MOVE" /\ StatAt(q) = [q EXCEPT !.at = 3, !.phase = "snapshot"]
  <2> DEFINE r == [q EXCEPT !.at = 3, !.phase = "snapshot"]
  <2>1. r.phase = "snapshot" /\ r.ask = q.ask /\ r.at = 3 /\ DOMAIN r = DOMAIN q
    BY DEF Shaped
  <2> HIDE DEF r
  <2>2. 3 \in 1 .. Len(Methods(q.ask.kind)) /\ Methods(q.ask.kind)[3] = "Rename"
    BY <1>4 DEF Methods
  <2>3. Fine(r) /\ Harmless(r)
    BY <2>1, <2>2 DEF Fine, Harmless, Shaped, Method, Looks, Phases, Looking
  <2> QED BY <1>4, <2>1, <2>3 DEF Holding, r
<1>5. \/ StatAt(q) \in {NextMethod(q), Fail(q)}
      \/ q.ask.kind = "MOVE" /\ StatAt(q) = [q EXCEPT !.at = 3, !.phase = "snapshot"]
  BY DEF StatAt
<1> QED BY <1>2, <1>3, <1>4, <1>5

(* The lookups of a change: it fails, is done already, or is asked for.    *)
LEMMA ChangeIs ==
  ASSUME NEW q, Shaped(q), NEW late,
         NEW r \in {MkdirAt(q), RemoveAt(q), RenameAt(q, late)}
  PROVE  Fine(r) /\ r.phase \notin Holding
<1>1. ASSUME NEW s, DOMAIN s = DOMAIN q, s.ask = q.ask, s.at = q.at,
             s.phase \in {"call", "answer", "invalidate"}
      PROVE  Fine(s) /\ s.phase \notin Holding
  BY <1>1, AsksOrAnswers
<1>2. Fine(Fail(q)) /\ Fail(q).phase \notin Holding BY FailIs DEF Holding
<1>3. CASE r = MkdirAt(q)
  <2> DEFINE s == [Wants(q, "CreateFolder") EXCEPT !.into = FolderId(Parent(q.ask.path)),
                                                  !.name = BaseOf(q.ask.path)]
  <2>1. DOMAIN s = DOMAIN q /\ s.ask = q.ask /\ s.at = q.at /\ s.phase = "call"
    BY DEF Wants, Shaped
  <2>2. r \in {Fail(q), s} BY <1>3 DEF MkdirAt
  <2> HIDE DEF s
  <2> QED BY <1>1, <1>2, <2>1, <2>2
<1>4. CASE r = RemoveAt(q)
  <2>1. PICK api, id : r \in {Fail(q), [Wants(q, api) EXCEPT !.id = id]}
    BY <1>4 DEF RemoveAt
  <2> DEFINE s == [Wants(q, api) EXCEPT !.id = id]
  <2>2. DOMAIN s = DOMAIN q /\ s.ask = q.ask /\ s.at = q.at /\ s.phase = "call"
    BY DEF Wants, Shaped
  <2> HIDE DEF s
  <2> QED BY <1>1, <1>2, <2>1, <2>2 DEF s
<1>5. CASE r = RenameAt(q, late)
  <2> DEFINE t == Placed(q, late)
  <2>1. DOMAIN t = DOMAIN q /\ t.ask = q.ask /\ t.at = q.at BY DEF Placed, Shaped
  <2> HIDE DEF t
  <2>2. \/ r = Fail(q)
        \/ r = [t EXCEPT !.phase = "answer", !.code = "ok"]
        \/ r = [t EXCEPT !.phase = "invalidate"]
        \/ \E api, id : r = [Wants(t, api) EXCEPT !.id = id]
        \/ \E api, id, ver : r = [[Wants(t, api) EXCEPT !.id = id] EXCEPT !.ver = ver]
    BY <1>5 DEF RenameAt, t
  <2>3. CASE r = Fail(q) BY <1>2, <2>3
  <2>4. CASE r = [t EXCEPT !.phase = "answer", !.code = "ok"]
    <3>1. DOMAIN r = DOMAIN q /\ r.ask = q.ask /\ r.at = q.at /\ r.phase = "answer"
      BY <2>1, <2>4 DEF Shaped
    <3> QED BY <1>1, <3>1
  <2>7. CASE r = [t EXCEPT !.phase = "invalidate"]
    <3>1. DOMAIN r = DOMAIN q /\ r.ask = q.ask /\ r.at = q.at /\ r.phase = "invalidate"
      BY <2>1, <2>7 DEF Shaped
    <3> QED BY <1>1, <3>1
  <2>5. ASSUME NEW api, NEW id, r = [Wants(t, api) EXCEPT !.id = id]
        PROVE  Fine(r) /\ r.phase \notin Holding
    <3>1. DOMAIN r = DOMAIN q /\ r.ask = q.ask /\ r.at = q.at /\ r.phase = "call"
      BY <2>1, <2>5 DEF Shaped, Wants
    <3> QED BY <1>1, <3>1
  <2>6. ASSUME NEW api, NEW id, NEW ver,
               r = [[Wants(t, api) EXCEPT !.id = id] EXCEPT !.ver = ver]
        PROVE  Fine(r) /\ r.phase \notin Holding
    <3> DEFINE w == [Wants(t, api) EXCEPT !.id = id]
    <3>1. DOMAIN w = DOMAIN q /\ w.ask = q.ask /\ w.at = q.at /\ w.phase = "call"
      BY <2>1 DEF Shaped, Wants
    <3> HIDE DEF w
    <3>2. DOMAIN r = DOMAIN q /\ r.ask = q.ask /\ r.at = q.at /\ r.phase = "call"
      BY <2>6, <3>1 DEF Shaped, w
    <3> QED BY <1>1, <3>2
  <2>8. CASE \E api, id : r = [Wants(t, api) EXCEPT !.id = id] BY <2>5, <2>8
  <2>9. CASE \E api, id, ver : r = [[Wants(t, api) EXCEPT !.id = id] EXCEPT !.ver = ver]
    BY <2>6, <2>9
  <2> QED BY <2>2, <2>3, <2>4, <2>7, <2>8, <2>9
<1> QED BY <1>3, <1>4, <1>5

LEMMA OpenIs ==
  ASSUME NEW q, Shaped(q), Method(q) = "OpenFile"
  PROVE  /\ Fine(OpenAt(q)) /\ OpenAt(q).phase \notin Holding
         /\ mount.readOnly => Harmless(OpenAt(q))
<1>1. /\ q.ask.kind \in {"GET", "PUT"} /\ q.at \in 1 .. Len(Methods(q.ask.kind))
      /\ q.at = 1
  <2>1. q.ask.kind \in Kinds /\ q.at \in 1 .. Len(Methods(q.ask.kind))
    BY AsksAssumption DEF Shaped
  <2> QED BY <2>1 DEF Kinds, Methods, Method
<1>2. CASE OpenAt(q) = Fail(q) BY <1>2, FailIs DEF Holding
<1>3. CASE OpenAt(q) # Fail(q)
  <2>1. PICK there : OpenAt(q) = Handle(q, there) BY <1>3 DEF OpenAt
  <2>2. mount.readOnly => q.ask.kind = "GET" BY <1>1, <1>3 DEF OpenAt
  <2> DEFINE s == NextMethod(q)
             r == Handle(q, there)
  <2>3. /\ Shaped(s) /\ s.ask = q.ask /\ s.phase \in {"call", "write"}
        /\ (q.ask.kind = "GET" => s.phase = "call" /\ Method(s) = "Read")
    <3> DEFINE m == Methods(q.ask.kind)[2]
    <3>1. /\ Len(Methods(q.ask.kind)) = 3 /\ m \in {"Read", "Write"}
          /\ q.ask.kind = "GET" => m = "Read"
      BY <1>1 DEF Methods
    <3>2. s = [q EXCEPT !.at = @ + 1, !.api = "none", !.done = "none", !.phase = Begins[m]]
      BY <1>1, <3>1 DEF NextMethod
    <3>3. s.phase = Begins[m] /\ Method(s) = m BY <1>1, <3>2 DEF Shaped, Method
    <3> HIDE DEF m, s
    <3>4. s.phase = IF m = "Read" THEN "call" ELSE "write" BY <3>1, <3>3 DEF Begins
    <3>5. Shaped(s) /\ s.ask = q.ask BY NextIs DEF s
    <3>6. q.ask.kind = "GET" => Method(s) = "Read" BY <3>1, <3>3
    <3>7. s.phase \in {"call", "write"} BY <3>4
    <3>8. q.ask.kind = "GET" => s.phase = "call" BY <3>1, <3>4
    <3> QED BY <3>5, <3>6, <3>7, <3>8
  <2> HIDE DEF s
  <2>4. /\ DOMAIN r = DOMAIN s /\ r.ask = s.ask /\ r.at = s.at /\ r.phase = s.phase
        /\ r.api = "Download"
    BY <2>3 DEF Handle, Shaped, s
  <2> HIDE DEF r
  <2>5. Shaped(r) BY <2>3, <2>4 DEF Shaped
  <2>6. Fine(r) /\ r.phase \notin Holding
    BY <2>3, <2>4, <2>5 DEF Fine, Phases, Looking, Holding
  <2>7. mount.readOnly => Harmless(r) BY <2>2, <2>3, <2>4 DEF Harmless, Method
  <2> QED BY <2>1, <2>6, <2>7 DEF r
<1> QED BY <1>2, <1>3

LEMMA LookupKeeps ==
  ASSUME BridgeInv, NEW h \in Handler, Lookup(h)
  PROVE  BridgeInv'
<1>0. PICK late \in BOOLEAN :
        LET q == [req[h] EXCEPT !.calm = @ /\ tree.set /\ ~late] IN
        Goes(h, CASE Method(q) = "Stat"      -> StatAt(q)
                  [] Method(q) = "Mkdir"     -> MkdirAt(q)
                  [] Method(q) = "RemoveAll" -> RemoveAt(q)
                  [] Method(q) = "Rename"    -> RenameAt(q, late)
                  [] Method(q) = "OpenFile"  -> OpenAt(q))
  BY DEF Lookup
<1> DEFINE q == [req[h] EXCEPT !.calm = @ /\ tree.set /\ ~late]
<1>1. /\ req[h].phase = "look" /\ Fine(req[h]) /\ Shaped(req[h])
      /\ Method(req[h]) \in Looks
      /\ mount.readOnly => Method(req[h]) \in {"Stat", "OpenFile"}
      /\ UNCHANGED <<mu, mount, made>> /\ "count" \in DOMAIN made
  BY DEF Lookup, BridgeInv, Fine, Looking, ReadOnly, Harmless
<1>2. DOMAIN q = DOMAIN req[h] /\ q.ask = req[h].ask /\ q.at = req[h].at
  BY <1>1 DEF Shaped
<1>3. Goes(h, CASE Method(q) = "Stat"      -> StatAt(q)
                [] Method(q) = "Mkdir"     -> MkdirAt(q)
                [] Method(q) = "RemoveAll" -> RemoveAt(q)
                [] Method(q) = "Rename"    -> RenameAt(q, late)
                [] Method(q) = "OpenFile"  -> OpenAt(q))
  BY <1>0
<1> HIDE DEF q
<1>4. Shaped(q) /\ Method(q) = Method(req[h]) BY <1>1, <1>2 DEF Shaped, Method
<1>5. ASSUME NEW r, Goes(h, r), Fine(r), r.phase \notin Holding,
             mount.readOnly => Harmless(r)
      PROVE  BridgeInv'
  BY <1>1, <1>5, HandlerGoesOn DEF Holding
<1>6. CASE Method(q) = "Stat" BY <1>3, <1>4, <1>5, <1>6, StatIs
<1>7. CASE Method(q) = "OpenFile" BY <1>3, <1>4, <1>5, <1>7, OpenIs
<1>8. CASE Method(q) \in {"Mkdir", "RemoveAll", "Rename"}
  <2>1. PICK r \in {MkdirAt(q), RemoveAt(q), RenameAt(q, late)} : Goes(h, r)
    BY <1>3, <1>8
  <2>2. ~mount.readOnly BY <1>1, <1>4, <1>8
  <2> QED BY <1>4, <1>5, <2>1, <2>2, ChangeIs
<1> QED BY <1>1, <1>4, <1>6, <1>7, <1>8 DEF Looks

(* A method that has ended, of a request that reads.                       *)
LEMMA NextIsHarmless ==
  ASSUME NEW q, Shaped(q), Method(q) \in {"Read", "Close"}, q.ask.kind = "GET"
  PROVE  Harmless(NextMethod(q))
BY NextIs DEF Harmless, Holding

LEMMA BodyKeeps ==
  ASSUME BridgeInv, NEW h \in Handler, WriteBody(h)
  PROVE  BridgeInv'
<1> DEFINE q == req[h]
           s == NextMethod(q)
<1>1. /\ q.phase = "write" /\ Shaped(q) /\ ~mount.readOnly
      /\ UNCHANGED <<mu, mount, made>> /\ "count" \in DOMAIN made
  BY DEF WriteBody, BridgeInv, Fine, ReadOnly, Harmless
<1>2. PICK body, code : Goes(h, [s EXCEPT !.body = body, !.code = code])
  BY DEF WriteBody
<1> DEFINE r == [s EXCEPT !.body = body, !.code = code]
<1>3. Fine(s) /\ s.phase \notin Holding /\ Shaped(s) BY <1>1, NextIs
<1> HIDE DEF s
<1>4. r.phase = s.phase /\ r.ask = s.ask /\ r.at = s.at /\ DOMAIN r = DOMAIN s
  BY <1>3 DEF Shaped
<1> HIDE DEF r
<1>5. Fine(r) BY <1>3, <1>4 DEF Fine, Shaped, Method
<1>6. Goes(h, r) BY <1>2 DEF r
<1> QED BY <1>1, <1>3, <1>4, <1>5, <1>6, HandlerGoesOn DEF Holding

LEMMA HandleKeeps ==
  ASSUME BridgeInv, NEW h \in Handler, CloseHandle(h)
  PROVE  BridgeInv'
<1> DEFINE q == req[h]
           t == [Wants(q, "UploadFile") EXCEPT !.into = FolderId(Parent(q.ask.path)),
                                               !.name = BaseOf(q.ask.path)]
<1>1. /\ q.phase = "close" /\ Shaped(q) /\ Method(q) = "Close"
      /\ q.ask.kind \in {"GET", "PUT"} /\ (mount.readOnly => q.ask.kind = "GET")
      /\ UNCHANGED <<mu, mount, made>> /\ "count" \in DOMAIN made
  BY DEF CloseHandle, BridgeInv, Fine, ReadOnly, Harmless
<1>2. ASSUME NEW r, Goes(h, r), Fine(r), r.phase \notin Holding,
             mount.readOnly => Harmless(r)
      PROVE  BridgeInv'
  BY <1>1, <1>2, HandlerGoesOn DEF Holding
<1>3. CASE q.ask.kind = "GET"
  <2>1. Goes(h, NextMethod(q)) BY <1>3 DEF CloseHandle
  <2> QED BY <1>1, <1>2, <1>3, <2>1, NextIs, NextIsHarmless
<1>4. CASE q.ask.kind = "PUT"
  <2>1. \E r \in {Wants(q, "ReplaceFileContent"), Fail(q), t} : Goes(h, r)
    BY <1>4 DEF CloseHandle
  <2>2. ~mount.readOnly BY <1>1, <1>4
  <2>3. DOMAIN t = DOMAIN q /\ t.ask = q.ask /\ t.at = q.at /\ t.phase = "call"
    BY <1>1 DEF Wants, Shaped
  <2> HIDE DEF t
  <2>4. Fine(t) /\ t.phase \notin Holding BY <1>1, <2>3, AsksOrAnswers
  <2>5. Fine(Fail(q)) /\ Fail(q).phase \notin Holding BY <1>1, FailIs DEF Holding
  <2>6. /\ Fine(Wants(q, "ReplaceFileContent"))
        /\ Wants(q, "ReplaceFileContent").phase \notin Holding
    BY <1>1, WantsIs DEF Fine, Phases, Looking, Holding
  <2> QED BY <1>2, <2>1, <2>2, <2>4, <2>5, <2>6
<1> QED BY <1>1, <1>3, <1>4

(* A request to the server, and what follows it.                           *)
LEMMA SendKeeps ==
  ASSUME BridgeInv, NEW h \in Handler, SendRequest(h)
  PROVE  BridgeInv'
<1> DEFINE q == req[h]
<1>1. /\ q.phase = "call" /\ Shaped(q) /\ Fine(q) /\ UNCHANGED <<mu, mount>>
      /\ "count" \in DOMAIN made
      /\ mount.readOnly => /\ q.api = "Download" /\ q.ask.kind = "GET"
                           /\ Method(q) = "Read"
  BY DEF SendRequest, BridgeInv, Fine, ReadOnly, Harmless
<1>2. PICK a :
        LET changed == a.done /\ q.api # "Download"
            n == made.count + 1
            r == IF changed THEN [q EXCEPT !.did = n, !.done = q.api] ELSE q
        IN  /\ made' = IF changed THEN [made EXCEPT !.count = n] ELSE made
            /\ Goes(h, IF Retries(a, q.tries) THEN [r EXCEPT !.tries = @ + 1]
                       ELSE IF a.answer = "ok" THEN AfterCall(r) ELSE Fail(r))
  BY DEF SendRequest
<1> DEFINE changed == a.done /\ q.api # "Download"
           r == IF changed THEN [q EXCEPT !.did = made.count + 1, !.done = q.api] ELSE q
<1>3. /\ "count" \in DOMAIN made'
      /\ mount.readOnly => made'.count = made.count
  BY <1>1, <1>2
<1>4. /\ r.phase = "call" /\ r.ask = q.ask /\ r.at = q.at /\ r.api = q.api
      /\ DOMAIN r = DOMAIN q
  BY <1>1 DEF Shaped
<1>5. \E s \in {[r EXCEPT !.tries = @ + 1], AfterCall(r), Fail(r)} : Goes(h, s)
  BY <1>2
<1> HIDE DEF r
<1>6. Shaped(r) /\ Method(r) = Method(q) BY <1>1, <1>4 DEF Shaped, Method
<1>7. ASSUME NEW s, Goes(h, s), Fine(s), s.phase \notin Holding,
             mount.readOnly => Harmless(s)
      PROVE  BridgeInv'
  BY <1>1, <1>3, <1>7, HandlerGoesOn DEF Holding
<1>8. CASE Goes(h, [r EXCEPT !.tries = @ + 1])
  <2> DEFINE s == [r EXCEPT !.tries = @ + 1]
  <2>1. /\ s.phase = "call" /\ s.ask = r.ask /\ s.at = r.at /\ s.api = r.api
        /\ DOMAIN s = DOMAIN r
    BY <1>4, <1>6 DEF Shaped
  <2>2. Goes(h, s) BY <1>8
  <2> HIDE DEF s
  <2>3. mount.readOnly => Harmless(s) BY <1>1, <1>4, <2>1 DEF Harmless, Method
  <2>4. Fine(s) /\ s.phase \notin Holding BY <1>6, <2>1, AsksOrAnswers
  <2> QED BY <1>7, <2>2, <2>3, <2>4
<1>9. CASE Goes(h, Fail(r)) BY <1>6, <1>7, <1>9, FailIs DEF Holding
<1>10. CASE Goes(h, AfterCall(r))
  <2>1. CASE AfterCall(r) = NextMethod(r)
    <3> DEFINE s == NextMethod(r)
    <3>1. Fine(s) /\ s.phase \notin Holding BY <1>6, NextIs
    <3>2. mount.readOnly => Harmless(s) BY <1>1, <1>4, <1>6, NextIsHarmless
    <3>3. Goes(h, s) BY <1>10, <2>1
    <3> HIDE DEF s
    <3> QED BY <1>7, <3>1, <3>2, <3>3
  <2>2. CASE r.api # "Download" /\ AfterCall(r) = Wants(r, "RenameFolder")
    <3> DEFINE s == Wants(r, "RenameFolder")
    <3>1. Shaped(s) /\ s.phase = "call" BY <1>6, WantsIs
    <3> HIDE DEF s
    <3>2. Fine(s) /\ s.phase \notin Holding BY <3>1 DEF Fine, Phases, Looking, Holding
    <3>3. ~mount.readOnly BY <1>1, <1>4, <2>2
    <3>4. Goes(h, s) BY <1>10, <2>2 DEF s
    <3> QED BY <1>7, <3>2, <3>3, <3>4
  <2>3. CASE r.api # "Download" /\ AfterCall(r) = [r EXCEPT !.phase = "invalidate"]
    <3> DEFINE s == [r EXCEPT !.phase = "invalidate"]
    <3>1. s.phase = "invalidate" /\ s.ask = r.ask /\ s.at = r.at /\ DOMAIN s = DOMAIN r
      BY <1>6 DEF Shaped
    <3>2. Goes(h, s) BY <1>10, <2>3
    <3> HIDE DEF s
    <3>3. Fine(s) /\ s.phase \notin Holding BY <1>6, <3>1, AsksOrAnswers
    <3> QED BY <1>1, <1>4, <1>7, <2>3, <3>2, <3>3
  <2> QED BY <2>1, <2>2, <2>3 DEF AfterCall
<1> QED BY <1>5, <1>8, <1>9, <1>10

LEMMA InvalidateKeeps ==
  ASSUME BridgeInv, NEW h \in Handler, Invalidate(h)
  PROVE  BridgeInv'
<1> DEFINE q == req[h]
           r == [q EXCEPT !.phase = "answer"]
<1>1. /\ q.phase = "invalidate" /\ Shaped(q) /\ ~mount.readOnly
      /\ UNCHANGED <<mu, mount, made>> /\ "count" \in DOMAIN made
  BY DEF Invalidate, BridgeInv, Fine, ReadOnly, Harmless
<1>2. Goes(h, r) \/ Goes(h, NextMethod(q)) BY DEF Invalidate
<1>3. r.phase = "answer" /\ r.ask = q.ask /\ r.at = q.at /\ DOMAIN r = DOMAIN q
  BY <1>1 DEF Shaped
<1> HIDE DEF r
<1>4. Fine(r) /\ r.phase \notin Holding BY <1>1, <1>3, AsksOrAnswers
<1>5. Fine(NextMethod(q)) /\ NextMethod(q).phase \notin Holding BY <1>1, NextIs
<1> QED BY <1>1, <1>2, <1>4, <1>5, HandlerGoesOn DEF Holding

LEMMA AnswerKeeps ==
  ASSUME BridgeInv, NEW h \in Handler, Answer(h)
  PROVE  BridgeInv'
<1>1. /\ req[h].phase = "answer" /\ Goes(h, Idle) /\ UNCHANGED <<mu, mount>>
      /\ made' = [made EXCEPT !.told = Told(req[h])] /\ "count" \in DOMAIN made
  BY DEF Answer, BridgeInv, ReadOnly
<1>2. "count" \in DOMAIN made' /\ made'.count = made.count BY <1>1
<1>3. Fine(Idle) /\ Harmless(Idle) /\ Idle.phase \notin Holding
  BY DEF Fine, Harmless, Idle, Phases, Looking, Holding
<1> QED BY <1>1, <1>2, <1>3, HandlerGoesOn DEF Holding

(* The steps of the server process itself.                                 *)
LEMMA MountKeeps ==
  ASSUME BridgeInv, Serve \/ Expire \/ Interrupt
  PROVE  BridgeInv'
<1>1. UNCHANGED <<mu, req, made>> /\ "readOnly" \in DOMAIN mount
  BY DEF Serve, Expire, Interrupt, BridgeInv, ReadOnly
<1>2. "readOnly" \in DOMAIN mount' /\ mount'.readOnly = mount.readOnly
  BY <1>1 DEF Serve, Expire, Interrupt
<1>3. Held' BY <1>1 DEF BridgeInv, Held
<1>4. ReadOnly' BY <1>1, <1>2 DEF BridgeInv, ReadOnly
<1> QED BY <1>1, <1>3, <1>4 DEF BridgeInv

LEMMA ExitKeeps ==
  ASSUME BridgeInv, NEW graceOver, Exit(graceOver)
  PROVE  BridgeInv'
<1>1. /\ req' = [h \in Handler |-> Idle] /\ mu' = Nobody /\ UNCHANGED made
      /\ mount' = [mount EXCEPT !.phase = "down"]
  BY DEF Exit
<1>2. Fine(Idle) /\ Harmless(Idle) /\ Idle.phase \notin Holding
  BY DEF Fine, Harmless, Idle, Phases, Looking, Holding
<1>3. \A h \in Handler : req'[h] = Idle BY <1>1
<1>4. Held' BY <1>1, <1>2, <1>3 DEF Held
<1>5. "readOnly" \in DOMAIN mount' /\ mount'.readOnly = mount.readOnly
  BY <1>1 DEF BridgeInv, ReadOnly
<1>6. ReadOnly' BY <1>1, <1>2, <1>3, <1>5 DEF BridgeInv, ReadOnly
<1> QED BY <1>1, <1>2, <1>3, <1>4, <1>6 DEF BridgeInv

-----------------------------------------------------------------------------
LEMMA BridgeKeeps ==
  ASSUME BridgeInv, [BridgeNext]_bridgeVars
  PROVE  BridgeInv'
<1>1. CASE UNCHANGED bridgeVars
  BY <1>1 DEF bridgeVars, BridgeInv, Held, ReadOnly
<1>2. CASE Serve \/ Expire \/ Interrupt BY <1>2, MountKeeps
<1>3. CASE Exit(FALSE) \/ Exit(TRUE) BY <1>3, ExitKeeps
<1>4. ASSUME NEW h \in Handler, Receive(h) \/ HandlerStep(h)
      PROVE  BridgeInv'
  <2>1. CASE Receive(h) BY <2>1, ReceiveKeeps
  <2>2. CASE Snapshot(h) BY <2>2, SnapshotKeeps
  <2>3. CASE Fetch(h) \/ Install(h) BY <2>3, FetchKeeps
  <2>4. CASE Lookup(h) BY <2>4, LookupKeeps
  <2>5. CASE WriteBody(h) BY <2>5, BodyKeeps
  <2>6. CASE CloseHandle(h) BY <2>6, HandleKeeps
  <2>7. CASE SendRequest(h) BY <2>7, SendKeeps
  <2>8. CASE Invalidate(h) BY <2>8, InvalidateKeeps
  <2>9. CASE Answer(h) BY <2>9, AnswerKeeps
  <2> QED BY <1>4, <2>1, <2>2, <2>3, <2>4, <2>5, <2>6, <2>7, <2>8, <2>9 DEF HandlerStep
<1> QED BY <1>1, <1>2, <1>3, <1>4 DEF BridgeNext

(* The mutex of the snapshot is held by the one handler that is reading    *)
(* the tree and by nobody else: no way out of a refresh, a failed listing  *)
(* included, keeps the other requests waiting.                             *)
THEOREM NobodyKeepsTheMutex == BridgeSpec => []MutexIsFreed
<1>1. BridgeInv => MutexIsFreed BY DEF BridgeInv, Held, Holding, MutexIsFreed
<1> QED BY <1>1, BridgeStarts, BridgeKeeps, PTL DEF BridgeSpec

(* A mount that is served read-only never changes the account, whatever    *)
(* its clients ask for, and in whatever order their requests interleave.   *)
THEOREM ReadOnlyChangesNothing == BridgeSpec => []ReadOnlyHolds
<1>1. BridgeInv => ReadOnlyHolds BY DEF BridgeInv, ReadOnly, ReadOnlyHolds
<1> QED BY <1>1, BridgeStarts, BridgeKeeps, PTL DEF BridgeSpec

-----------------------------------------------------------------------------
USE IdAssumption, TriesAssumption

(* What a request carries, what it still owes its client, and what it may  *)
(* claim at its phase.  Offered: a tree that is in force or about to be.   *)
(* A request whose change is not in such a tree is still to invalidate it, *)
(* or fails.                                                               *)
Apis == {"CreateFolder", "DeleteFile", "DeleteFolder", "MoveFolder", "RenameFolder",
         "UpdateFile", "ReplaceFileContent", "UploadFile", "Download"}
Fields == {"phase", "ask", "since", "at", "api", "id", "ver", "into", "name", "moves",
           "renames", "exists", "body", "tries", "calm", "did", "done", "code"}
Offered == tree.set \/ (mu # Nobody /\ req[mu].phase = "install")
Owing(q) == q.phase \in {"call", "invalidate"} \/ (q.phase = "answer" /\ q.code = "error")
Entered(q) ==
  /\ DOMAIN q = Fields
  /\ q.did \in 0 .. made.count /\ q.since \in 0 .. made.told
  /\ q.tries \in 1 .. MaxTries
  /\ q.id \in Id \cup {Root} /\ q.into \in Id \cup {Root}
Known(q) ==
  /\ q.ask.kind = "GET" => q.did = 0
  /\ q.phase = "write" => q.ask.kind = "PUT" /\ q.at = 2
  /\ q.phase = "call" => q.api \in Apis /\ (q.api = "Download" <=> q.ask.kind = "GET")
  /\ q.phase \in {"call", "invalidate"} /\ q.ask.kind = "GET" => q.phase = "call" /\ q.at = 2
  /\ q.phase \in {"call", "invalidate"} /\ q.ask.kind = "PUT" => q.at = 3
Seen(q) ==
  /\ q.phase = "look" => q.since <= tree.seq
  /\ Offered => Owing(q) \/ q.did <= tree.seq
Honest(q) ==
  /\ q.phase = "invalidate" =>
       \/ q.done = q.api /\ q.done # "none" /\ (q.done = "MoveFolder" => ~q.renames)
       \/ q.ask.kind = "MOVE" /\ ~q.calm
  /\ q.ask.kind = "PUT" /\ q.phase \in {"close", "call", "invalidate"} /\ q.body = Cut
     => q.code = "error"
  /\ q.phase = "answer" /\ q.code = "ok" /\ q.ask.kind \in Promises /\ q.calm => Kept(q)
Good(q) == q.phase # "idle" => Entered(q) /\ Known(q) /\ Seen(q) /\ Honest(q)
Tally ==
  /\ made \in [count : Nat, told : Nat] /\ made.told <= made.count
  /\ tree.seq \in 0 .. made.count
  /\ Offered => made.told <= tree.seq
Parts == {"set", "fresh", "seq", "files", "folders", "fileAt", "folderAt"}
MapsFit ==
  /\ DOMAIN tree = Parts
  /\ DOMAIN tree.files \subseteq Id /\ DOMAIN tree.folders \subseteq Id
  /\ \A p \in DOMAIN tree.fileAt :
       /\ tree.fileAt[p] \in Id
       /\ Parent(p) = << >> \/ Parent(p) \in DOMAIN tree.folderAt
  /\ \A p \in DOMAIN tree.folderAt :
       /\ tree.folderAt[p] \in Id
       /\ Parent(p) = << >> \/ Parent(p) \in DOMAIN tree.folderAt
       /\ \A o \in DOMAIN tree.folderAt : tree.folderAt[o] = tree.folderAt[p] => o = p
MountInv == Tally /\ MapsFit /\ \A h \in Handler : Good(req[h])

LEMMA MountStarts == BridgeInit => MountInv
<1> SUFFICES ASSUME BridgeInit PROVE MountInv OBVIOUS
<1>1. \A h \in Handler : req[h] = Idle BY DEF BridgeInit
<1>2. \A h \in Handler : Good(req[h]) BY <1>1 DEF Good, Idle
<1>3. Tally BY DEF BridgeInit, Tally, Offered
<1>4. MapsFit
  <2>1. DOMAIN << >> = {} OBVIOUS
  <2> QED BY <2>1 DEF BridgeInit, MapsFit, Parts
<1> QED BY <1>2, <1>3, <1>4 DEF MountInv

(* A request that does not move: more has been made, told and listed, and  *)
(* a tree comes into force only when it holds what was made till then.     *)
Grows == /\ made'.count >= made.count /\ made'.told >= made.told /\ tree'.seq >= tree.seq
         /\ Offered' => Offered \/ tree'.seq >= made.count
LEMMA StaysGood ==
  ASSUME Tally, Tally', Grows, NEW q, Good(q)
  PROVE  Good(q)'
<1> SUFFICES ASSUME q.phase # "idle" PROVE Good(q)' BY DEF Good
<1>1. Entered(q) /\ Known(q) /\ Seen(q) /\ Honest(q) BY DEF Good
<1>2. /\ made.count \in Nat /\ made.told \in Nat /\ made'.count \in Nat /\ made'.told \in Nat
      /\ tree.seq \in Nat /\ tree'.seq \in Nat
  BY DEF Tally
<1>3. Entered(q)' BY <1>1, <1>2 DEF Entered, Grows
<1>4. Known(q)' /\ Honest(q)' BY <1>1 DEF Known, Honest, Kept
<1>5. Seen(q)'
  <2>1. q.did \in 0 .. made.count /\ q.since \in 0 .. made.told BY <1>1 DEF Entered
  <2> QED BY <1>1, <1>2, <2>1 DEF Seen, Grows, Owing
<1> QED BY <1>3, <1>4, <1>5 DEF Good

LEMMA RequestMoves ==
  ASSUME BridgeInv, MountInv, NEW h \in Handler, NEW r, Goes(h, r), Good(r)',
         Tally', MapsFit', Grows
  PROVE  MountInv'
<1>1. req' = [req EXCEPT ![h] = r] /\ DOMAIN req = Handler BY DEF Goes, BridgeInv
<1>2. req'[h] = r /\ \A g \in Handler \ {h} : req'[g] = req[g] BY <1>1
<1>3. ASSUME NEW g \in Handler PROVE Good(req[g])'
  <2>1. PICK q : q = IF g = h THEN r ELSE req[g] OBVIOUS
  <2>2. req'[g] = q BY <1>2, <2>1
  <2>3. CASE g = h
    <3>1. Good(q)' BY <2>1, <2>3
    <3> QED BY <2>2, <3>1 DEF Good, Entered, Known, Seen, Honest, Kept, Owing
  <2>4. CASE g # h
    <3>1. Good(q) /\ Tally BY <2>1, <2>4 DEF MountInv
    <3>2. Good(q)' BY <3>1, StaysGood
    <3> QED BY <2>2, <3>2 DEF Good, Entered, Known, Seen, Honest, Kept, Owing
  <2> QED BY <2>3, <2>4
<1> QED BY <1>3 DEF MountInv

LEMMA MovesAndGrows ==
  ASSUME BridgeInv, MountInv, NEW h \in Handler, NEW r, Goes(h, r), Good(r),
         Tally', MapsFit', Grows
  PROVE  MountInv'
<1>1. Good(r)' BY StaysGood DEF MountInv
<1> QED BY <1>1, RequestMoves

(* A step that leaves tree, mutex and history alone.                       *)
LEMMA QuietlyGood ==
  ASSUME BridgeInv, MountInv, NEW h \in Handler, NEW r, Goes(h, r), Good(r),
         UNCHANGED <<tree, mu, made>>, req[h].phase \notin Holding
  PROVE  MountInv'
<1>1. req' = [req EXCEPT ![h] = r] /\ DOMAIN req = Handler BY DEF Goes, BridgeInv
<1>2. mu # h /\ mu \in Handler \cup {Nobody} BY NobodyAssumption DEF BridgeInv, Held
<1>3. mu # Nobody => req'[mu] = req[mu] BY <1>1, <1>2
<1>4. Offered' = Offered BY <1>3 DEF Offered
<1>5. Tally /\ Tally' /\ MapsFit' BY <1>4 DEF MountInv, Tally, MapsFit
<1>6. Grows BY <1>4, <1>5 DEF Grows, Tally
<1> QED BY <1>5, <1>6, MovesAndGrows

(* A request between its methods: one that goes on from q as r keeps what  *)
(* it has entered and owes nothing new.                                    *)
GoesOn(q, r) ==
  /\ DOMAIN r = Fields /\ r.ask = q.ask /\ r.did = q.did /\ r.since = q.since
  /\ r.tries \in 1 .. MaxTries
  /\ r.id \in Id \cup {Root} /\ r.into \in Id \cup {Root}
LEMMA GoesOnGood ==
  ASSUME NEW q, Good(q), q.phase # "idle", ~Owing(q),
         NEW r, GoesOn(q, r), Known(r), Honest(r), r.phase # "look"
  PROVE  Good(r)
<1>1. Entered(q) /\ Seen(q) BY DEF Good
<1>2. Entered(r) BY <1>1 DEF Entered, GoesOn
<1>3. Seen(r) BY <1>1 DEF Seen, GoesOn
<1> QED BY <1>2, <1>3 DEF Good

LEMMA FailGood ==
  ASSUME NEW q, Good(q), q.phase # "idle"
  PROVE  Good(Fail(q))
<1> DEFINE r == Fail(q)
<1>1. Entered(q) /\ Known(q) BY DEF Good
<1>2. /\ DOMAIN r = DOMAIN q /\ r.phase = "answer" /\ r.code = "error" /\ r.ask = q.ask
      /\ r.did = q.did /\ r.since = q.since /\ r.tries = q.tries /\ r.id = q.id
      /\ r.into = q.into
  BY <1>1 DEF Entered, Fields, Fail
<1> HIDE DEF r
<1>3. Entered(r) BY <1>1, <1>2 DEF Entered
<1>4. Known(r) /\ Honest(r) /\ Seen(r) BY <1>1, <1>2 DEF Known, Honest, Seen, Owing
<1>5. Good(r) BY <1>3, <1>4 DEF Good
<1> QED BY <1>5 DEF r

(* The next method, or the answer after the last one.                      *)
LEMMA NextForms ==
  ASSUME NEW q, Entered(q), Shaped(q)
  PROVE  LET r == NextMethod(q)  last == q.at = Len(Methods(q.ask.kind)) IN
         /\ GoesOn(q, r) /\ r.calm = q.calm /\ r.body = q.body
         /\ last => /\ r.phase = "answer" /\ r.code = "ok" /\ r.done = q.done
                    /\ r.api = q.api /\ r.renames = q.renames
         /\ ~last => /\ r.phase = Begins[Methods(q.ask.kind)[q.at + 1]]
                     /\ r.phase # "answer" /\ r.code = q.code /\ r.at = q.at + 1
<1> DEFINE k == q.ask.kind
           r == NextMethod(q)
<1>1. k \in Kinds /\ q.at \in 1 .. Len(Methods(k)) BY AsksAssumption DEF Shaped
<1>2. CASE q.at = Len(Methods(k))
  <2>1. r = [q EXCEPT !.phase = "answer", !.code = "ok"] BY <1>2 DEF NextMethod
  <2>2. /\ DOMAIN r = DOMAIN q /\ r.ask = q.ask /\ r.did = q.did /\ r.since = q.since
        /\ r.tries = q.tries /\ r.id = q.id /\ r.into = q.into /\ r.calm = q.calm
        /\ r.body = q.body /\ r.phase = "answer" /\ r.code = "ok" /\ r.done = q.done
        /\ r.api = q.api /\ r.renames = q.renames
    BY <2>1 DEF Entered, Fields
  <2> HIDE DEF r
  <2> QED BY <1>2, <2>2 DEF Entered, GoesOn, r
<1>3. CASE q.at # Len(Methods(k))
  <2> DEFINE m == Methods(k)[q.at + 1]
  <2>1. r = [q EXCEPT !.at = @ + 1, !.api = "none", !.done = "none", !.phase = Begins[m]]
    BY <1>3 DEF NextMethod
  <2>2. m \in {"RemoveAll", "Rename", "Read", "Write", "Close"}
    BY <1>1, <1>3 DEF Kinds, Methods
  <2> HIDE DEF m
  <2>3. /\ DOMAIN r = DOMAIN q /\ r.ask = q.ask /\ r.did = q.did /\ r.since = q.since
        /\ r.tries = q.tries /\ r.id = q.id /\ r.into = q.into /\ r.calm = q.calm
        /\ r.body = q.body /\ r.phase = Begins[m] /\ r.code = q.code /\ r.at = q.at + 1
    BY <2>1 DEF Entered, Fields
  <2>4. Begins[m] \in {"call", "write", "close", "snapshot"} BY <2>2 DEF Begins
  <2>5. r.phase # "answer" BY <2>3, <2>4
  <2> HIDE DEF r
  <2> QED BY <1>3, <2>3, <2>5 DEF Entered, GoesOn, r, m
<1> QED BY <1>2, <1>3

(* Looking up is under the mutex, in maps that fit the tree.               *)
LEMMA LookupIds ==
  ASSUME MapsFit, NEW p
  PROVE  /\ HasFile(p) => FileId(p) \in Id
         /\ HasFolder(p) => FolderId(p) \in Id \cup {Root}
BY DEF MapsFit, HasFile, FileId, HasFolder, FolderId

LEMMA StatGood ==
  ASSUME NEW q, Good(q), q.phase = "look", Shaped(q), Method(q) = "Stat"
  PROVE  Good(StatAt(q))
<1>1. q.ask.kind \in Kinds /\ q.at \in 1 .. Len(Methods(q.ask.kind))
  BY AsksAssumption DEF Shaped
<1>2. q.ask.kind \in {"PROPFIND", "DELETE", "MOVE"}
  BY <1>1 DEF Kinds, Methods, Method
<1>3. Entered(q) /\ Known(q) /\ ~Owing(q) BY DEF Good, Owing
<1>4. ASSUME NEW r, GoesOn(q, r), r.phase = "snapshot"
      PROVE  Good(r)
  BY <1>2, <1>3, <1>4, GoesOnGood DEF Known, Honest, GoesOn
<1>5. CASE StatAt(q) = NextMethod(q)
  <2> DEFINE r == NextMethod(q)
  <2>1. /\ GoesOn(q, r)
        /\ q.ask.kind # "PROPFIND" => r.phase = "snapshot"
        /\ q.ask.kind = "PROPFIND" => r.phase = "answer"
    <3>1. /\ q.ask.kind = "PROPFIND" => q.at = Len(Methods(q.ask.kind))
          /\ q.ask.kind # "PROPFIND" => q.at # Len(Methods(q.ask.kind))
      BY <1>1, <1>2 DEF Methods, Method
    <3>2. GoesOn(q, r) BY <1>3, NextForms
    <3>3. r.phase \in {"answer", "snapshot"} BY NextIs
    <3>4. q.ask.kind = "PROPFIND" => r.phase = "answer" BY <1>3, <3>1, NextForms
    <3>5. q.ask.kind # "PROPFIND" => r.phase # "answer" BY <1>3, <3>1, NextForms
    <3> QED BY <3>2, <3>3, <3>4, <3>5
  <2> HIDE DEF r
  <2>2. CASE q.ask.kind = "PROPFIND"
    <3>1. Known(r) /\ Honest(r)
      BY <1>3, <2>1, <2>2 DEF Known, Honest, GoesOn, Promises
    <3> QED BY <1>3, <1>5, <2>1, <2>2, <3>1, GoesOnGood DEF r
  <2>3. CASE q.ask.kind # "PROPFIND" BY <1>4, <1>5, <2>1, <2>3 DEF r
  <2> QED BY <2>2, <2>3
<1>6. CASE StatAt(q) = Fail(q) BY <1>6, FailGood
<1>7. CASE StatAt(q) = [q EXCEPT !.at = 3, !.phase = "snapshot"]
  <2> DEFINE r == [q EXCEPT !.at = 3, !.phase = "snapshot"]
  <2>1. GoesOn(q, r) /\ r.phase = "snapshot" BY <1>3 DEF Entered, Fields, GoesOn
  <2> HIDE DEF r
  <2> QED BY <1>4, <1>7, <2>1 DEF r
<1> QED BY <1>5, <1>6, <1>7 DEF StatAt

(* A request to change something: asked for from a lookup or a close.      *)
LEMMA WantsGood ==
  ASSUME NEW q, Good(q), q.phase # "idle", ~Owing(q), NEW api \in Apis \ {"Download"},
         q.ask.kind # "GET", q.ask.kind = "PUT" => q.at = 3 /\ q.phase = "close",
         NEW t, GoesOn(q, t), t.at = q.at, t.body = q.body, t.code = q.code,
         NEW r, DOMAIN r = DOMAIN t, r.phase = "call", r.api = api, r.at = t.at,
         r.ask = t.ask, r.did = t.did, r.since = t.since, r.tries = 1,
         r.id \in Id \cup {Root}, r.into \in Id \cup {Root},
         r.body = t.body, r.code = t.code
  PROVE  Good(r)
<1>1. Entered(q) /\ Known(q) /\ Honest(q) BY DEF Good
<1>2. GoesOn(q, r) BY DEF GoesOn
<1>3. Known(r) BY <1>1, <1>2 DEF Known, GoesOn
<1>4. Honest(r) BY <1>1, <1>2 DEF Honest, GoesOn
<1> QED BY <1>2, <1>3, <1>4, GoesOnGood

LEMMA MkdirGood ==
  ASSUME MapsFit, NEW q, Good(q), q.phase = "look", q.ask.kind \notin {"GET", "PUT"}
  PROVE  Good(MkdirAt(q))
<1> DEFINE dir == Parent(q.ask.path)
           r == [Wants(q, "CreateFolder") EXCEPT !.into = FolderId(dir),
                                                !.name = BaseOf(q.ask.path)]
<1>1. Entered(q) /\ ~Owing(q) BY DEF Good, Owing
<1>2. CASE MkdirAt(q) = Fail(q) BY <1>2, FailGood
<1>3. CASE HasFolder(dir) /\ MkdirAt(q) = r
  <2>1. FolderId(dir) \in Id \cup {Root} BY <1>3, LookupIds
  <2> HIDE DEF dir
  <2>2. /\ DOMAIN r = DOMAIN q /\ r.phase = "call" /\ r.api = "CreateFolder"
        /\ r.at = q.at /\ r.ask = q.ask /\ r.did = q.did /\ r.since = q.since
        /\ r.tries = 1 /\ r.id = q.id /\ r.into = FolderId(dir)
        /\ r.body = q.body /\ r.code = q.code
    BY <1>1 DEF Entered, Fields, Wants
  <2> HIDE DEF r
  <2>3. GoesOn(q, q) BY <1>1 DEF GoesOn, Entered
  <2>4. Good(r) BY <1>1, <2>1, <2>2, <2>3, WantsGood DEF Apis, Entered
  <2> QED BY <1>3, <2>4
<1> QED BY <1>2, <1>3 DEF MkdirAt

LEMMA RemoveGood ==
  ASSUME MapsFit, NEW q, Good(q), q.phase = "look", q.ask.kind \notin {"GET", "PUT"}
  PROVE  Good(RemoveAt(q))
<1>1. Entered(q) /\ ~Owing(q) BY DEF Good, Owing
<1>2. CASE RemoveAt(q) = Fail(q) BY <1>2, FailGood
<1>3. ASSUME NEW api \in {"DeleteFile", "DeleteFolder"}, NEW id \in Id \cup {Root},
             RemoveAt(q) = [Wants(q, api) EXCEPT !.id = id]
      PROVE  Good(RemoveAt(q))
  <2> DEFINE r == [Wants(q, api) EXCEPT !.id = id]
  <2>2. /\ DOMAIN r = DOMAIN q /\ r.phase = "call" /\ r.api = api
        /\ r.at = q.at /\ r.ask = q.ask /\ r.did = q.did /\ r.since = q.since
        /\ r.tries = 1 /\ r.id = id /\ r.into = q.into
        /\ r.body = q.body /\ r.code = q.code
    BY <1>1 DEF Entered, Fields, Wants
  <2> HIDE DEF r
  <2>3. GoesOn(q, q) BY <1>1 DEF GoesOn, Entered
  <2>4. Good(r) BY <1>1, <2>2, <2>3, WantsGood DEF Apis, Entered
  <2> QED BY <1>3, <2>4 DEF r
<1>4. PICK p : RemoveAt(q) =
        CASE HasFile(p) -> [Wants(q, "DeleteFile") EXCEPT !.id = FileId(p)]
          [] ~HasFile(p) /\ HasFolder(p) /\ p # << >> ->
               [Wants(q, "DeleteFolder") EXCEPT !.id = FolderId(p)]
          [] OTHER -> Fail(q)
  BY DEF RemoveAt
<1>5. CASE HasFile(p) BY <1>3, <1>4, <1>5, LookupIds
<1>6. CASE ~HasFile(p) /\ HasFolder(p) /\ p # << >> BY <1>3, <1>4, <1>6, LookupIds
<1>7. CASE ~HasFile(p) /\ ~(HasFolder(p) /\ p # << >>) BY <1>2, <1>4, <1>7
<1> QED BY <1>5, <1>6, <1>7

(* A path is its parent and its last name.                                 *)
LEMMA SamePath ==
  ASSUME NEW S, NEW o \in Seq(S), NEW p \in Seq(S), o # << >>, p # << >>,
         Parent(o) = Parent(p), BaseOf(o) = BaseOf(p)
  PROVE  o = p
<1>1. Len(o) \in Nat \ {0} /\ Len(p) \in Nat \ {0} BY EmptySeq
<1>2. ASSUME NEW s \in Seq(S), Len(s) \in Nat \ {0}
      PROVE  /\ Len(Parent(s)) = Len(s) - 1
             /\ \A k \in 1 .. Len(s) - 1 : Parent(s)[k] = s[k]
  <2>1. \A i \in 1 .. Len(s) - 1 : s[i] \in S BY <1>2, ElementOfSeq
  <2> DEFINE n == Len(s) - 1
  <2>2. n \in Nat /\ Parent(s) = SubSeq(s, 1, n) BY <1>2 DEF Parent
  <2>3. \A i \in 1 .. n : s[i] \in S BY <2>1
  <2> HIDE DEF n
  <2>4. /\ Len(SubSeq(s, 1, n)) = IF 1 <= n THEN n - 1 + 1 ELSE 0
        /\ \A i \in 1 .. n - 1 + 1 : SubSeq(s, 1, n)[i] = s[1 + i - 1]
    BY <2>2, <2>3, SubSeqProperties
  <2>5. Len(Parent(s)) = n /\ \A i \in 1 .. n : Parent(s)[i] = s[i] BY <2>2, <2>4
  <2> QED BY <2>5 DEF n
<1>3. Len(o) = Len(p) BY <1>1, <1>2
<1>4. ASSUME NEW k \in 1 .. Len(o) PROVE o[k] = p[k]
  <2>1. CASE k = Len(o) BY <1>3, <2>1 DEF BaseOf
  <2>2. CASE k # Len(o)
    <3>1. k \in 1 .. Len(o) - 1 BY <1>1, <2>2
    <3> QED BY <1>1, <1>2, <1>3, <3>1
  <2> QED BY <2>1, <2>2
<1> QED BY <1>1, <1>3, <1>4, SeqEqual

(* Of a calm MOVE something changes: its two paths have different parents, *)
(* which the tree knows by different ids, or different names.  The parent  *)
(* of what the tree knows is known to it.                                  *)
LEMMA CalmMoveMoves ==
  ASSUME MapsFit, NEW q, Shaped(q), q.ask.kind = "MOVE", tree.set,
         << >> \notin {q.ask.path, q.ask.to},
         HasFile(q.ask.path) \/ HasFolder(q.ask.path), HasFolder(Parent(q.ask.to)),
         OldParent(Parent(q.ask.path), FALSE) = FolderId(Parent(q.ask.to))
  PROVE  BaseOf(q.ask.path) # BaseOf(q.ask.to)
<1> DEFINE from == q.ask.path  to == q.ask.to
<1>1. from \in Seq(Name) /\ to \in Seq(Name) /\ from # to BY AsksAssumption DEF Shaped
<1>2. HasFolder(Parent(from)) BY DEF MapsFit, HasFile, HasFolder
<1>3. FolderId(Parent(from)) = FolderId(Parent(to)) BY <1>2 DEF OldParent
<1>4. Root \notin Id BY DEF Root
<1>5. Parent(from) = Parent(to) BY <1>2, <1>3, <1>4 DEF MapsFit, HasFolder, FolderId
<1> QED BY <1>1, <1>5, SamePath

LEMMA RenameGood ==
  ASSUME MapsFit, NEW q, Good(q), Shaped(q), q.phase = "look", Method(q) = "Rename",
         NEW late \in BOOLEAN, q.calm => tree.set /\ ~late
  PROVE  Good(RenameAt(q, late))
<1> DEFINE from == q.ask.path  to == q.ask.to
           goes == << >> \notin {from, to} /\ HasFolder(Parent(to))
           t == Placed(q, late)
<1>1. Entered(q) /\ Known(q) /\ ~Owing(q) /\ GoesOn(q, q)
  BY DEF Good, Owing, GoesOn, Entered
<1>2. q.ask.kind = "MOVE"
  <2>1. q.ask.kind \in Kinds /\ q.at \in 1 .. Len(Methods(q.ask.kind))
    BY AsksAssumption DEF Shaped
  <2> QED BY <2>1 DEF Kinds, Methods, Method
<1>3. CASE RenameAt(q, late) = Fail(q) BY <1>3, FailGood
<1>4. CASE RenameAt(q, late) # Fail(q)
  <2>1. goes BY <1>4 DEF RenameAt
  <2>2. FolderId(Parent(to)) \in Id \cup {Root} BY <2>1, LookupIds
  <2>3. /\ DOMAIN t = Fields /\ t.ask = q.ask /\ t.did = q.did /\ t.since = q.since
        /\ t.tries = q.tries /\ t.id = q.id /\ t.into = FolderId(Parent(to))
        /\ t.at = q.at /\ t.body = q.body /\ t.code = q.code /\ t.calm = q.calm
        /\ t.moves = (OldParent(Parent(from), late) # FolderId(Parent(to)))
        /\ t.renames = (BaseOf(from) # BaseOf(to))
    BY <1>1 DEF Entered, Fields, Placed
  <2> HIDE DEF t
  <2>4. GoesOn(q, t) BY <1>1, <2>2, <2>3 DEF GoesOn, Entered
  <2>5. ASSUME NEW r, NEW api \in {"UpdateFile", "MoveFolder", "RenameFolder"},
               NEW id \in Id \cup {Root},
               \/ r = [Wants(t, api) EXCEPT !.id = id]
               \/ \E ver : r = [[Wants(t, api) EXCEPT !.id = id] EXCEPT !.ver = ver]
        PROVE  Good(r)
    <3> DEFINE w == Wants(t, api)
    <3>0. /\ DOMAIN w = Fields /\ w.phase = "call" /\ w.api = api
          /\ w.at = t.at /\ w.ask = t.ask /\ w.did = t.did /\ w.since = t.since
          /\ w.tries = 1 /\ w.into = t.into /\ w.body = t.body /\ w.code = t.code
      BY <2>3 DEF Fields, Wants
    <3> HIDE DEF w
    <3>1. /\ DOMAIN r = DOMAIN t /\ r.phase = "call" /\ r.api = api
          /\ r.at = t.at /\ r.ask = t.ask /\ r.did = t.did /\ r.since = t.since
          /\ r.tries = 1 /\ r.id = id /\ r.into = t.into
          /\ r.body = t.body /\ r.code = t.code
      <4>1. CASE r = [w EXCEPT !.id = id] BY <2>3, <3>0, <4>1 DEF Fields
      <4>2. CASE \E ver : r = [[w EXCEPT !.id = id] EXCEPT !.ver = ver]
        <5>1. PICK ver : r = [[w EXCEPT !.id = id] EXCEPT !.ver = ver] BY <4>2
        <5> QED BY <2>3, <3>0, <5>1 DEF Fields
      <4> QED BY <2>5, <4>1, <4>2 DEF w
    <3> QED BY <1>1, <1>2, <2>2, <2>3, <2>4, <3>1, WantsGood DEF Apis
  <2>6. CASE t.moves \/ t.renames
    <3>1. CASE HasFile(from)
      <4>1. RenameAt(q, late) = [[Wants(t, "UpdateFile") EXCEPT !.id = FileId(from)]
                                   EXCEPT !.ver = tree.files[FileId(from)].ver]
        BY <2>1, <2>6, <3>1 DEF RenameAt, t
      <4>2. FileId(from) \in Id BY <3>1, LookupIds
      <4> QED BY <2>5, <4>1, <4>2
    <3>2. CASE ~HasFile(from)
      <4>1. HasFolder(from) BY <1>4, <3>2 DEF RenameAt
      <4>2. PICK api \in {"MoveFolder", "RenameFolder"} :
              RenameAt(q, late) = [Wants(t, api) EXCEPT !.id = FolderId(from)]
        BY <2>1, <2>6, <3>2, <4>1 DEF RenameAt, t
      <4>3. FolderId(from) \in Id \cup {Root} BY <4>1, LookupIds
      <4> QED BY <2>5, <4>2, <4>3
    <3> QED BY <3>1, <3>2
  <2>7. CASE ~t.moves /\ ~t.renames
    <3> DEFINE r == RenameAt(q, late)
    <3>1. \/ r = [t EXCEPT !.phase = "answer", !.code = "ok"]
          \/ r = [t EXCEPT !.phase = "invalidate"]
      BY <1>4, <2>1, <2>7 DEF RenameAt, t
    <3>2. /\ DOMAIN r = Fields /\ r.ask = t.ask /\ r.did = t.did /\ r.since = t.since
          /\ r.tries = t.tries /\ r.id = t.id /\ r.into = t.into
          /\ r.phase \in {"answer", "invalidate"} /\ r.calm = t.calm
      BY <2>3, <3>1 DEF Fields
    <3>3. HasFile(from) \/ HasFolder(from) BY <1>4 DEF RenameAt
    <3> HIDE DEF r
    <3>4. ~q.calm
      <4> SUFFICES ASSUME q.calm PROVE FALSE OBVIOUS
      <4>1. OldParent(Parent(from), late) = FolderId(Parent(to)) /\ BaseOf(from) = BaseOf(to)
        BY <2>3, <2>7
      <4>2. OldParent(Parent(from), FALSE) = OldParent(Parent(from), late) /\ tree.set
        BY DEF OldParent
      <4> QED BY <1>2, <2>1, <3>3, <4>1, <4>2, CalmMoveMoves
    <3>5. GoesOn(q, r) BY <2>3, <2>4, <3>2 DEF GoesOn
    <3>6. Known(r) /\ Honest(r) BY <1>1, <1>2, <2>3, <3>2, <3>4 DEF Known, Honest
    <3> QED BY <1>1, <3>2, <3>5, <3>6, GoesOnGood DEF r
  <2> QED BY <2>6, <2>7
<1> QED BY <1>3, <1>4

(* A handle of a PUT or a GET.                                             *)
LEMMA OpenGood ==
  ASSUME MapsFit, NEW q, Good(q), Shaped(q), q.phase = "look", Method(q) = "OpenFile"
  PROVE  Good(OpenAt(q))
<1>1. Entered(q) /\ Known(q) /\ ~Owing(q) BY DEF Good, Owing
<1>2. /\ q.ask.kind \in {"GET", "PUT"} /\ q.at = 1 /\ Len(Methods(q.ask.kind)) = 3
      /\ Methods(q.ask.kind)[2] = IF q.ask.kind = "GET" THEN "Read" ELSE "Write"
  <2>1. q.ask.kind \in Kinds /\ q.at \in 1 .. Len(Methods(q.ask.kind))
    BY AsksAssumption DEF Shaped
  <2> QED BY <2>1 DEF Kinds, Methods, Method
<1>3. CASE OpenAt(q) = Fail(q) BY <1>3, FailGood
<1>4. CASE OpenAt(q) # Fail(q)
  <2> DEFINE s == NextMethod(q)
             there == HasFile(q.ask.path)
             r == Handle(q, there)
  <2>1. OpenAt(q) = r BY <1>4 DEF OpenAt
  <2>2. /\ GoesOn(q, s) /\ s.at = 2
        /\ s.phase = IF q.ask.kind = "GET" THEN "call" ELSE "write"
    <3> DEFINE ms == Methods(q.ask.kind)
    <3>0. q.at # Len(ms) /\ q.at + 1 = 2 BY <1>2
    <3> HIDE DEF ms
    <3>1. s = [q EXCEPT !.at = @ + 1, !.api = "none", !.done = "none",
                        !.phase = Begins[ms[2]]]
      BY <3>0 DEF NextMethod, ms
    <3>2. s.phase = Begins[ms[2]] /\ s.at = 2
      BY <1>1, <1>2, <3>1 DEF Entered, Fields
    <3>3. GoesOn(q, s) BY <1>1, NextForms
    <3> HIDE DEF s
    <3> QED BY <1>2, <3>2, <3>3 DEF Begins, ms
  <2>3. there => FileId(q.ask.path) \in Id BY LookupIds
  <2> HIDE DEF s, there
  <2>4. r = [s EXCEPT !.exists = there, !.tries = 1, !.api = "Download",
                      !.id = IF there THEN FileId(q.ask.path) ELSE Root]
    BY DEF Handle, s
  <2>5. /\ DOMAIN r = Fields /\ r.ask = s.ask /\ r.did = s.did /\ r.since = s.since
        /\ r.tries = 1 /\ r.id \in Id \cup {Root} /\ r.into = s.into /\ r.at = s.at
        /\ r.phase = s.phase /\ r.api = "Download"
    BY <2>2, <2>3, <2>4 DEF GoesOn, Fields
  <2> HIDE DEF r
  <2>6. GoesOn(q, r) BY <2>2, <2>5 DEF GoesOn
  <2>7. Known(r) BY <1>1, <1>2, <2>2, <2>5, <2>6 DEF Known, GoesOn, Apis
  <2>8. Honest(r) BY <1>2, <2>2, <2>5, <2>6 DEF Honest, GoesOn
  <2> QED BY <1>1, <1>2, <2>1, <2>2, <2>5, <2>6, <2>7, <2>8, GoesOnGood
<1> QED BY <1>3, <1>4

-----------------------------------------------------------------------------
(* The steps of a handler, again.                                          *)
LEMMA ReceiveMounts ==
  ASSUME BridgeInv, MountInv, NEW h \in Handler, Receive(h)
  PROVE  MountInv'
<1>1. PICK r \in Asks : Goes(h, Received(r)) BY DEF Receive
<1> DEFINE q == Received(r)
<1>2. /\ DOMAIN q = Fields /\ q.phase = "snapshot" /\ q.did = 0 /\ q.since = made.told
      /\ q.tries = 1 /\ q.id = Root /\ q.into = Root
  BY DEF Received, Fields
<1> HIDE DEF q
<1>3. /\ made.count \in Nat /\ made.told \in Nat /\ made.told <= made.count /\ tree.seq \in Nat
  BY DEF MountInv, Tally
<1>4. Entered(q) BY <1>2, <1>3 DEF Entered
<1>5. Known(q) /\ Seen(q) /\ Honest(q) BY <1>2, <1>3 DEF Known, Seen, Honest
<1>6. Good(q) BY <1>4, <1>5 DEF Good
<1>7. UNCHANGED <<tree, mu, made>> /\ req[h].phase \notin Holding BY DEF Receive, Holding
<1> QED BY <1>1, <1>6, <1>7, QuietlyGood DEF q

(* The handler that takes the mutex, reads the tree with it, and frees it. *)
LEMMA SnapshotMounts ==
  ASSUME BridgeInv, MountInv, NEW h \in Handler, Snapshot(h)
  PROVE  MountInv'
<1> DEFINE q == req[h]
<1>1. /\ q.phase = "snapshot" /\ Good(q) /\ UNCHANGED <<tree, made>>
      /\ Entered(q) /\ Known(q) /\ ~Owing(q)
      /\ Tally /\ MapsFit /\ MapsFit' /\ q.phase \notin Holding
  BY DEF Snapshot, MountInv, Good, Owing, Holding, MapsFit
<1>2. CASE Goes(h, Fail(q)) /\ UNCHANGED mu BY <1>1, <1>2, FailGood, QuietlyGood
<1>3. CASE Usable /\ Goes(h, [q EXCEPT !.phase = "look"]) /\ UNCHANGED mu
  <2> DEFINE r == [q EXCEPT !.phase = "look"]
  <2>1. /\ DOMAIN r = Fields /\ r.phase = "look" /\ r.ask = q.ask /\ r.did = q.did
        /\ r.since = q.since /\ r.tries = q.tries /\ r.id = q.id /\ r.into = q.into
    BY <1>1 DEF Entered, Fields
  <2>2. Goes(h, r) BY <1>3
  <2> HIDE DEF r
  <2>3. q.since <= tree.seq BY <1>1, <1>3 DEF Usable, Tally, Offered, Entered
  <2>4. Entered(r) BY <1>1, <2>1 DEF Entered
  <2>5. Known(r) /\ Honest(r) BY <1>1, <2>1 DEF Known, Honest
  <2>6. Seen(r) BY <1>1, <2>1, <2>3 DEF Seen, Good, Owing
  <2>7. Good(r) BY <2>4, <2>5, <2>6 DEF Good
  <2> QED BY <1>1, <1>3, <2>2, <2>7, QuietlyGood
<1>4. CASE Goes(h, [q EXCEPT !.phase = "fetch", !.tries = 1]) /\ mu' = h
  <2> DEFINE r == [q EXCEPT !.phase = "fetch", !.tries = 1]
  <2>1. /\ DOMAIN r = Fields /\ r.phase = "fetch" /\ r.ask = q.ask /\ r.did = q.did
        /\ r.since = q.since /\ r.tries = 1 /\ r.id = q.id /\ r.into = q.into
    BY <1>1 DEF Entered, Fields
  <2>2. Goes(h, r) BY <1>4
  <2> HIDE DEF r
  <2>3. GoesOn(q, r) BY <1>1, <2>1 DEF GoesOn, Entered
  <2>4. Known(r) /\ Honest(r) BY <1>1, <2>1 DEF Known, Honest
  <2>5. Good(r) BY <1>1, <2>1, <2>3, <2>4, GoesOnGood
  <2>6. req'[h].phase = "fetch" BY <2>1, <2>2 DEF Goes, BridgeInv
  <2>7. Offered' => Offered BY <1>1, <1>4, <2>6 DEF Offered
  <2>8. Tally' /\ Grows BY <1>1, <2>7 DEF Tally, Grows
  <2> QED BY <1>1, <2>2, <2>5, <2>8, MovesAndGrows
<1> QED BY <1>2, <1>3, <1>4 DEF Snapshot

LEMMA FetchMounts ==
  ASSUME BridgeInv, MountInv, FilesTypeOK, NEW h \in Handler, Fetch(h)
  PROVE  MountInv'
<1> DEFINE q == req[h]
<1>1. /\ q.phase = "fetch" /\ Good(q) /\ UNCHANGED made
      /\ Entered(q) /\ Known(q) /\ ~Owing(q) /\ Tally /\ MapsFit
  BY DEF Fetch, MountInv, Good, Owing
<1>2. mu = h /\ DOMAIN req = Handler BY <1>1 DEF BridgeInv, Held, Holding
<1>3. made.count \in Nat /\ made.told \in 0 .. made.count /\ tree.seq \in 0 .. made.count
  BY <1>1 DEF Tally
<1>4. ASSUME NEW r, Goes(h, r), Good(r), Tally', MapsFit', Grows
      PROVE  MountInv'
  BY <1>4, MovesAndGrows
<1>5. ASSUME NEW r, DOMAIN r = Fields, r.phase \in {"fetch", "install"}, r.ask = q.ask,
             r.did = q.did, r.since = q.since, r.tries \in 1 .. MaxTries, r.id = q.id,
             r.into = q.into
      PROVE  Good(r)
  <2>1. GoesOn(q, r) BY <1>1, <1>5 DEF GoesOn, Entered
  <2>2. Known(r) /\ Honest(r) BY <1>1, <1>5 DEF Known, Honest
  <2> QED BY <1>1, <1>5, <2>1, <2>2, GoesOnGood
<1>6. CASE /\ UNCHANGED <<tree, mu>> /\ q.tries < MaxTries
           /\ Goes(h, [q EXCEPT !.tries = @ + 1])
  <2> DEFINE r == [q EXCEPT !.tries = @ + 1]
  <2>1. /\ DOMAIN r = Fields /\ r.phase = "fetch" /\ r.ask = q.ask /\ r.did = q.did
        /\ r.since = q.since /\ r.tries = q.tries + 1 /\ r.id = q.id /\ r.into = q.into
    BY <1>1 DEF Entered, Fields
  <2>2. Goes(h, r) BY <1>6
  <2> HIDE DEF r
  <2>3. Good(r) BY <1>1, <1>5, <1>6, <2>1 DEF Entered
  <2>4. req'[h].phase = "fetch" BY <1>2, <2>1, <2>2 DEF Goes
  <2>5. Offered' => Offered BY <1>2, <1>6, <2>4 DEF Offered
  <2>6. Tally' /\ Grows /\ MapsFit' BY <1>1, <1>6, <2>5 DEF Tally, Grows, MapsFit
  <2> QED BY <1>4, <2>2, <2>3, <2>6
<1>7. CASE /\ tree' = [tree EXCEPT !.files = LiveOf(server.files),
                                   !.folders = LiveOf(server.folders),
                                   !.seq = made.count]
           /\ Goes(h, [q EXCEPT !.phase = "install"]) /\ UNCHANGED mu
  <2> DEFINE r == [q EXCEPT !.phase = "install"]
  <2>1. /\ DOMAIN r = Fields /\ r.phase = "install" /\ r.ask = q.ask /\ r.did = q.did
        /\ r.since = q.since /\ r.tries = q.tries /\ r.id = q.id /\ r.into = q.into
    BY <1>1 DEF Entered, Fields
  <2>2. Goes(h, r) BY <1>7
  <2> HIDE DEF r
  <2>3. Good(r) BY <1>1, <1>5, <2>1 DEF Entered
  <2>4. /\ DOMAIN tree' = Parts /\ tree'.seq = made.count
        /\ tree'.fileAt = tree.fileAt /\ tree'.folderAt = tree.folderAt
        /\ tree'.files = LiveOf(server.files) /\ tree'.folders = LiveOf(server.folders)
    BY <1>1, <1>7 DEF MapsFit, Parts
  <2>5. DOMAIN tree'.files \subseteq Id /\ DOMAIN tree'.folders \subseteq Id
    BY <2>4 DEF LiveOf, FilesTypeOK, Table
  <2>6. MapsFit' BY <1>1, <2>4, <2>5 DEF MapsFit
  <2>7. Tally' /\ Grows BY <1>1, <1>3, <2>4 DEF Tally, Grows
  <2> QED BY <1>4, <2>2, <2>3, <2>6, <2>7
<1>8. CASE FetchFails(h) /\ UNCHANGED tree
  <2>1. Offered' => Offered BY <1>8 DEF FetchFails, Offered
  <2>2. Tally' /\ Grows /\ MapsFit' BY <1>1, <1>8, <2>1 DEF Tally, Grows, MapsFit
  <2> QED BY <1>1, <1>4, <1>8, <2>2, FailGood DEF FetchFails
<1> QED BY <1>6, <1>7, <1>8 DEF Fetch, Retries

(* The maps that are built from a tree fit it.                             *)
LEMMA ParentOfAppend ==
  ASSUME NEW S, NEW s \in Seq(S), NEW x
  PROVE  Parent(Append(s, x)) = s
<1> DEFINE T == S \cup {x}
           p == Append(s, x)
<1>1. s \in Seq(T) /\ x \in T BY SeqDef
<1>2. p \in Seq(T) /\ Len(p) = Len(s) + 1 /\ \A i \in 1 .. Len(s) : p[i] = s[i]
  BY <1>1, AppendProperties
<1>3. Len(s) \in Nat BY LenProperties
<1>4. Parent(p) = SubSeq(p, 1, Len(s)) BY <1>2, <1>3 DEF Parent
<1>5. \A i \in 1 .. Len(s) : p[i] \in T BY <1>2, <1>3, ElementOfSeq
<1> HIDE DEF p, T
<1>6. /\ SubSeq(p, 1, Len(s)) \in Seq(T)
      /\ Len(SubSeq(p, 1, Len(s))) = IF 1 <= Len(s) THEN Len(s) - 1 + 1 ELSE 0
      /\ \A i \in 1 .. Len(s) - 1 + 1 : SubSeq(p, 1, Len(s))[i] = p[1 + i - 1]
  BY <1>3, <1>5, SubSeqProperties
<1>7. Parent(p) \in Seq(T) /\ Len(Parent(p)) = Len(s)
      /\ \A i \in 1 .. Len(s) : Parent(p)[i] = s[i]
  BY <1>2, <1>3, <1>4, <1>6
<1>8. Parent(p) = s BY <1>1, <1>3, <1>7, SeqEqual
<1> QED BY <1>8 DEF p

LEMMA FolderPathIsPath ==
  ASSUME MapsFit, NEW f \in Reached
  PROVE  FolderPath(f) \in Seq({tree.folders[g].name : g \in DOMAIN tree.folders})
<1> DEFINE S == {tree.folders[g].name : g \in DOMAIN tree.folders}
           c == CHOOSE c \in Chains : c[Len(c)] = f
<1>1. c \in Chains BY DEF Reached
<1> HIDE DEF c
<1>2. PICK n \in 1 .. Cardinality(Id) : c \in [1 .. n -> DOMAIN tree.folders]
  BY <1>1 DEF Chains
<1>3. n \in Nat OBVIOUS
<1>4. [k \in 1 .. n |-> tree.folders[c[k]].name] \in Seq(S)
  <2>1. \A k \in 1 .. n : tree.folders[c[k]].name \in S BY <1>2
  <2> QED BY <1>3, <2>1, IsASeq
<1>5. FolderPath(f) = [k \in 1 .. n |-> tree.folders[c[k]].name]
  BY <1>2 DEF FolderPath, c
<1> QED BY <1>4, <1>5

(* Two chains to one folder are equal: going up from the folder they agree *)
(* as long as both last, since a folder has one parent; and they end       *)
(* together, since the root is no folder.  That they agree is shown of the *)
(* least distance at which they would not.                                 *)
LEMMA SameChain ==
  ASSUME MapsFit, NEW c \in Chains, NEW d \in Chains, c[Len(c)] = d[Len(d)]
  PROVE  c = d
<1> DEFINE F == DOMAIN tree.folders
           Up(e, k) == IF k = 1 THEN Root ELSE e[k - 1]
<1>1. ASSUME NEW e \in Chains
      PROVE  \E n \in Nat \ {0} : /\ e \in [1 .. n -> F] /\ Len(e) = n
                                  /\ \A k \in 1 .. n : tree.folders[e[k]].parent = Up(e, k)
  <2>1. PICK n \in 1 .. Cardinality(Id) : e \in [1 .. n -> F] BY DEF Chains
  <2>2. n \in Nat \ {0} OBVIOUS
  <2>3. Len(e) = n BY <2>1, <2>2
  <2>4. \A k \in DOMAIN e : tree.folders[e[k]].parent = Up(e, k) BY DEF Chains
  <2> QED BY <2>1, <2>2, <2>3, <2>4
<1>2. PICK m \in Nat \ {0} : /\ c \in [1 .. m -> F] /\ Len(c) = m
                             /\ \A k \in 1 .. m : tree.folders[c[k]].parent = Up(c, k)
  BY <1>1
<1>3. PICK n \in Nat \ {0} : /\ d \in [1 .. n -> F] /\ Len(d) = n
                             /\ \A k \in 1 .. n : tree.folders[d[k]].parent = Up(d, k)
  BY <1>1
<1>4. Root \notin F BY DEF MapsFit, Root
<1> DEFINE Apart == {k \in Nat : k < m /\ k < n /\ c[m - k] # d[n - k]}
<1>5. Apart = {}
  <2> SUFFICES ASSUME Apart # {} PROVE FALSE OBVIOUS
  <2>1. Apart \subseteq Nat OBVIOUS
  <2> HIDE DEF Apart
  <2>2. PICK k \in Apart : \A j \in Apart : ~(<<j, k>> \in OpToRel(<, Nat))
    BY <2>1, WFMin, NatLessThanWellFounded
  <2>3. k \in Nat /\ k < m /\ k < n /\ c[m - k] # d[n - k] BY <2>2 DEF Apart
  <2>4. k # 0 BY <1>2, <1>3, <2>3
  <2>5. k - 1 \in Nat /\ k - 1 < k BY <2>3, <2>4
  <2>6. <<k - 1, k>> \in OpToRel(<, Nat) BY <2>3, <2>5 DEF OpToRel
  <2>7. k - 1 \notin Apart BY <2>2, <2>6
  <2>8. c[m - (k - 1)] = d[n - (k - 1)] BY <2>3, <2>5, <2>7 DEF Apart
  <2>9. /\ m - (k - 1) \in 1 .. m /\ m - (k - 1) # 1
        /\ n - (k - 1) \in 1 .. n /\ n - (k - 1) # 1
        /\ m - (k - 1) - 1 = m - k /\ n - (k - 1) - 1 = n - k
    BY <1>2, <1>3, <2>3, <2>4
  <2>10. tree.folders[c[m - (k - 1)]].parent = c[m - k] BY <1>2, <2>9
  <2>11. tree.folders[d[n - (k - 1)]].parent = d[n - k] BY <1>3, <2>9
  <2> QED BY <2>3, <2>8, <2>10, <2>11
<1>6. \A k \in Nat : k < m /\ k < n => c[m - k] = d[n - k] BY <1>5
<1> HIDE DEF Apart
<1>7. m = n
  <2>1. CASE m < n
    <3>1. /\ m - 1 \in Nat /\ m - 1 < m /\ m - 1 < n /\ m - (m - 1) = 1 /\ n - (m - 1) \in 1 .. n
          /\ n - (m - 1) # 1 /\ n - (m - 1) - 1 \in 1 .. n /\ 1 \in 1 .. m
      BY <1>2, <1>3, <2>1
    <3>2. c[1] = d[n - (m - 1)]
      <4>1. PICK k : k = m - 1 OBVIOUS
      <4>2. c[m - k] = d[n - k] BY <1>6, <3>1, <4>1
      <4> QED BY <3>1, <4>1, <4>2
    <3>3. tree.folders[c[1]].parent = Root BY <1>2, <3>1
    <3>4. tree.folders[d[n - (m - 1)]].parent \in F BY <1>3, <3>1
    <3> QED BY <1>4, <3>2, <3>3, <3>4
  <2>2. CASE n < m
    <3>1. /\ n - 1 \in Nat /\ n - 1 < n /\ n - 1 < m /\ n - (n - 1) = 1 /\ m - (n - 1) \in 1 .. m
          /\ m - (n - 1) # 1 /\ m - (n - 1) - 1 \in 1 .. m /\ 1 \in 1 .. n
      BY <1>2, <1>3, <2>2
    <3>2. d[1] = c[m - (n - 1)]
      <4>1. PICK k : k = n - 1 OBVIOUS
      <4>2. c[m - k] = d[n - k] BY <1>6, <3>1, <4>1
      <4> QED BY <3>1, <4>1, <4>2
    <3>3. tree.folders[d[1]].parent = Root BY <1>3, <3>1
    <3>4. tree.folders[c[m - (n - 1)]].parent \in F BY <1>2, <3>1
    <3> QED BY <1>4, <3>2, <3>3, <3>4
  <2> QED BY <1>2, <1>3, <2>1, <2>2
<1>8. ASSUME NEW i \in 1 .. m PROVE c[i] = d[i]
  <2>1. m - i \in Nat /\ m - i < m /\ m - (m - i) = i BY <1>2
  <2> QED BY <1>6, <1>7, <2>1
<1> QED BY <1>2, <1>3, <1>7, <1>8

(* So the path to a folder goes over the path to its parent.               *)
LEMMA PathGoesOverParent ==
  ASSUME MapsFit, NEW f \in Reached
  PROVE  \/ Parent(FolderPath(f)) = << >>
         \/ \E g \in Reached : Parent(FolderPath(f)) = FolderPath(g)
<1> DEFINE c == CHOOSE c \in Chains : c[Len(c)] = f
           F == DOMAIN tree.folders
           S == {tree.folders[g].name : g \in F}
<1>1. c \in Chains BY DEF Reached
<1>2. FolderPath(f) = [k \in DOMAIN c |-> tree.folders[c[k]].name] BY DEF FolderPath
<1> HIDE DEF c
<1>3. PICK n \in 1 .. Cardinality(Id) : c \in [1 .. n -> F] BY <1>1 DEF Chains
<1>4. n \in Nat \ {0} /\ Len(c) = n BY <1>3
<1>5. \A k \in 1 .. n : tree.folders[c[k]].parent = IF k = 1 THEN Root ELSE c[k - 1]
  BY <1>1, <1>3 DEF Chains
<1>6. /\ FolderPath(f) = [k \in 1 .. n |-> tree.folders[c[k]].name]
      /\ FolderPath(f) \in Seq(S) /\ Len(FolderPath(f)) = n
      /\ \A k \in 1 .. n : FolderPath(f)[k] = tree.folders[c[k]].name
  <2>1. FolderPath(f) = [k \in 1 .. n |-> tree.folders[c[k]].name] BY <1>2, <1>3
  <2>2. FolderPath(f) \in Seq(S) BY FolderPathIsPath
  <2> QED BY <1>4, <2>1, <2>2
<1> DEFINE P == SubSeq(FolderPath(f), 1, n - 1)
<1>7. P = Parent(FolderPath(f)) BY <1>6 DEF Parent
<1>8. P \in Seq(S) /\ Len(P) = n - 1 /\ \A k \in 1 .. n - 1 : P[k] = FolderPath(f)[k]
  <2>1. \A k \in 1 .. n - 1 : FolderPath(f)[k] \in S BY <1>3, <1>4, <1>6
  <2>2. n - 1 \in Nat BY <1>4
  <2>3. /\ P \in Seq(S) /\ Len(P) = IF 1 <= n - 1 THEN n - 1 - 1 + 1 ELSE 0
        /\ \A k \in 1 .. n - 1 - 1 + 1 : P[k] = FolderPath(f)[1 + k - 1]
    BY <2>1, <2>2, SubSeqProperties
  <2> QED BY <1>4, <2>3
<1> HIDE DEF P
<1>9. CASE n = 1 BY <1>7, <1>8, <1>9, EmptySeq
<1>10. CASE n # 1
  <2> DEFINE b == [k \in 1 .. n - 1 |-> c[k]]
             g == c[n - 1]
  <2>1. n - 1 \in Nat \ {0} /\ n - 1 \in 1 .. Cardinality(Id) /\ n - 1 \in 1 .. n
    <3>1. Cardinality(Id) \in Nat BY FS_CardinalityType
    <3>2. n \in 1 .. Cardinality(Id) BY <1>3
    <3> QED BY <1>4, <1>10, <3>1, <3>2
  <2>2. b \in [1 .. n - 1 -> F] /\ Len(b) = n - 1 /\ b[n - 1] = g
    BY <1>3, <1>4, <2>1
  <2>3. \A k \in DOMAIN b : tree.folders[b[k]].parent = IF k = 1 THEN Root ELSE b[k - 1]
    BY <1>4, <1>5, <2>1
  <2>4. b \in Chains /\ b[Len(b)] = g BY <2>1, <2>2, <2>3 DEF Chains
  <2>5. g \in Reached BY <2>4 DEF Reached
  <2> DEFINE e == CHOOSE e \in Chains : e[Len(e)] = g
  <2>6. e \in Chains /\ e[Len(e)] = g BY <2>4
  <2>7. FolderPath(g) = [k \in DOMAIN e |-> tree.folders[e[k]].name] BY DEF FolderPath
  <2> HIDE DEF e
  <2>8. e = b BY <2>4, <2>6, SameChain
  <2>9. /\ Len(FolderPath(g)) = n - 1
        /\ \A k \in 1 .. n - 1 : FolderPath(g)[k] = tree.folders[c[k]].name
    <3>1. FolderPath(g) = [k \in 1 .. n - 1 |-> tree.folders[b[k]].name]
      BY <2>2, <2>7, <2>8
    <3> QED BY <2>1, <3>1
  <2>10. FolderPath(g) \in Seq(S) BY <2>5, FolderPathIsPath
  <2>11. ASSUME NEW k \in 1 .. n - 1 PROVE P[k] = FolderPath(g)[k]
    <3>1. k \in 1 .. n BY <1>4
    <3> QED BY <1>6, <1>8, <2>9, <3>1
  <2>12. P = FolderPath(g) BY <1>8, <2>9, <2>10, <2>11, SeqEqual
  <2> QED BY <1>7, <2>5, <2>12
<1> QED BY <1>9, <1>10

LEMMA MapsAreBuilt ==
  ASSUME MapsFit, NEW files \in FileMaps, NEW folders \in FolderMaps
  PROVE  /\ \A p \in DOMAIN files :
              /\ files[p] \in Id
              /\ Parent(p) = << >> \/ Parent(p) \in DOMAIN folders
         /\ \A p \in DOMAIN folders :
              /\ folders[p] \in Id
              /\ Parent(p) = << >> \/ Parent(p) \in DOMAIN folders
              /\ \A o \in DOMAIN folders : folders[o] = folders[p] => o = p
<1> DEFINE dirs  == [f \in Reached |-> FolderPath(f)]
           paths == [i \in Placeable |-> FilePath(i)]
<1>1. /\ folders \in [{dirs[f] : f \in Reached} -> Reached]
      /\ \A p \in {dirs[f] : f \in Reached} : dirs[folders[p]] = p
  <2>1. folders \in Maps(dirs) BY DEF FolderMaps
  <2>2. DOMAIN dirs = Reached OBVIOUS
  <2> HIDE DEF dirs
  <2> QED BY <2>1, <2>2 DEF Maps
<1>2. /\ files \in [{paths[i] : i \in Placeable} -> Placeable]
      /\ \A p \in {paths[i] : i \in Placeable} : paths[files[p]] = p
  <2>1. files \in Maps(paths) BY DEF FileMaps
  <2>2. DOMAIN paths = Placeable OBVIOUS
  <2> HIDE DEF paths
  <2> QED BY <2>1, <2>2 DEF Maps
<1>3. Reached \subseteq Id
  <2>1. ASSUME NEW c \in Chains PROVE c[Len(c)] \in DOMAIN tree.folders
    <3>1. PICK n \in 1 .. Cardinality(Id) : c \in [1 .. n -> DOMAIN tree.folders]
      BY DEF Chains
    <3>2. n \in Nat \ {0} OBVIOUS
    <3>3. Len(c) = n BY <3>1, <3>2
    <3> QED BY <3>1, <3>2, <3>3
  <2> QED BY <2>1 DEF Reached, MapsFit
<1>4. Placeable \subseteq Id BY DEF Placeable, MapsFit
<1>5. ASSUME NEW p \in DOMAIN files
      PROVE  Parent(p) = << >> \/ Parent(p) \in DOMAIN folders
  <2> DEFINE i == files[p]  f == tree.files[i].folder
             dir == IF f = Root THEN << >> ELSE FolderPath(f)
  <2>1. i \in Placeable /\ p = FilePath(i) BY <1>2
  <2>2. f \in Reached \cup {Root} BY <2>1 DEF Placeable
  <2>3. p = Append(dir, tree.files[i].name) BY <2>1 DEF FilePath
  <2>4. CASE f = Root
    <3>1. dir = << >> /\ << >> \in Seq({}) BY <2>4, EmptySeq
    <3> QED BY <2>3, <3>1, ParentOfAppend
  <2>5. CASE f # Root
    <3>1. f \in Reached /\ dir = FolderPath(f) BY <2>2, <2>5
    <3>2. Parent(p) = FolderPath(f) BY <2>3, <3>1, FolderPathIsPath, ParentOfAppend
    <3> QED BY <1>1, <3>1, <3>2
  <2> QED BY <2>4, <2>5
<1>6. ASSUME NEW p \in DOMAIN folders, NEW o \in DOMAIN folders, folders[o] = folders[p]
      PROVE  o = p
  <2>1. dirs[folders[p]] = p /\ dirs[folders[o]] = o BY <1>1
  <2> HIDE DEF dirs
  <2> QED BY <1>6, <2>1
<1>7. ASSUME NEW p \in DOMAIN folders
      PROVE  Parent(p) = << >> \/ Parent(p) \in DOMAIN folders
  <2>1. folders[p] \in Reached /\ p = FolderPath(folders[p]) BY <1>1
  <2>2. \A g \in Reached : FolderPath(g) \in DOMAIN folders BY <1>1
  <2> QED BY <2>1, <2>2, PathGoesOverParent
<1> QED BY <1>1, <1>2, <1>3, <1>4, <1>5, <1>6, <1>7

LEMMA InstallMounts ==
  ASSUME BridgeInv, MountInv, NEW h \in Handler, Install(h)
  PROVE  MountInv'
<1> DEFINE q == req[h]
           r == [q EXCEPT !.phase = "look"]
<1>1. /\ q.phase = "install" /\ Good(q) /\ UNCHANGED made /\ mu' = Nobody /\ Goes(h, r)
      /\ Entered(q) /\ Known(q) /\ ~Owing(q) /\ Tally /\ MapsFit
  BY DEF Install, MountInv, Good, Owing
<1>2. Offered BY <1>1, NobodyAssumption DEF Offered, BridgeInv, Held, Holding
<1>3. PICK files \in FileMaps, folders \in FolderMaps :
        tree' = [tree EXCEPT !.set = TRUE, !.fresh = TRUE,
                             !.fileAt = files, !.folderAt = folders]
  BY DEF Install
<1>4. /\ DOMAIN tree' = Parts /\ tree'.seq = tree.seq /\ tree'.fileAt = files
      /\ tree'.folderAt = folders /\ tree'.files = tree.files
      /\ tree'.folders = tree.folders
  BY <1>1, <1>3 DEF MapsFit, Parts
<1>5. MapsFit' BY <1>1, <1>4, MapsAreBuilt DEF MapsFit
<1>6. Tally' /\ Grows BY <1>1, <1>2, <1>4 DEF Tally, Grows
<1>7. /\ DOMAIN r = Fields /\ r.phase = "look" /\ r.ask = q.ask /\ r.did = q.did
      /\ r.since = q.since /\ r.tries = q.tries /\ r.id = q.id /\ r.into = q.into
  BY <1>1 DEF Entered, Fields
<1> HIDE DEF r
<1>8. Entered(r) BY <1>1, <1>7 DEF Entered
<1>9. Known(r) /\ Honest(r) BY <1>1, <1>7 DEF Known, Honest
<1>10. Seen(r) BY <1>1, <1>2, <1>7 DEF Seen, Good, Owing, Tally, Entered
<1>11. Good(r) BY <1>8, <1>9, <1>10 DEF Good
<1> QED BY <1>1, <1>5, <1>6, <1>11, MovesAndGrows

LEMMA LookupMounts ==
  ASSUME BridgeInv, MountInv, NEW h \in Handler, Lookup(h)
  PROVE  MountInv'
<1>0. PICK late \in BOOLEAN :
        LET q == [req[h] EXCEPT !.calm = @ /\ tree.set /\ ~late] IN
        Goes(h, CASE Method(q) = "Stat"      -> StatAt(q)
                  [] Method(q) = "Mkdir"     -> MkdirAt(q)
                  [] Method(q) = "RemoveAll" -> RemoveAt(q)
                  [] Method(q) = "Rename"    -> RenameAt(q, late)
                  [] Method(q) = "OpenFile"  -> OpenAt(q))
  BY DEF Lookup
<1> DEFINE p == req[h]
           q == [p EXCEPT !.calm = @ /\ tree.set /\ ~late]
<1>1. /\ p.phase = "look" /\ Good(p) /\ Entered(p) /\ Known(p) /\ Seen(p) /\ MapsFit
      /\ Shaped(p) /\ Method(p) \in Looks /\ UNCHANGED <<tree, mu, made>>
      /\ p.phase \notin Holding
  BY DEF Lookup, MountInv, Good, BridgeInv, Fine, Looking, Holding
<1>2. /\ DOMAIN q = Fields /\ q.phase = "look" /\ q.ask = p.ask /\ q.did = p.did
      /\ q.since = p.since /\ q.tries = p.tries /\ q.id = p.id /\ q.into = p.into
      /\ q.at = p.at /\ (q.calm => tree.set /\ ~late)
  BY <1>1 DEF Entered, Fields
<1>3. Goes(h, CASE Method(q) = "Stat"      -> StatAt(q)
                [] Method(q) = "Mkdir"     -> MkdirAt(q)
                [] Method(q) = "RemoveAll" -> RemoveAt(q)
                [] Method(q) = "Rename"    -> RenameAt(q, late)
                [] Method(q) = "OpenFile"  -> OpenAt(q))
  BY <1>0
<1> HIDE DEF q
<1>4. Shaped(q) /\ Method(q) = Method(p) BY <1>1, <1>2 DEF Shaped, Method, Fields
<1>5. Entered(q) /\ Seen(q) BY <1>1, <1>2 DEF Entered, Seen, Owing
<1>6. Known(q) /\ Honest(q) BY <1>1, <1>2 DEF Known, Honest
<1>7. Good(q) BY <1>5, <1>6 DEF Good
<1>8. ASSUME NEW r, Goes(h, r), Good(r) PROVE MountInv' BY <1>1, <1>8, QuietlyGood
<1>9. CASE Method(q) = "Stat" BY <1>2, <1>3, <1>4, <1>7, <1>8, <1>9, StatGood
<1>10. CASE Method(q) = "OpenFile" BY <1>1, <1>2, <1>3, <1>4, <1>7, <1>8, <1>10, OpenGood
<1>11. CASE Method(q) = "Rename" BY <1>1, <1>2, <1>3, <1>4, <1>7, <1>8, <1>11, RenameGood
<1>12. CASE Method(q) \in {"Mkdir", "RemoveAll"}
  <2>1. q.ask.kind \notin {"GET", "PUT"}
    <3>1. q.ask.kind \in Kinds /\ q.at \in 1 .. Len(Methods(q.ask.kind))
      BY <1>4, AsksAssumption DEF Shaped
    <3> QED BY <1>12, <3>1 DEF Kinds, Methods, Method
  <2>2. Good(MkdirAt(q)) /\ Good(RemoveAt(q))
    BY <1>1, <1>2, <1>7, <2>1, MkdirGood, RemoveGood
  <2> QED BY <1>3, <1>8, <1>12, <2>2
<1> QED BY <1>1, <1>4, <1>9, <1>10, <1>11, <1>12 DEF Looks

LEMMA BodyMounts ==
  ASSUME BridgeInv, MountInv, NEW h \in Handler, WriteBody(h)
  PROVE  MountInv'
<1> DEFINE q == req[h]
           s == NextMethod(q)
<1>1. /\ q.phase = "write" /\ Good(q) /\ Entered(q) /\ Known(q) /\ ~Owing(q)
      /\ Shaped(q) /\ UNCHANGED <<tree, mu, made>> /\ q.phase \notin Holding
  BY DEF WriteBody, MountInv, Good, Owing, BridgeInv, Fine, Holding
<1>2. PICK d : Goes(h, [s EXCEPT !.body = d, !.code = IF d = Cut THEN "error" ELSE "none"])
  BY DEF WriteBody
<1> DEFINE r == [s EXCEPT !.body = d, !.code = IF d = Cut THEN "error" ELSE "none"]
<1>3. GoesOn(q, s) /\ s.phase = "close" /\ s.at = 3
  <2>1. q.ask.kind = "PUT" /\ q.at = 2 BY <1>1 DEF Known
  <2>2. Len(Methods(q.ask.kind)) = 3 /\ Methods(q.ask.kind)[3] = "Close"
    BY <2>1 DEF Methods
  <2>3. s.phase = Begins[Methods(q.ask.kind)[3]] /\ s.at = 3 /\ GoesOn(q, s)
    BY <1>1, <2>1, <2>2, NextForms
  <2> HIDE DEF s
  <2> QED BY <2>2, <2>3 DEF Begins
<1> HIDE DEF s
<1>4. /\ DOMAIN r = Fields /\ r.phase = "close" /\ r.ask = s.ask /\ r.did = s.did
      /\ r.since = s.since /\ r.tries = s.tries /\ r.id = s.id /\ r.into = s.into
      /\ r.body = d /\ (d = Cut => r.code = "error")
  BY <1>3 DEF GoesOn, Fields
<1>5. Goes(h, r) BY <1>2
<1> HIDE DEF r
<1>6. GoesOn(q, r) BY <1>3, <1>4 DEF GoesOn
<1>7. Known(r) /\ Honest(r) BY <1>1, <1>4, <1>6 DEF Known, Honest, GoesOn
<1>8. Good(r) BY <1>1, <1>4, <1>6, <1>7, GoesOnGood
<1> QED BY <1>1, <1>5, <1>8, QuietlyGood

LEMMA CloseMounts ==
  ASSUME BridgeInv, MountInv, NEW h \in Handler, CloseHandle(h)
  PROVE  MountInv'
<1> DEFINE q == req[h]
           dir == Parent(q.ask.path)
<1>1. /\ q.phase = "close" /\ Good(q) /\ Entered(q) /\ Known(q) /\ ~Owing(q) /\ MapsFit
      /\ Shaped(q) /\ UNCHANGED <<tree, mu, made>> /\ q.phase \notin Holding
      /\ q.ask.kind \in {"GET", "PUT"} /\ Method(q) = "Close"
  BY DEF CloseHandle, MountInv, Good, Owing, BridgeInv, Fine, Holding
<1>2. q.at = 3 /\ Len(Methods(q.ask.kind)) = 3
  <2>1. q.at \in 1 .. Len(Methods(q.ask.kind)) BY <1>1 DEF Shaped
  <2> QED BY <1>1, <2>1 DEF Methods, Method
<1>3. ASSUME NEW r, Goes(h, r), Good(r) PROVE MountInv' BY <1>1, <1>3, QuietlyGood
<1>4. CASE Goes(h, NextMethod(q)) /\ q.ask.kind = "GET"
  <2> DEFINE r == NextMethod(q)
  <2>1. GoesOn(q, r) /\ r.phase = "answer" BY <1>1, <1>2, NextForms
  <2> HIDE DEF r
  <2>2. Known(r) /\ Honest(r)
    BY <1>1, <1>4, <2>1 DEF Known, Honest, GoesOn, Promises
  <2>3. Good(r) BY <1>1, <2>1, <2>2, GoesOnGood
  <2> QED BY <1>3, <1>4, <2>3 DEF r
<1>5. CASE Goes(h, Fail(q)) BY <1>1, <1>3, <1>5, FailGood
<1>6. ASSUME NEW r, NEW api \in {"ReplaceFileContent", "UploadFile"},
             q.ask.kind = "PUT", DOMAIN r = Fields, r.phase = "call", r.api = api,
             r.at = q.at, r.ask = q.ask, r.did = q.did, r.since = q.since, r.tries = 1,
             r.id = q.id, r.into \in Id \cup {Root}, r.body = q.body, r.code = q.code
      PROVE  Good(r)
  <2>1. GoesOn(q, q) BY <1>1 DEF GoesOn, Entered
  <2> QED BY <1>1, <1>2, <1>6, <2>1, WantsGood DEF Apis, Entered
<1>7. CASE q.ask.kind = "PUT" /\ Goes(h, Wants(q, "ReplaceFileContent"))
  <2> DEFINE r == Wants(q, "ReplaceFileContent")
  <2>1. /\ DOMAIN r = Fields /\ r.phase = "call" /\ r.api = "ReplaceFileContent"
        /\ r.at = q.at /\ r.ask = q.ask /\ r.did = q.did /\ r.since = q.since
        /\ r.tries = 1 /\ r.id = q.id /\ r.into = q.into /\ r.body = q.body
        /\ r.code = q.code
    BY <1>1 DEF Entered, Fields, Wants
  <2> HIDE DEF r
  <2>2. Good(r) BY <1>1, <1>6, <1>7, <2>1 DEF Entered
  <2> QED BY <1>3, <1>7, <2>2 DEF r
<1>8. CASE /\ q.ask.kind = "PUT" /\ HasFolder(dir)
           /\ Goes(h, [Wants(q, "UploadFile") EXCEPT !.into = FolderId(dir),
                                                     !.name = BaseOf(q.ask.path)])
  <2> DEFINE r == [Wants(q, "UploadFile") EXCEPT !.into = FolderId(dir),
                                                 !.name = BaseOf(q.ask.path)]
  <2>1. FolderId(dir) \in Id \cup {Root} BY <1>1, <1>8, LookupIds
  <2>2. Goes(h, r) BY <1>8
  <2> HIDE DEF dir
  <2>3. /\ DOMAIN r = Fields /\ r.phase = "call" /\ r.api = "UploadFile"
        /\ r.at = q.at /\ r.ask = q.ask /\ r.did = q.did /\ r.since = q.since
        /\ r.tries = 1 /\ r.id = q.id /\ r.into = FolderId(dir) /\ r.body = q.body
        /\ r.code = q.code
    BY <1>1 DEF Entered, Fields, Wants
  <2> HIDE DEF r
  <2>4. Good(r) BY <1>6, <1>8, <2>1, <2>3
  <2> QED BY <1>3, <2>2, <2>4
<1>9. CASE q.ask.kind = "GET"
  <2>1. Goes(h, NextMethod(q)) BY <1>9 DEF CloseHandle
  <2> QED BY <1>4, <1>9, <2>1
<1>10. CASE q.ask.kind = "PUT"
  <2>1. CASE q.exists BY <1>7, <1>10, <2>1 DEF CloseHandle
  <2>2. CASE ~q.exists /\ ~HasFolder(dir) BY <1>5, <1>10, <2>2 DEF CloseHandle
  <2>3. CASE ~q.exists /\ HasFolder(dir) BY <1>8, <1>10, <2>3 DEF CloseHandle
  <2> QED BY <2>1, <2>2, <2>3
<1> QED BY <1>1, <1>9, <1>10

(* What SendRequest does to a request: it is tried again, fails, or has    *)
(* been carried out, which is entered in it.                               *)
LEMMA SendMounts ==
  ASSUME BridgeInv, MountInv, NEW h \in Handler, SendRequest(h)
  PROVE  MountInv'
<1>1. PICK q : q = req[h] OBVIOUS
<1>2. /\ q.phase = "call" /\ Good(q) /\ Entered(q) /\ Known(q) /\ Honest(q) /\ Seen(q)
      /\ MapsFit /\ Tally /\ Shaped(q) /\ UNCHANGED <<tree, mu>> /\ q.phase \notin Holding
  BY <1>1 DEF SendRequest, MountInv, Good, BridgeInv, Fine, Holding
<1>3. PICK a :
        LET changed == a.done /\ q.api # "Download"
            n == made.count + 1
            r == IF changed THEN [q EXCEPT !.did = n, !.done = q.api] ELSE q
        IN  /\ a \in Answered(BridgeOutcomes(q)) \cup Unanswered(BridgeOutcomes(q))
            /\ made' = IF changed THEN [made EXCEPT !.count = n] ELSE made
            /\ Goes(h, IF Retries(a, q.tries) THEN [r EXCEPT !.tries = @ + 1]
                       ELSE IF a.answer = "ok" THEN AfterCall(r) ELSE Fail(r))
  BY <1>1 DEF SendRequest
<1>4. a.answer = "ok" => a.done
  <2>1. CASE a \in Answered(BridgeOutcomes(q)) BY <2>1 DEF Answered
  <2>2. CASE a \in Unanswered(BridgeOutcomes(q)) BY <2>2 DEF Unanswered
  <2> QED BY <1>3, <2>1, <2>2
<1>5. PICK n : n = made.count + 1 OBVIOUS
<1>6. PICK changed \in BOOLEAN : changed <=> a.done /\ q.api # "Download" OBVIOUS
<1>7. PICK r : r = IF changed THEN [q EXCEPT !.did = n, !.done = q.api] ELSE q OBVIOUS
<1>8. /\ made' = IF changed THEN [made EXCEPT !.count = n] ELSE made
      /\ Goes(h, IF Retries(a, q.tries) THEN [r EXCEPT !.tries = @ + 1]
                 ELSE IF a.answer = "ok" THEN AfterCall(r) ELSE Fail(r))
  <2>1. CASE changed BY <1>3, <1>5, <1>6, <1>7, <2>1
  <2>2. CASE ~changed BY <1>3, <1>5, <1>6, <1>7, <2>2
  <2> QED BY <1>6, <2>1, <2>2
<1>9. /\ made.count \in Nat /\ made.told \in Nat /\ made.told <= made.count
      /\ tree.seq \in 0 .. made.count /\ made \in [count : Nat, told : Nat]
      /\ made'.told = made.told /\ made' \in [count : Nat, told : Nat]
      /\ made'.count = IF changed THEN n ELSE made.count
  <2>1. /\ made.count \in Nat /\ made.told \in Nat /\ made.told <= made.count
        /\ tree.seq \in 0 .. made.count /\ made \in [count : Nat, told : Nat]
    BY <1>2 DEF Tally
  <2>2. n \in Nat BY <1>5, <2>1
  <2>3. CASE changed BY <1>8, <2>1, <2>2, <2>3
  <2>4. CASE ~changed BY <1>8, <2>1, <2>4
  <2> QED BY <1>6, <2>1, <2>3, <2>4
<1>10. Offered' = Offered
  <2>1. mu # h /\ mu \in Handler \cup {Nobody} /\ DOMAIN req = Handler
    BY <1>1, <1>2, NobodyAssumption DEF BridgeInv, Held
  <2>2. mu # Nobody => req'[mu] = req[mu] BY <1>2, <1>8, <2>1 DEF Goes
  <2> QED BY <1>2, <2>2 DEF Offered
<1>11. Tally' /\ Grows /\ MapsFit'
  BY <1>2, <1>5, <1>9, <1>10 DEF Tally, Grows, MapsFit
<1>12. /\ DOMAIN r = Fields /\ r.ask = q.ask /\ r.at = q.at /\ r.since = q.since
       /\ r.api = q.api /\ r.tries = q.tries /\ r.id = q.id /\ r.into = q.into
       /\ r.phase = "call" /\ r.body = q.body /\ r.code = q.code /\ r.renames = q.renames
       /\ changed => r.done = q.api
       /\ r.did = IF changed THEN n ELSE q.did
  <2>1. CASE changed BY <1>2, <1>7, <2>1 DEF Entered, Fields
  <2>2. CASE ~changed BY <1>2, <1>7, <2>2 DEF Entered
  <2> QED BY <1>6, <2>1, <2>2
<1>13. q.api = "Download" => ~changed /\ r = q BY <1>6, <1>7
<1>14. Entered(r)' BY <1>2, <1>5, <1>9, <1>12 DEF Entered
<1>15. ASSUME NEW s, DOMAIN s = Fields, s.ask = r.ask, s.at = r.at, s.since = r.since,
              s.did = r.did, s.id = r.id, s.into = r.into, s.tries \in 1 .. MaxTries,
              Owing(s), s.body = r.body, s.phase = "answer" \/ s.code = r.code,
              s.phase = "call" =>
                s.api \in Apis /\ (s.api = "Download" <=> s.ask.kind = "GET"),
              s.phase = "invalidate" =>
                /\ s.ask.kind # "GET" /\ s.done = s.api /\ s.done # "none"
                /\ s.done = "MoveFolder" => ~s.renames
       PROVE  Good(s)'
  <2>1. Entered(s)' BY <1>14, <1>15 DEF Entered
  <2>2. Known(s) BY <1>2, <1>12, <1>13, <1>15 DEF Known, Owing
  <2>3. Seen(s)' BY <1>15 DEF Seen, Owing
  <2>4. Honest(s) BY <1>2, <1>12, <1>15 DEF Honest, Owing
  <2>5. Known(s)' /\ Honest(s)' BY <2>2, <2>4 DEF Known, Honest, Kept
  <2> QED BY <2>1, <2>3, <2>5 DEF Good
<1>16. ASSUME NEW s, Goes(h, s), Good(s)' PROVE MountInv'
  BY <1>11, <1>16, RequestMoves
<1>17. CASE Retries(a, q.tries)
  <2>1. PICK s : s = [r EXCEPT !.tries = @ + 1] OBVIOUS
  <2>2. /\ DOMAIN s = Fields /\ s.ask = r.ask /\ s.at = r.at /\ s.since = r.since
        /\ s.did = r.did /\ s.id = r.id /\ s.into = r.into /\ s.tries = r.tries + 1
        /\ s.phase = "call" /\ s.body = r.body /\ s.code = r.code /\ s.api = r.api
    BY <1>12, <2>1 DEF Fields
  <2>3. s.tries \in 1 .. MaxTries BY <1>2, <1>12, <1>17, <2>2 DEF Retries, Entered
  <2>4. Good(s)' BY <1>2, <1>12, <1>15, <2>2, <2>3 DEF Known, Owing
  <2> QED BY <1>8, <1>16, <1>17, <2>1, <2>4
<1>18. CASE ~Retries(a, q.tries) /\ a.answer # "ok"
  <2>1. PICK s : s = Fail(r) OBVIOUS
  <2>2. /\ DOMAIN s = Fields /\ s.ask = r.ask /\ s.at = r.at /\ s.since = r.since
        /\ s.did = r.did /\ s.id = r.id /\ s.into = r.into /\ s.tries = r.tries
        /\ s.phase = "answer" /\ s.body = r.body /\ s.code = "error"
    BY <1>12, <2>1 DEF Fields, Fail
  <2>3. Good(s)' BY <1>2, <1>12, <1>15, <2>2 DEF Entered, Owing
  <2> QED BY <1>8, <1>16, <1>18, <2>1, <2>3
<1>19. CASE ~Retries(a, q.tries) /\ a.answer = "ok" /\ q.api = "Download"
  <2>1. PICK s : s = NextMethod(q) OBVIOUS
  <2>2. Goes(h, s) BY <1>8, <1>12, <1>13, <1>19, <2>1 DEF AfterCall
  <2>3. q.ask.kind = "GET" /\ q.at = 2 /\ q.did = 0 BY <1>2, <1>19 DEF Known
  <2>4. Len(Methods(q.ask.kind)) = 3 /\ Methods(q.ask.kind)[3] = "Close"
    BY <2>3 DEF Methods
  <2>5. GoesOn(q, s) /\ s.phase = Begins[Methods(q.ask.kind)[3]]
    BY <1>2, <2>1, <2>3, <2>4, NextForms
  <2>6. s.phase = "close" BY <2>4, <2>5 DEF Begins
  <2>7. Entered(s) BY <1>2, <2>5 DEF Entered, GoesOn
  <2>8. Known(s) /\ Honest(s) /\ Seen(s)
    BY <1>9, <2>3, <2>5, <2>6 DEF Known, Honest, Seen, GoesOn
  <2>9. Good(s) BY <2>7, <2>8 DEF Good
  <2> QED BY <1>11, <2>2, <2>9, MovesAndGrows
<1>20. CASE ~Retries(a, q.tries) /\ a.answer = "ok" /\ q.api # "Download"
  <2>1. changed BY <1>4, <1>6, <1>20
  <2>2. CASE q.api = "MoveFolder" /\ r.renames
    <3>1. PICK s : s = Wants(r, "RenameFolder") OBVIOUS
    <3>2. Goes(h, s) BY <1>8, <1>12, <1>20, <2>2, <3>1 DEF AfterCall
    <3>3. /\ DOMAIN s = Fields /\ s.ask = r.ask /\ s.at = r.at /\ s.since = r.since
          /\ s.did = r.did /\ s.id = r.id /\ s.into = r.into /\ s.tries = 1
          /\ s.phase = "call" /\ s.body = r.body /\ s.code = r.code
          /\ s.api = "RenameFolder"
      BY <1>12, <3>1 DEF Fields, Wants
    <3>4. Good(s)' BY <1>2, <1>12, <1>15, <1>20, <3>3 DEF Known, Owing, Apis
    <3> QED BY <1>16, <3>2, <3>4
  <2>3. CASE ~(q.api = "MoveFolder" /\ r.renames)
    <3>1. PICK s : s = [r EXCEPT !.phase = "invalidate"] OBVIOUS
    <3>2. Goes(h, s) BY <1>8, <1>12, <1>20, <2>3, <3>1 DEF AfterCall
    <3>3. /\ DOMAIN s = Fields /\ s.ask = r.ask /\ s.at = r.at /\ s.since = r.since
          /\ s.did = r.did /\ s.id = r.id /\ s.into = r.into /\ s.tries = r.tries
          /\ s.phase = "invalidate" /\ s.body = r.body /\ s.code = r.code
          /\ s.api = r.api /\ s.done = r.done /\ s.renames = r.renames
      BY <1>12, <3>1 DEF Fields
    <3>4. /\ s.ask.kind # "GET" /\ s.done = s.api /\ s.done # "none"
          /\ s.done = "MoveFolder" => ~s.renames
      BY <1>2, <1>12, <1>20, <2>1, <2>3, <3>3 DEF Known, Apis
    <3>5. Good(s)' BY <1>2, <1>12, <1>15, <3>3, <3>4 DEF Entered, Owing
    <3> QED BY <1>16, <3>2, <3>5
  <2> QED BY <2>2, <2>3
<1> QED BY <1>17, <1>18, <1>19, <1>20

LEMMA InvalidateMounts ==
  ASSUME BridgeInv, MountInv, NEW h \in Handler, Invalidate(h)
  PROVE  MountInv'
<1>1. PICK q : q = req[h] OBVIOUS
<1>2. /\ q.phase = "invalidate" /\ Entered(q) /\ Known(q) /\ Honest(q) /\ Shaped(q)
      /\ MapsFit /\ Tally /\ UNCHANGED <<mu, made>> /\ mu = Nobody
      /\ tree' = [tree EXCEPT !.set = FALSE, !.fresh = FALSE]
      /\ Goes(h, IF q.code = "error" THEN [q EXCEPT !.phase = "answer"] ELSE NextMethod(q))
  BY <1>1 DEF Invalidate, MountInv, Good, BridgeInv, Fine
<1>3. /\ DOMAIN tree' = Parts /\ tree'.seq = tree.seq /\ ~tree'.set
      /\ tree'.fileAt = tree.fileAt /\ tree'.folderAt = tree.folderAt
      /\ tree'.files = tree.files /\ tree'.folders = tree.folders
  BY <1>2 DEF MapsFit, Parts
<1>4. ~Offered' BY <1>2, <1>3 DEF Offered
<1>5. MapsFit' BY <1>2, <1>3 DEF MapsFit
<1>6. Tally' /\ Grows BY <1>2, <1>3, <1>4 DEF Tally, Grows
<1>7. ASSUME NEW s, Goes(h, s), GoesOn(q, s), Known(s), Honest(s), s.phase # "look"
      PROVE  MountInv'
  <2>1. Entered(s)' BY <1>2, <1>7 DEF Entered, GoesOn
  <2>2. Known(s)' /\ Honest(s)' BY <1>7 DEF Known, Honest, Kept
  <2>3. Seen(s)' BY <1>4, <1>7 DEF Seen
  <2>4. Good(s)' BY <2>1, <2>2, <2>3 DEF Good
  <2> QED BY <1>5, <1>6, <1>7, <2>4, RequestMoves
<1>8. CASE q.code = "error"
  <2>1. PICK s : s = [q EXCEPT !.phase = "answer"] OBVIOUS
  <2>2. /\ DOMAIN s = Fields /\ s.ask = q.ask /\ s.did = q.did /\ s.since = q.since
        /\ s.tries = q.tries /\ s.id = q.id /\ s.into = q.into /\ s.phase = "answer"
        /\ s.code = "error"
    BY <1>2, <1>8, <2>1 DEF Entered, Fields
  <2>3. GoesOn(q, s) BY <1>2, <2>2 DEF GoesOn, Entered
  <2>4. Known(s) /\ Honest(s) BY <1>2, <2>2 DEF Known, Honest
  <2> QED BY <1>2, <1>7, <1>8, <2>1, <2>2, <2>3, <2>4
<1>9. CASE q.code # "error"
  <2>1. PICK s : s = NextMethod(q) OBVIOUS
  <2>2. q.ask.kind \in Kinds /\ q.ask.kind # "GET" /\ q.at \in 1 .. Len(Methods(q.ask.kind))
    BY <1>2, AsksAssumption DEF Known, Shaped
  <2>3. GoesOn(q, s) /\ s.body = q.body BY <1>2, <2>1, NextForms
  <2>4. CASE q.at = Len(Methods(q.ask.kind))
    <3>1. /\ s.phase = "answer" /\ s.done = q.done /\ s.api = q.api
          /\ s.renames = q.renames /\ s.calm = q.calm
      BY <1>2, <2>1, <2>4, NextForms
    <3>2. s.ask.kind \in Promises /\ s.calm => Kept(s) BY <1>2, <1>9, <2>3, <3>1 DEF Honest, Kept, GoesOn
    <3>3. Known(s) /\ Honest(s) BY <1>2, <2>2, <2>3, <3>1, <3>2 DEF Known, Honest, GoesOn
    <3> QED BY <1>2, <1>7, <1>9, <2>1, <2>3, <3>1, <3>3
  <2>5. CASE q.at # Len(Methods(q.ask.kind))
    <3>1. q.ask.kind \in {"DELETE", "MOVE", "PROPFIND", "MKCOL"}
      BY <1>2, <2>2, <2>5 DEF Kinds, Known, Methods
    <3>2. Methods(q.ask.kind)[q.at + 1] \in {"RemoveAll", "Rename"}
      BY <2>2, <2>5, <3>1 DEF Methods
    <3>3. s.phase = Begins[Methods(q.ask.kind)[q.at + 1]] BY <1>2, <2>1, <2>5, NextForms
    <3>4. s.phase = "snapshot" BY <3>2, <3>3 DEF Begins
    <3>5. Known(s) /\ Honest(s)
      BY <2>2, <2>3, <3>1, <3>4 DEF Known, Honest, GoesOn
    <3> QED BY <1>2, <1>7, <1>9, <2>1, <2>3, <3>4, <3>5
  <2> QED BY <2>4, <2>5
<1> QED BY <1>8, <1>9

LEMMA AnswerMounts ==
  ASSUME BridgeInv, MountInv, NEW h \in Handler, Answer(h)
  PROVE  MountInv'
<1> DEFINE q == req[h]
<1>1. /\ q.phase = "answer" /\ Good(q) /\ Entered(q) /\ Seen(q) /\ MapsFit /\ Tally
      /\ UNCHANGED <<tree, mu>> /\ Goes(h, Idle)
      /\ made' = [made EXCEPT !.told = Told(q)]
  BY DEF Answer, MountInv, Good
<1>2. /\ made.count \in Nat /\ made.told \in Nat /\ made.told <= made.count
      /\ tree.seq \in 0 .. made.count /\ made \in [count : Nat, told : Nat]
      /\ q.did \in 0 .. made.count
  BY <1>1 DEF Tally, Entered
<1>3. /\ Told(q) \in made.told .. made.count
      /\ Offered => Told(q) <= tree.seq
  BY <1>1, <1>2 DEF Told, Seen, Owing, Tally
<1>4. /\ made' \in [count : Nat, told : Nat] /\ made'.count = made.count
      /\ made'.told = Told(q)
  BY <1>1, <1>2, <1>3
<1>5. Offered' = Offered
  <2>1. mu # h /\ mu \in Handler \cup {Nobody} /\ DOMAIN req = Handler
    BY <1>1, NobodyAssumption DEF BridgeInv, Held, Holding
  <2>2. mu # Nobody => req'[mu] = req[mu] BY <1>1, <2>1 DEF Goes
  <2> QED BY <1>1, <2>2 DEF Offered
<1>6. Tally' /\ Grows /\ MapsFit'
  BY <1>1, <1>2, <1>3, <1>4, <1>5 DEF Tally, Grows, MapsFit
<1>7. Good(Idle) BY DEF Good, Idle
<1> QED BY <1>1, <1>6, <1>7, MovesAndGrows

LEMMA ServerMounts ==
  ASSUME BridgeInv, MountInv, Serve \/ Expire \/ Interrupt
  PROVE  MountInv'
<1>1. UNCHANGED <<mu, req, made>> BY DEF Serve, Expire, Interrupt
<1>2. MapsFit /\ Tally /\ \A h \in Handler : Good(req[h]) BY DEF MountInv
<1>3. /\ DOMAIN tree' = DOMAIN tree /\ tree'.seq = tree.seq /\ tree'.set = tree.set
      /\ tree'.fileAt = tree.fileAt /\ tree'.folderAt = tree.folderAt
      /\ tree'.files = tree.files /\ tree'.folders = tree.folders
  BY <1>2 DEF Serve, Expire, Interrupt, MapsFit, Parts
<1>4. Offered' = Offered BY <1>1, <1>3 DEF Offered
<1>5. Tally' /\ Grows /\ MapsFit' BY <1>1, <1>2, <1>3, <1>4 DEF Tally, Grows, MapsFit
<1>6. ASSUME NEW h \in Handler PROVE Good(req[h])'
  <2>1. PICK q : q = req[h] OBVIOUS
  <2>2. Good(q)' BY <1>2, <1>5, <2>1, StaysGood
  <2> QED BY <1>1, <2>1, <2>2 DEF Good, Entered, Known, Seen, Honest, Kept, Owing
<1> QED BY <1>5, <1>6 DEF MountInv

LEMMA ExitMounts ==
  ASSUME BridgeInv, MountInv, NEW graceOver, Exit(graceOver)
  PROVE  MountInv'
<1>1. /\ req' = [h \in Handler |-> Idle] /\ mu' = Nobody /\ UNCHANGED <<tree, made>>
      /\ Tally /\ MapsFit
  BY DEF Exit, MountInv
<1>2. Offered' => Offered BY <1>1 DEF Offered
<1>3. Tally' /\ MapsFit' BY <1>1, <1>2 DEF Tally, MapsFit
<1>4. (\A h \in Handler : Good(req[h]))' BY <1>1 DEF Good, Idle
<1> QED BY <1>3, <1>4 DEF MountInv

LEMMA MountKeepsAll ==
  ASSUME BridgeInv, MountInv, FilesTypeOK, [BridgeNext]_bridgeVars
  PROVE  MountInv'
<1>1. CASE UNCHANGED bridgeVars
  BY <1>1 DEF bridgeVars, MountInv, Tally, MapsFit, Offered, Good, Entered, Known, Seen,
              Honest, Kept, Owing
<1>2. CASE Serve \/ Expire \/ Interrupt BY <1>2, ServerMounts
<1>3. CASE Exit(FALSE) \/ Exit(TRUE) BY <1>3, ExitMounts
<1>4. ASSUME NEW h \in Handler, Receive(h) \/ HandlerStep(h)
      PROVE  MountInv'
  <2>1. CASE Receive(h) BY <2>1, ReceiveMounts
  <2>2. CASE Snapshot(h) BY <2>2, SnapshotMounts
  <2>3. CASE Fetch(h) BY <2>3, FetchMounts
  <2>4. CASE Install(h) BY <2>4, InstallMounts
  <2>5. CASE Lookup(h) BY <2>5, LookupMounts
  <2>6. CASE WriteBody(h) BY <2>6, BodyMounts
  <2>7. CASE CloseHandle(h) BY <2>7, CloseMounts
  <2>8. CASE SendRequest(h) BY <2>8, SendMounts
  <2>9. CASE Invalidate(h) BY <2>9, InvalidateMounts
  <2>10. CASE Answer(h) BY <2>10, AnswerMounts
  <2> QED BY <1>4, <2>1, <2>2, <2>3, <2>4, <2>5, <2>6, <2>7, <2>8, <2>9, <2>10
          DEF HandlerStep
<1> QED BY <1>1, <1>2, <1>3, <1>4 DEF BridgeNext

LEMMA MountHolds == BridgeSpec /\ []FilesTypeOK => [](BridgeInv /\ MountInv)
<1>1. BridgeInit => BridgeInv /\ MountInv BY BridgeStarts, MountStarts
<1>2. BridgeInv /\ MountInv /\ FilesTypeOK /\ [BridgeNext]_bridgeVars
      => (BridgeInv /\ MountInv)'
  BY BridgeKeeps, MountKeepsAll
<1> QED BY <1>1, <1>2, PTL DEF BridgeSpec

(* What a request reports as done was done: every change that is answered  *)
(* as made was carried out by the server, to its last request and with its *)
(* whole body; a MOVE unless the snapshot was invalidated under it.        *)
THEOREM MountReportsTheTruth == BridgeSpec /\ []FilesTypeOK => []ReportedIsDone
<1>1. MountInv => ReportedIsDone BY DEF MountInv, Good, Honest, ReportedIsDone
<1> QED BY <1>1, MountHolds, PTL

LEMMA LooksAtOwnWrites ==
  ASSUME MountInv, NEW h \in Handler, req[h].phase = "look"
  PROVE  tree.seq >= req[h].since
<1>1. Seen(req[h]) BY DEF MountInv, Good
<1>2. tree.seq \in Nat /\ req[h].since \in Nat
  BY DEF MountInv, Tally, Good, Entered
<1> QED BY <1>1, <1>2 DEF Seen

(* A client's lookups are made on a tree that was listed after every       *)
(* change it had been told of when it asked, also when another request was *)
(* refreshing the snapshot while the change was made.                      *)
THEOREM ClientsSeeTheirWrites == BridgeSpec /\ []FilesTypeOK => OwnWritesSeen
<1>1. BridgeInv /\ MountInv /\ [BridgeNext]_bridgeVars
      => [\A h \in Handler : req[h].phase = "look" /\ req'[h].phase # "look"
                             /\ mount'.phase # "down"
          => tree.seq >= req[h].since]_<<tree, req>>
  BY LooksAtOwnWrites DEF bridgeVars
<1> QED BY <1>1, MountHolds, PTL DEF BridgeSpec, OwnWritesSeen

(* The requests a client has left to send.                                 *)
MountTyped == mount \in [phase : {"off", "up", "stopping", "down"}, readOnly : BOOLEAN,
                         left : 0 .. MaxRequests]

(* The ids a request works with are ids of rows or the root, it is at one  *)
(* of its methods, and no request is sent more often than maxRetries       *)
(* allows.                                                                 *)
THEOREM BridgeIsTyped == BridgeSpec /\ []FilesTypeOK => []BridgeTypeOK
<1>1. BridgeInit => MountTyped BY DEF BridgeInit, MountTyped
<1>2. MountTyped /\ [BridgeNext]_bridgeVars => MountTyped'
  <2> SUFFICES ASSUME MountTyped, [BridgeNext]_bridgeVars PROVE MountTyped' OBVIOUS
  <2>1. CASE UNCHANGED mount BY <2>1 DEF MountTyped
  <2>2. CASE \E p \in {"up", "stopping", "down"} : mount' = [mount EXCEPT !.phase = p]
    BY <2>2 DEF MountTyped
  <2>3. CASE mount.left > 0 /\ mount' = [mount EXCEPT !.left = @ - 1]
    BY <2>3, RequestsAssumption DEF MountTyped
  <2> QED BY <2>1, <2>2, <2>3
          DEF BridgeNext, bridgeVars, Serve, Expire, Interrupt, Exit, Receive, HandlerStep,
              Snapshot, Fetch, Install, Lookup, WriteBody, CloseHandle, SendRequest,
              Invalidate, Answer
<1>3. BridgeInv /\ MountInv /\ MountTyped => BridgeTypeOK
  BY DEF BridgeInv, Held, Fine, Shaped, MountInv, Tally, Good, Entered, MountTyped,
         BridgeTypeOK
<1> QED BY <1>1, <1>2, <1>3, MountHolds, PTL DEF BridgeSpec

-----------------------------------------------------------------------------
(* A server keeps every body of another one's live or trashed files.       *)
Recoverable == {"live", "trash"}
KeepsRow(old, new) ==
  /\ old.at \in Recoverable => new.at \in Recoverable
  /\ {old.data} \cup old.old \subseteq {new.data} \cup new.old
LEMMA RowsKeepBodies ==
  ASSUME NEW s, DOMAIN server.files \subseteq DOMAIN s.files,
         \A i \in DOMAIN server.files : KeepsRow(server.files[i], s.files[i])
  PROVE  HeldBodies(server) \subseteq HeldBodies(s)
<1> SUFFICES ASSUME NEW b \in HeldBodies(server) PROVE b \in HeldBodies(s) OBVIOUS
<1>1. PICK i \in DOMAIN server.files :
        /\ server.files[i].at \in Recoverable
        /\ b \in {server.files[i].data} \cup server.files[i].old
  BY DEF HeldBodies, Recoverable
<1>2. i \in DOMAIN s.files /\ KeepsRow(server.files[i], s.files[i]) BY <1>1
<1>3. s.files[i].at \in Recoverable /\ b \in {s.files[i].data} \cup s.files[i].old
  BY <1>1, <1>2 DEF KeepsRow
<1> QED BY <1>2, <1>3 DEF HeldBodies, Recoverable

LEMMA WithFileKeeps ==
  ASSUME FilesTypeOK, NEW i, NEW row,
         i \in DOMAIN server.files => KeepsRow(server.files[i], row)
  PROVE  HeldBodies(server) \subseteq HeldBodies(WithFile(i, row))
<1> DEFINE s == WithFile(i, row)
<1>1. s.files = Put(server.files, i, row) BY DEF WithFile, FilesTypeOK
<1>2. /\ DOMAIN s.files = DOMAIN server.files \cup {i}
      /\ \A j \in DOMAIN server.files : s.files[j] = IF j = i THEN row ELSE server.files[j]
  BY <1>1 DEF Put
<1> HIDE DEF s
<1>3. \A j \in DOMAIN server.files : KeepsRow(server.files[j], s.files[j])
  BY <1>2 DEF KeepsRow
<1>4. HeldBodies(server) \subseteq HeldBodies(s) BY <1>2, <1>3, RowsKeepBodies
<1> QED BY <1>4 DEF s

LEMMA SameFilesKeep ==
  ASSUME NEW s, s.files = server.files
  PROVE  HeldBodies(server) \subseteq HeldBodies(s)
BY RowsKeepBodies DEF KeepsRow

LEMMA NewFileKeeps ==
  ASSUME FilesTypeOK, NEW name, NEW folder, NEW data, NEW o \in NewFile(name, folder, data)
  PROVE  HeldBodies(server) \subseteq HeldBodies(o.server)
<1> DEFINE i == Least(FreshFiles)
           row == [at |-> "live", folder |-> folder, name |-> name,
                   data |-> data, old |-> {}, ver |-> 1]
<1>1. \/ o.server = server
      \/ FreshFiles # {} /\ o.server = WithFile(i, row)
  BY MayIs DEF NewFile
<1>2. CASE FreshFiles # {} /\ o.server = WithFile(i, row)
  <2>1. i \in FreshFiles => i \notin DOMAIN server.files
    BY DEF FreshFiles, File, RowAt, FilesTypeOK, Table, FileRow, Place
  <2>2. i \in FreshFiles
    <3>1. FreshFiles \subseteq Nat BY DEF FreshFiles
    <3> QED BY <1>2, <3>1, LeastOfIds
  <2> HIDE DEF i, row
  <2> QED BY <1>2, <2>1, <2>2, WithFileKeeps
<1> QED BY <1>1, <1>2, SameFilesKeep

LEMMA ChangedFileKeeps ==
  ASSUME FilesTypeOK, NEW i, NEW row, NEW o, Live(i),
         row.at \in Recoverable,
         {File(i).data} \cup File(i).old \subseteq {row.data} \cup row.old,
         o.server = server \/ o.server = WithFile(i, row)
  PROVE  HeldBodies(server) \subseteq HeldBodies(o.server)
<1>1. i \in DOMAIN server.files /\ File(i) = server.files[i] BY LiveIsRow
<1>2. KeepsRow(server.files[i], row) BY <1>1 DEF KeepsRow
<1>3. HeldBodies(server) \subseteq HeldBodies(WithFile(i, row)) BY <1>1, <1>2, WithFileKeeps
<1> QED BY <1>3, SameFilesKeep

LEMMA FolderRequestsKeep ==
  ASSUME FilesTypeOK, NEW can, NEW f, NEW row, NEW o \in May(can, WithFolder(f, row))
  PROVE  HeldBodies(server) \subseteq HeldBodies(o.server)
<1>1. WithFolder(f, row).files = server.files BY DEF WithFolder, FilesTypeOK
<1> QED BY <1>1, MayIs, SameFilesKeep

LEMMA TrashedFolderKeeps ==
  ASSUME FilesTypeOK, NEW f, NEW o \in DeleteFolder(f)
  PROVE  HeldBodies(server) \subseteq HeldBodies(o.server)
<1> DEFINE s == Moved(f, "live", "trash")
<1>1. PICK sub : s =
        [server EXCEPT
           !.folders = [g \in DOMAIN @ |-> IF g \in sub /\ Folder(g).at = "live"
                                           THEN [Folder(g) EXCEPT !.at = "trash"]
                                           ELSE Folder(g)],
           !.files = [i \in DOMAIN @ |-> IF File(i).folder \in sub /\ File(i).at = "live"
                                       THEN [File(i) EXCEPT !.at = "trash"] ELSE File(i)]]
  BY DEF Moved
<1>2. s.files = [i \in DOMAIN server.files |->
                   IF File(i).folder \in sub /\ File(i).at = "live"
                   THEN [File(i) EXCEPT !.at = "trash"] ELSE File(i)]
  BY <1>1 DEF FilesTypeOK
<1> HIDE DEF s
<1>3. ASSUME NEW i \in DOMAIN server.files
      PROVE  KeepsRow(server.files[i], s.files[i])
  <2>1. File(i) = server.files[i] /\ File(i) \in FileRow
    BY DEF File, RowAt, FilesTypeOK, Table
  <2>2. s.files[i] = File(i) \/ s.files[i] = [File(i) EXCEPT !.at = "trash"] BY <1>2
  <2> QED BY <2>1, <2>2 DEF KeepsRow, FileRow, Recoverable
<1>4. HeldBodies(server) \subseteq HeldBodies(s) BY <1>2, <1>3, RowsKeepBodies
<1> QED BY <1>4, MayIs, SameFilesKeep DEF DeleteFolder, s

LEMMA FileRequestsKeep ==
  ASSUME FilesTypeOK, NEW i, NEW name, NEW folder, NEW ver, NEW data,
         NEW o \in DeleteFile(i) \cup UpdateFile(i, name, folder, ver)
                   \cup ReplaceFileContent(i, data)
  PROVE  HeldBodies(server) \subseteq HeldBodies(o.server)
<1> DEFINE f == File(i)
           trash == [f EXCEPT !.at = "trash"]
           moved == [f EXCEPT !.name = name, !.folder = folder, !.ver = @ + 1]
           fresh == [f EXCEPT !.data = data, !.ver = @ + 1, !.old = @ \cup {f.data}]
<1>1. CASE o.server = server BY <1>1, SameFilesKeep
<1>2. CASE o.server # server
  <2>1. Live(i) /\ \E row \in {trash, moved, fresh} : o.server = WithFile(i, row)
    <3>1. CASE o \in DeleteFile(i) BY <1>2, <3>1, MayIs DEF DeleteFile
    <3>2. CASE o \in UpdateFile(i, name, folder, ver) BY <1>2, <3>2, MayIs DEF UpdateFile
    <3>3. CASE o \in ReplaceFileContent(i, data)
      BY <1>2, <3>3, MayIs DEF ReplaceFileContent
    <3> QED BY <3>1, <3>2, <3>3
  <2>2. f \in FileRow /\ f.at = "live" BY <2>1, LiveIsRow DEF Live
  <2> HIDE DEF f
  <2>3. \A row \in {trash, moved, fresh} :
          row.at \in Recoverable /\ {f.data} \cup f.old \subseteq {row.data} \cup row.old
    BY <2>2 DEF FileRow, Recoverable
  <2> HIDE DEF trash, moved, fresh
  <2> QED BY <2>1, <2>3, ChangedFileKeeps DEF f
<1> QED BY <1>1, <1>2

LEMMA BridgeRequestsKeep ==
  ASSUME FilesTypeOK, NEW q, q.api \in Apis, NEW o \in BridgeOutcomes(q)
  PROVE  HeldBodies(server) \subseteq HeldBodies(o.server)
<1>1. CASE q.api \in {"CreateFolder", "MoveFolder", "RenameFolder"}
  <2>1. \E can, f, row : o \in May(can, WithFolder(f, row))
    <3>1. CASE q.api = "CreateFolder" BY <3>1 DEF BridgeOutcomes, CreateFolder
    <3>2. CASE q.api = "MoveFolder" BY <3>2 DEF BridgeOutcomes, MoveFolder
    <3>3. CASE q.api = "RenameFolder" BY <3>3 DEF BridgeOutcomes, RenameFolder
    <3> QED BY <1>1, <3>1, <3>2, <3>3
  <2> QED BY <2>1, FolderRequestsKeep
<1>2. CASE q.api = "DeleteFolder" BY <1>2, TrashedFolderKeeps DEF BridgeOutcomes
<1>3. CASE q.api \in {"DeleteFile", "UpdateFile", "ReplaceFileContent"}
  <2>1. \E i, name, folder, ver, data :
          o \in DeleteFile(i) \cup UpdateFile(i, name, folder, ver)
                \cup ReplaceFileContent(i, data)
    <3>1. CASE q.api = "DeleteFile" BY <3>1 DEF BridgeOutcomes, TrashFile
    <3>2. CASE q.api = "UpdateFile" BY <3>2 DEF BridgeOutcomes
    <3>3. CASE q.api = "ReplaceFileContent" BY <3>3 DEF BridgeOutcomes
    <3> QED BY <1>3, <3>1, <3>2, <3>3
  <2> QED BY <2>1, FileRequestsKeep
<1>4. CASE q.api = "UploadFile" BY <1>4, NewFileKeeps DEF BridgeOutcomes, UploadFile
<1>5. CASE q.api = "Download" BY <1>5, MayIs, SameFilesKeep DEF BridgeOutcomes
<1> QED BY <1>1, <1>2, <1>3, <1>4, <1>5 DEF Apis

(* No request of the drive makes the server forget a body. *)
LEMMA StepLosesNothing ==
  ASSUME BridgeInv, MountInv, FilesTypeOK, BridgeNext
  PROVE  HeldBodies(server) \subseteq HeldBodies(server')
<1>1. CASE server' = server BY <1>1
<1>2. ASSUME NEW h \in Handler, SendRequest(h)
      PROVE  HeldBodies(server) \subseteq HeldBodies(server')
  <2> DEFINE q == req[h]  outs == BridgeOutcomes(q)
  <2>1. q.api \in Apis BY <1>2 DEF SendRequest, MountInv, Good, Known
  <2>2. \E a \in Answered(outs) \cup Unanswered(outs) : Attempt(outs, a)
    BY <1>2 DEF SendRequest
  <2>3. server' = server \/ \E o \in outs : server' = o.server BY <2>2, AttemptIs
  <2> QED BY <1>1, <2>1, <2>3, BridgeRequestsKeep
<1>3. ASSUME NEW h \in Handler, Fetch(h)
      PROVE  server' = server
  <2>1. \E a \in Answered(Reading) \cup Unanswered(Reading) : Attempt(Reading, a)
    BY <1>3 DEF Fetch
  <2>2. server' = server \/ \E o \in Reading : server' = o.server BY <2>1, AttemptIs
  <2> QED BY <2>2 DEF Reading, Done, Refused
<1>4. \/ server' = server
      \/ \E h \in Handler : SendRequest(h) \/ Fetch(h)
  BY DEF BridgeNext, Serve, Expire, Interrupt, Exit, Receive, HandlerStep, Snapshot,
         Install, Lookup, WriteBody, CloseHandle, Invalidate, Answer
<1> QED BY <1>1, <1>2, <1>3, <1>4

(* No step of the drive, overwriting or removing, broken off or repeated,  *)
(* makes the server forget the body of a file that is live or in the       *)
(* trash, or one of its archived versions.                                 *)
THEOREM NothingIsLostByTheDrive == BridgeSpec /\ []FilesTypeOK => MountLosesNothing
<1>1. BridgeInv /\ MountInv /\ FilesTypeOK /\ [BridgeNext]_bridgeVars
      => [req' # req => HeldBodies(server) \subseteq HeldBodies(server')]_<<server, req>>
  BY StepLosesNothing DEF bridgeVars
<1> QED BY <1>1, MountHolds, PTL DEF BridgeSpec, MountLosesNothing

-----------------------------------------------------------------------------
(* What a request brings to the server: contents, and the name of whatever *)
(* it creates, renames or moves, which is the last of a path that is not   *)
(* the root's.                                                             *)
Titled == {"CreateFolder", "MoveFolder", "RenameFolder", "UpdateFile", "UploadFile"}
Carries(q) ==
  q.phase # "idle" =>
    /\ q.body \in Data
    /\ q.phase = "call" /\ q.api \in Titled => q.name \in Name
    /\ q.ask.kind = "PUT" /\ q.phase \in {"write", "close"} => q.ask.path # << >>
AllCarry == DOMAIN req = Handler /\ \A h \in Handler : Carries(req[h])

LEMMA BaseIsName ==
  ASSUME NEW q, Shaped(q)
  PROVE  /\ q.ask.path # << >> => BaseOf(q.ask.path) \in Name
         /\ q.ask.to # << >> => BaseOf(q.ask.to) \in Name
<1>1. q.ask.path \in Seq(Name) /\ q.ask.to \in Seq(Name) BY AsksAssumption DEF Shaped
<1>2. ASSUME NEW p \in Seq(Name), p # << >> PROVE BaseOf(p) \in Name
  <2>1. Len(p) \in 1 .. Len(p) BY <1>2, EmptySeq
  <2> QED BY <2>1, ElementOfSeq DEF BaseOf
<1> QED BY <1>1, <1>2

LEMMA NextCarries ==
  ASSUME NEW q, Entered(q), Shaped(q), Carries(q), q.phase # "idle",
         NextMethod(q).phase # "call",
         NextMethod(q).phase \in {"write", "close"} /\ q.ask.kind = "PUT" => q.ask.path # << >>
  PROVE  Carries(NextMethod(q))
<1>1. NextMethod(q).body = q.body /\ NextMethod(q).ask = q.ask
  BY NextForms DEF GoesOn
<1> QED BY <1>1 DEF Carries

LEMMA FailCarries ==
  ASSUME NEW q, Entered(q), Carries(q), q.phase # "idle"
  PROVE  Carries(Fail(q))
<1>1. Fail(q).body = q.body /\ Fail(q).phase = "answer" BY DEF Entered, Fields, Fail
<1> QED BY <1>1 DEF Carries

(* The lookups of a method.                                                *)
LEMMA LookupCarries ==
  ASSUME NEW q, Entered(q), Shaped(q), Carries(q), q.phase = "look", NEW late
  PROVE  /\ Method(q) = "Stat" => Carries(StatAt(q))
         /\ Carries(MkdirAt(q)) /\ Carries(RemoveAt(q)) /\ Carries(RenameAt(q, late))
         /\ Method(q) = "OpenFile" => Carries(OpenAt(q))
<1>1. q.body \in Data /\ DOMAIN q = Fields BY DEF Carries, Entered
<1>2. Carries(Fail(q)) BY FailCarries
<1>3. ASSUME Method(q) = "Stat" PROVE Carries(StatAt(q))
  <2>1. NextMethod(q).phase \in {"answer", "snapshot"} BY <1>3, NextIs
  <2>2. Carries(NextMethod(q)) BY <2>1, NextCarries
  <2>3. Carries([q EXCEPT !.at = 3, !.phase = "snapshot"]) BY <1>1 DEF Carries, Fields
  <2> QED BY <1>2, <2>2, <2>3 DEF StatAt
<1>4. Carries(MkdirAt(q))
  <2> DEFINE dir == Parent(q.ask.path)
             r == [Wants(q, "CreateFolder") EXCEPT !.into = FolderId(dir),
                                                  !.name = BaseOf(q.ask.path)]
  <2>1. CASE HasFolder(q.ask.path) \/ ~HasFolder(dir) BY <1>2, <2>1 DEF MkdirAt
  <2>2. CASE ~HasFolder(q.ask.path) /\ HasFolder(dir)
    <3>1. BaseOf(q.ask.path) \in Name BY <2>2, BaseIsName DEF HasFolder
    <3>2. r.body = q.body /\ r.phase = "call" /\ r.name = BaseOf(q.ask.path)
      BY <1>1 DEF Fields, Wants
    <3>3. MkdirAt(q) = r BY <2>2 DEF MkdirAt
    <3> HIDE DEF r
    <3> QED BY <1>1, <3>1, <3>2, <3>3 DEF Carries
  <2> QED BY <2>1, <2>2
<1>5. Carries(RemoveAt(q))
  <2>1. ASSUME NEW api \in {"DeleteFile", "DeleteFolder"}, NEW id
        PROVE  Carries([Wants(q, api) EXCEPT !.id = id])
    <3> DEFINE r == [Wants(q, api) EXCEPT !.id = id]
    <3>1. r.body = q.body /\ r.phase = "call" /\ r.api = api BY <1>1 DEF Fields, Wants
    <3> HIDE DEF r
    <3>2. Carries(r) BY <1>1, <3>1 DEF Carries, Titled
    <3> QED BY <3>2 DEF r
  <2> QED BY <1>2, <2>1 DEF RemoveAt
<1>6. Carries(RenameAt(q, late))
  <2> DEFINE t == Placed(q, late)  goes == << >> \notin {q.ask.path, q.ask.to}
  <2>1. CASE ~goes BY <1>2, <2>1 DEF RenameAt
  <2>2. CASE goes
    <3>1. BaseOf(q.ask.to) \in Name BY <2>2, BaseIsName
    <3>2. DOMAIN t = Fields /\ t.body = q.body /\ t.ask = q.ask /\ t.name = BaseOf(q.ask.to)
      BY <1>1 DEF Fields, Placed
    <3> HIDE DEF t
    <3>3. ASSUME NEW api, NEW id
          PROVE  Carries([Wants(t, api) EXCEPT !.id = id])
      <4> DEFINE r == [Wants(t, api) EXCEPT !.id = id]
      <4>1. r.body = t.body /\ r.phase = "call" /\ r.name = t.name BY <3>2 DEF Fields, Wants
      <4> HIDE DEF r
      <4>2. Carries(r) BY <1>1, <3>1, <3>2, <4>1 DEF Carries
      <4> QED BY <4>2 DEF r
    <3>4. ASSUME NEW api, NEW id, NEW ver
          PROVE  Carries([[Wants(t, api) EXCEPT !.id = id] EXCEPT !.ver = ver])
      <4> DEFINE r == [[Wants(t, api) EXCEPT !.id = id] EXCEPT !.ver = ver]
      <4>1. r.body = t.body /\ r.phase = "call" /\ r.name = t.name BY <3>2 DEF Fields, Wants
      <4> HIDE DEF r
      <4>2. Carries(r) BY <1>1, <3>1, <3>2, <4>1 DEF Carries
      <4> QED BY <4>2 DEF r
    <3>5. ASSUME NEW r, \/ r = [t EXCEPT !.phase = "answer", !.code = "ok"]
                       \/ r = [t EXCEPT !.phase = "invalidate"]
          PROVE  Carries(r)
      <4>1. r.body = t.body /\ r.phase \in {"answer", "invalidate"} BY <3>2, <3>5 DEF Fields
      <4> QED BY <1>1, <3>2, <4>1 DEF Carries
    <3>6. \/ RenameAt(q, late) \in {Fail(q), [t EXCEPT !.phase = "answer", !.code = "ok"],
                                [t EXCEPT !.phase = "invalidate"]}
          \/ \E api, id : RenameAt(q, late) = [Wants(t, api) EXCEPT !.id = id]
          \/ \E api, id, ver : RenameAt(q, late) = [[Wants(t, api) EXCEPT !.id = id] EXCEPT !.ver = ver]
      BY DEF RenameAt, t
    <3>7. CASE \E api, id : RenameAt(q, late) = [Wants(t, api) EXCEPT !.id = id]
      <4>1. PICK api, id : RenameAt(q, late) = [Wants(t, api) EXCEPT !.id = id] BY <3>7
      <4> QED BY <3>3, <4>1
    <3>8. CASE \E api, id, ver : RenameAt(q, late) = [[Wants(t, api) EXCEPT !.id = id] EXCEPT !.ver = ver]
      <4>1. PICK api, id, ver :
              RenameAt(q, late) = [[Wants(t, api) EXCEPT !.id = id] EXCEPT !.ver = ver]
        BY <3>8
      <4>2. Carries([[Wants(t, api) EXCEPT !.id = id] EXCEPT !.ver = ver]) BY <3>4
      <4> QED BY <4>1, <4>2
    <3>9. CASE RenameAt(q, late) = Fail(q) BY <1>2, <3>9
    <3>10. CASE RenameAt(q, late) \in {[t EXCEPT !.phase = "answer", !.code = "ok"],
                                       [t EXCEPT !.phase = "invalidate"]}
      BY <3>5, <3>10
    <3> QED BY <3>6, <3>7, <3>8, <3>9, <3>10
  <2> QED BY <2>1, <2>2
<1>7. ASSUME Method(q) = "OpenFile" PROVE Carries(OpenAt(q))
  <2>1. CASE OpenAt(q) = Fail(q) BY <1>2, <2>1
  <2>2. CASE OpenAt(q) # Fail(q)
    <3> DEFINE s == NextMethod(q)  there == HasFile(q.ask.path)
               r == Handle(q, there)
    <3>1. OpenAt(q) = r /\ q.ask.path # << >> BY <2>2 DEF OpenAt, HasFolder
    <3>2. DOMAIN s = Fields /\ s.body = q.body /\ s.ask = q.ask BY NextForms DEF GoesOn
    <3> HIDE DEF s, there
    <3>3. r = [s EXCEPT !.exists = there, !.tries = 1, !.api = "Download",
                        !.id = IF there THEN FileId(q.ask.path) ELSE Root]
      BY DEF Handle, s
    <3>4. r.body = q.body /\ r.ask = q.ask /\ r.api = "Download" BY <3>2, <3>3 DEF Fields
    <3> HIDE DEF r
    <3> QED BY <1>1, <3>1, <3>4 DEF Carries, Titled
  <2> QED BY <2>1, <2>2
<1> QED BY <1>3, <1>4, <1>5, <1>6, <1>7

-----------------------------------------------------------------------------
(* The steps of a handler, a third time.                                   *)
HandlerCarries(h) == \E r : Goes(h, r) /\ Carries(r)
LEMMA TreeStepsCarry ==
  ASSUME MountInv, BridgeInv, AllCarry, NEW h \in Handler,
         Receive(h) \/ Snapshot(h) \/ Fetch(h) \/ Install(h) \/ Answer(h)
  PROVE  HandlerCarries(h)
<1> DEFINE q == req[h]
<1>1. Carries(q) BY DEF AllCarry
<1>2. q.phase # "idle" => q.body \in Data /\ Entered(q) /\ DOMAIN q = Fields
  BY <1>1 DEF Carries, MountInv, Good, Entered
<1>3. q.phase # "idle" => Carries(Fail(q)) BY <1>1, <1>2, FailCarries
<1>4. ASSUME NEW r, Goes(h, r), Carries(r) PROVE HandlerCarries(h)
  BY <1>4 DEF HandlerCarries
<1>5. ASSUME NEW p \in {"look", "fetch", "install"}, q.phase # "idle"
      PROVE  /\ Carries([q EXCEPT !.phase = p])
             /\ Carries([q EXCEPT !.phase = p, !.tries = 1])
  <2>1. PICK r, s : r = [q EXCEPT !.phase = p] /\ s = [q EXCEPT !.phase = p, !.tries = 1]
    OBVIOUS
  <2>2. r.phase = p /\ r.body = q.body /\ s.phase = p /\ s.body = q.body
    BY <1>2, <1>5, <2>1 DEF Fields
  <2>3. Carries(r) /\ Carries(s) BY <1>2, <1>5, <2>2 DEF Carries
  <2> QED BY <2>1, <2>3
<1>6. CASE Receive(h)
  <2>1. PICK a \in Asks : Goes(h, Received(a)) BY <1>6 DEF Receive
  <2>2. Received(a).body = Cut /\ Received(a).phase = "snapshot" BY DEF Received
  <2>3. Carries(Received(a)) BY <2>2, CutAssumption DEF Carries
  <2> QED BY <1>4, <2>1, <2>3
<1>7. CASE Snapshot(h)
  <2>1. q.phase # "idle" BY <1>7 DEF Snapshot
  <2>2. \/ Goes(h, Fail(q)) \/ Goes(h, [q EXCEPT !.phase = "look"])
        \/ Goes(h, [q EXCEPT !.phase = "fetch", !.tries = 1])
    BY <1>7 DEF Snapshot
  <2> QED BY <1>3, <1>4, <1>5, <2>1, <2>2
<1>8. CASE Fetch(h)
  <2>1. q.phase = "fetch" BY <1>8 DEF Fetch
  <2>2. \/ Goes(h, [q EXCEPT !.tries = @ + 1]) \/ Goes(h, [q EXCEPT !.phase = "install"])
        \/ Goes(h, Fail(q))
    BY <1>8 DEF Fetch, FetchFails
  <2>3. Carries([q EXCEPT !.tries = @ + 1])
    <3>1. PICK r : r = [q EXCEPT !.tries = @ + 1] OBVIOUS
    <3>2. r.phase = "fetch" /\ r.body = q.body BY <1>2, <2>1, <3>1 DEF Fields
    <3>3. Carries(r) BY <1>2, <2>1, <3>2 DEF Carries
    <3> QED BY <3>1, <3>3
  <2> QED BY <1>3, <1>4, <1>5, <2>1, <2>2, <2>3
<1>9. CASE Install(h)
  <2>1. q.phase # "idle" /\ Goes(h, [q EXCEPT !.phase = "look"]) BY <1>9 DEF Install
  <2> QED BY <1>4, <1>5, <2>1
<1>10. CASE Answer(h)
  <2>1. Goes(h, Idle) BY <1>10 DEF Answer
  <2>2. Carries(Idle) BY DEF Carries, Idle
  <2> QED BY <1>4, <2>1, <2>2
<1> QED BY <1>6, <1>7, <1>8, <1>9, <1>10

LEMMA WorkStepsCarry ==
  ASSUME MountInv, BridgeInv, AllCarry, NEW h \in Handler,
         Lookup(h) \/ WriteBody(h) \/ CloseHandle(h)
  PROVE  HandlerCarries(h)
<1> DEFINE q == req[h]
<1>1. q.phase \in {"look", "write", "close"} BY DEF Lookup, WriteBody, CloseHandle
<1>2. /\ Carries(q) /\ Entered(q) /\ Shaped(q) /\ Known(q) /\ q.body \in Data
      /\ DOMAIN q = Fields /\ Fine(q)
  BY <1>1 DEF AllCarry, Carries, MountInv, Good, Entered, BridgeInv, Fine
<1>3. ASSUME NEW r, Goes(h, r), Carries(r) PROVE HandlerCarries(h)
  BY <1>3 DEF HandlerCarries
<1>4. CASE Lookup(h)
  <2>0. PICK late \in BOOLEAN :
          LET p == [q EXCEPT !.calm = @ /\ tree.set /\ ~late] IN
          Goes(h, CASE Method(p) = "Stat"      -> StatAt(p)
                    [] Method(p) = "Mkdir"     -> MkdirAt(p)
                    [] Method(p) = "RemoveAll" -> RemoveAt(p)
                    [] Method(p) = "Rename"    -> RenameAt(p, late)
                    [] Method(p) = "OpenFile"  -> OpenAt(p))
    BY <1>4 DEF Lookup
  <2> DEFINE p == [q EXCEPT !.calm = @ /\ tree.set /\ ~late]
  <2>1. /\ DOMAIN p = Fields /\ p.phase = "look" /\ p.ask = q.ask /\ p.did = q.did
        /\ p.since = q.since /\ p.tries = q.tries /\ p.id = q.id /\ p.into = q.into
        /\ p.at = q.at /\ p.body = q.body
    BY <1>2, <1>4 DEF Lookup, Fields
  <2>2. Goes(h, CASE Method(p) = "Stat"      -> StatAt(p)
                  [] Method(p) = "Mkdir"     -> MkdirAt(p)
                  [] Method(p) = "RemoveAll" -> RemoveAt(p)
                  [] Method(p) = "Rename"    -> RenameAt(p, late)
                  [] Method(p) = "OpenFile"  -> OpenAt(p))
    BY <2>0
  <2> HIDE DEF p
  <2>3. Shaped(p) /\ Method(p) = Method(q) BY <1>2, <2>1 DEF Shaped, Method, Fields
  <2>4. Entered(p) BY <1>2, <2>1 DEF Entered
  <2>5. Carries(p) BY <1>2, <2>1 DEF Carries
  <2>6. Method(p) \in Looks BY <1>2, <1>4, <2>3 DEF Lookup, Fine, Looking
  <2>7. /\ Method(p) = "Stat" => Carries(StatAt(p))
        /\ Carries(MkdirAt(p)) /\ Carries(RemoveAt(p)) /\ Carries(RenameAt(p, late))
        /\ Method(p) = "OpenFile" => Carries(OpenAt(p))
    BY <2>1, <2>3, <2>4, <2>5, LookupCarries
  <2> QED BY <1>3, <2>2, <2>6, <2>7 DEF Looks
<1>5. CASE WriteBody(h)
  <2> DEFINE s == NextMethod(q)
  <2>1. q.phase = "write" /\ q.ask.kind = "PUT" BY <1>2, <1>5 DEF WriteBody, Known
  <2>2. q.ask.path # << >> BY <1>2, <2>1 DEF Carries
  <2>3. PICK d \in Data :
          Goes(h, [s EXCEPT !.body = d, !.code = IF d = Cut THEN "error" ELSE "none"])
    BY <1>5 DEF WriteBody
  <2>4. DOMAIN s = Fields /\ s.ask = q.ask /\ s.phase = "close"
    <3>1. q.at = 2 BY <1>2, <2>1 DEF Known
    <3>2. Len(Methods(q.ask.kind)) = 3 /\ Methods(q.ask.kind)[3] = "Close"
      BY <2>1 DEF Methods
    <3>3. s.phase = Begins[Methods(q.ask.kind)[3]] /\ GoesOn(q, s)
      BY <1>2, <3>1, <3>2, NextForms
    <3> HIDE DEF s
    <3> QED BY <3>2, <3>3 DEF Begins, GoesOn
  <2> HIDE DEF s
  <2>5. PICK r : r = [s EXCEPT !.body = d, !.code = IF d = Cut THEN "error" ELSE "none"]
    OBVIOUS
  <2>6. r.body = d /\ r.ask = q.ask /\ r.phase = "close" BY <2>4, <2>5 DEF Fields
  <2>7. Carries(r) BY <2>2, <2>6 DEF Carries
  <2> QED BY <1>3, <2>3, <2>5, <2>7
<1>6. CASE CloseHandle(h)
  <2> DEFINE dir == Parent(q.ask.path)
  <2>1. /\ q.phase = "close" /\ q.ask.kind \in {"GET", "PUT"} /\ Method(q) = "Close"
    BY <1>2, <1>6 DEF CloseHandle, Fine
  <2>2. q.ask.kind = "PUT" => q.ask.path # << >> BY <1>2, <2>1 DEF Carries
  <2>3. \/ Goes(h, NextMethod(q))
        \/ q.ask.kind = "PUT" /\ Goes(h, Wants(q, "ReplaceFileContent"))
        \/ Goes(h, Fail(q))
        \/ /\ q.ask.kind = "PUT"
           /\ Goes(h, [Wants(q, "UploadFile") EXCEPT !.into = FolderId(dir),
                                                     !.name = BaseOf(q.ask.path)])
    BY <1>6, <2>1 DEF CloseHandle
  <2>4. Carries(NextMethod(q))
    <3>1. q.at \in 1 .. Len(Methods(q.ask.kind)) BY <1>2 DEF Shaped
    <3>2. q.at = Len(Methods(q.ask.kind)) BY <2>1, <3>1 DEF Methods, Method
    <3>3. NextMethod(q).phase = "answer" BY <1>2, <3>2, NextForms
    <3> QED BY <1>2, <2>1, <3>3, NextCarries
  <2>5. Carries(Fail(q)) BY <1>2, <2>1, FailCarries
  <2>6. Carries(Wants(q, "ReplaceFileContent"))
    <3>1. PICK r : r = Wants(q, "ReplaceFileContent") OBVIOUS
    <3>2. r.body = q.body /\ r.phase = "call" /\ r.api = "ReplaceFileContent"
      BY <1>2, <3>1 DEF Fields, Wants
    <3>3. Carries(r) BY <1>2, <3>2 DEF Carries, Titled
    <3> QED BY <3>1, <3>3
  <2>7. CASE q.ask.kind = "PUT"
    <3>1. PICK r : r = [Wants(q, "UploadFile") EXCEPT !.into = FolderId(dir),
                                                     !.name = BaseOf(q.ask.path)]
      OBVIOUS
    <3>2. r.body = q.body /\ r.phase = "call" /\ r.name = BaseOf(q.ask.path)
      BY <1>2, <3>1 DEF Fields, Wants
    <3>3. BaseOf(q.ask.path) \in Name BY <1>2, <2>2, <2>7, BaseIsName
    <3>4. Carries(r) BY <1>2, <3>2, <3>3 DEF Carries
    <3> QED BY <1>3, <2>3, <2>4, <2>5, <2>6, <3>1, <3>4
  <2>8. CASE q.ask.kind # "PUT" BY <1>3, <2>3, <2>4, <2>5, <2>8
  <2> QED BY <2>7, <2>8
<1> QED BY <1>4, <1>5, <1>6

LEMMA CallsCarry ==
  ASSUME MountInv, BridgeInv, AllCarry, NEW h \in Handler, SendRequest(h) \/ Invalidate(h)
  PROVE  HandlerCarries(h)
<1>1. PICK q : q = req[h] OBVIOUS
<1>2. /\ q.phase \in {"call", "invalidate"} /\ Carries(q) /\ Entered(q) /\ Shaped(q)
      /\ Known(q) /\ Good(q) /\ q.body \in Data /\ DOMAIN q = Fields
  BY <1>1 DEF SendRequest, Invalidate, AllCarry, Carries, MountInv, Good, Entered, BridgeInv,
              Fine
<1>3. ASSUME NEW r, Goes(h, r), Carries(r) PROVE HandlerCarries(h)
  BY <1>3 DEF HandlerCarries
<1>4. ASSUME NEW r, NEW p \in {"answer", "invalidate"}, DOMAIN r = Fields, r.body \in Data
      PROVE  Carries([r EXCEPT !.phase = p])
  <2>1. PICK s : s = [r EXCEPT !.phase = p] OBVIOUS
  <2>2. s.phase = p /\ s.body = r.body BY <1>4, <2>1 DEF Fields
  <2> QED BY <1>4, <2>1, <2>2 DEF Carries
<1>5. CASE SendRequest(h)
  <2>1. q.phase = "call" /\ (q.api \in Titled => q.name \in Name)
    BY <1>1, <1>2, <1>5 DEF SendRequest, Carries
  <2>2. PICK r, n : /\ r = q \/ r = [q EXCEPT !.did = n, !.done = q.api]
                   /\ \/ Goes(h, [r EXCEPT !.tries = @ + 1])
                      \/ Goes(h, AfterCall(r)) \/ Goes(h, Fail(r))
    BY <1>1, <1>5 DEF SendRequest
  <2>3. /\ DOMAIN r = Fields /\ r.phase = "call" /\ r.body = q.body /\ r.ask = q.ask
        /\ r.api = q.api /\ r.name = q.name /\ r.at = q.at
    BY <1>2, <2>1, <2>2 DEF Fields
  <2>4. Carries([r EXCEPT !.tries = @ + 1])
    <3>1. PICK s : s = [r EXCEPT !.tries = @ + 1] OBVIOUS
    <3>2. /\ s.phase = "call" /\ s.body = r.body /\ s.api = r.api /\ s.name = r.name
      BY <2>3, <3>1 DEF Fields
    <3>3. Carries(s) BY <1>2, <2>1, <2>3, <3>2 DEF Carries
    <3> QED BY <3>1, <3>3
  <2>5. Carries(Fail(r))
    <3>1. Fail(r).phase = "answer" /\ Fail(r).body = r.body BY <2>3 DEF Fields, Fail
    <3> QED BY <1>2, <2>3, <3>1 DEF Carries
  <2>6. CASE q.api = "Download"
    <3>1. AfterCall(r) = NextMethod(r) BY <2>3, <2>6 DEF AfterCall
    <3>2. q.ask.kind = "GET" /\ q.at = 2 BY <1>2, <2>1, <2>6 DEF Known
    <3>3. Len(Methods(r.ask.kind)) = 3 /\ Methods(r.ask.kind)[3] = "Close"
      BY <2>3, <3>2 DEF Methods
    <3>4. NextMethod(r) = [r EXCEPT !.at = @ + 1, !.api = "none", !.done = "none",
                                    !.phase = Begins[Methods(r.ask.kind)[r.at + 1]]]
      BY <2>3, <3>2, <3>3 DEF NextMethod
    <3>5. PICK s : s = NextMethod(r) OBVIOUS
    <3>6. s.phase = "close" /\ s.body = r.body /\ s.ask = r.ask
      BY <2>3, <3>2, <3>3, <3>4, <3>5 DEF Fields, Begins
    <3>7. Carries(s) BY <1>2, <2>3, <3>2, <3>6 DEF Carries
    <3> QED BY <1>3, <2>2, <2>4, <2>5, <3>1, <3>5, <3>7
  <2>7. CASE q.api = "MoveFolder" /\ r.renames
    <3>1. AfterCall(r) = Wants(r, "RenameFolder") BY <2>3, <2>7 DEF AfterCall
    <3>2. PICK s : s = Wants(r, "RenameFolder") OBVIOUS
    <3>3. s.body = r.body /\ s.name = r.name /\ s.phase = "call"
      BY <2>3, <3>2 DEF Fields, Wants
    <3>4. Carries(s) BY <1>2, <2>1, <2>3, <2>7, <3>3 DEF Carries, Titled
    <3> QED BY <1>3, <2>2, <2>4, <2>5, <3>1, <3>2, <3>4
  <2>8. CASE q.api # "Download" /\ ~(q.api = "MoveFolder" /\ r.renames)
    <3>1. AfterCall(r) = [r EXCEPT !.phase = "invalidate"] BY <2>3, <2>8 DEF AfterCall
    <3>2. Carries([r EXCEPT !.phase = "invalidate"]) BY <1>2, <1>4, <2>3
    <3> QED BY <1>3, <2>2, <2>4, <2>5, <3>1, <3>2
  <2> QED BY <2>6, <2>7, <2>8
<1>6. CASE Invalidate(h)
  <2>1. q.phase = "invalidate" BY <1>1, <1>6 DEF Invalidate
  <2>2. \/ Goes(h, [q EXCEPT !.phase = "answer"]) \/ Goes(h, NextMethod(q))
    BY <1>1, <1>6 DEF Invalidate
  <2>3. Carries([q EXCEPT !.phase = "answer"]) BY <1>2, <1>4
  <2>4. NextMethod(q).phase \in {"answer", "snapshot"}
    <3>1. q.ask.kind \in Kinds /\ q.ask.kind # "GET" /\ q.at \in 1 .. Len(Methods(q.ask.kind))
      BY <1>2, <2>1, AsksAssumption DEF Known, Shaped
    <3>2. CASE q.at = Len(Methods(q.ask.kind)) BY <1>2, <3>2, NextForms
    <3>3. CASE q.at # Len(Methods(q.ask.kind))
      <4>1. q.ask.kind \in {"DELETE", "MOVE", "PROPFIND", "MKCOL"}
        BY <1>2, <2>1, <3>1, <3>3 DEF Kinds, Known, Methods
      <4>2. Methods(q.ask.kind)[q.at + 1] \in {"RemoveAll", "Rename"}
        BY <3>1, <3>3, <4>1 DEF Methods
      <4>3. NextMethod(q).phase = Begins[Methods(q.ask.kind)[q.at + 1]]
        BY <1>2, <3>3, NextForms
      <4> QED BY <4>2, <4>3 DEF Begins
    <3> QED BY <3>2, <3>3
  <2>5. Carries(NextMethod(q)) BY <1>2, <2>1, <2>4, NextCarries
  <2> QED BY <1>3, <2>2, <2>3, <2>5
<1> QED BY <1>5, <1>6

LEMMA BridgeCarries ==
  ASSUME MountInv, BridgeInv, AllCarry, [BridgeNext]_bridgeVars
  PROVE  AllCarry'
<1>1. ASSUME NEW h \in Handler, HandlerCarries(h) PROVE AllCarry'
  <2>1. PICK r : req' = [req EXCEPT ![h] = r] /\ Carries(r)
    BY <1>1 DEF HandlerCarries, Goes
  <2>2. DOMAIN req' = Handler /\ \A g \in Handler : req'[g] = IF g = h THEN r ELSE req[g]
    BY <2>1 DEF AllCarry
  <2> QED BY <2>1, <2>2 DEF AllCarry, Carries
<1>2. CASE req' = req BY <1>2 DEF AllCarry, Carries
<1>3. CASE req' = [g \in Handler |-> Idle] BY <1>3 DEF AllCarry, Carries, Idle
<1>4. ASSUME NEW h \in Handler, Receive(h) \/ HandlerStep(h) PROVE HandlerCarries(h)
  BY <1>4, TreeStepsCarry, WorkStepsCarry, CallsCarry DEF HandlerStep
<1> QED BY <1>1, <1>2, <1>3, <1>4 DEF BridgeNext, bridgeVars, Serve, Expire, Interrupt, Exit

(* So every request of the drive is one the account knows the outcomes of. *)
LEMMA BridgeIsSound ==
  ASSUME Rows(server), NEW q, q.api \in Apis, q.body \in Data,
         q.api \in Titled => q.name \in Name
  PROVE  Sound(BridgeOutcomes(q))
<1>1. PICK n \in Name : q.api \in Titled => n = q.name BY NameAssumption
<1>2. CASE q.api = "CreateFolder"
  BY <1>1, <1>2, FolderRequestsAreSound DEF BridgeOutcomes, Titled
<1>3. CASE q.api = "DeleteFile"
  BY <1>1, <1>3, FileRequestsAreSound DEF BridgeOutcomes, TrashFile
<1>4. CASE q.api = "DeleteFolder"
  BY <1>1, <1>4, FolderRequestsAreSound DEF BridgeOutcomes
<1>5. CASE q.api = "MoveFolder"
  BY <1>1, <1>5, FolderRequestsAreSound DEF BridgeOutcomes
<1>6. CASE q.api = "RenameFolder"
  BY <1>1, <1>6, FolderRequestsAreSound DEF BridgeOutcomes, Titled
<1>7. CASE q.api = "UpdateFile"
  <2> DEFINE name == IF q.renames THEN q.name ELSE File(q.id).name
             into == IF q.moves THEN q.into ELSE File(q.id).folder
  <2>1. Live(q.id) => name \in Name BY <1>7, RowsAre DEF Titled, Live, FileRow
  <2>2. BridgeOutcomes(q) = UpdateFile(q.id, name, into, q.ver) BY <1>7 DEF BridgeOutcomes
  <2> HIDE DEF name, into
  <2> QED BY <2>1, <2>2, UpdateIsSound
<1>8. CASE q.api = "ReplaceFileContent"
  BY <1>1, <1>8, FileRequestsAreSound DEF BridgeOutcomes
<1>9. CASE q.api = "UploadFile"
  BY <1>9, NewFileIsSound DEF BridgeOutcomes, UploadFile, Titled
<1>10. CASE q.api = "Download" BY <1>10, MayBeSound, StandsStill DEF BridgeOutcomes
<1> QED BY <1>2, <1>3, <1>4, <1>5, <1>6, <1>7, <1>8, <1>9, <1>10 DEF Apis

LEMMA BridgeMovesOn ==
  ASSUME BridgeInv, MountInv, AllCarry, FilesTypeOK, BridgeNext
  PROVE  Rows(server') /\ Forward(server') /\ lost' \in 0 .. MaxLost
<1>1. Rows(server) BY TypesAreRows
<1>2. CASE UNCHANGED <<server, lost>> BY <1>1, <1>2, StandsStill DEF FilesTypeOK
<1>3. ASSUME NEW out, Sound(out), NEW a \in Answered(out) \cup Unanswered(out), Attempt(out, a)
      PROVE  Rows(server') /\ Forward(server') /\ lost' \in 0 .. MaxLost
  <2>1. server' = server \/ \E o \in out : server' = o.server BY <1>3, AttemptIs
  <2>2. Rows(server') /\ Forward(server') BY <1>1, <1>3, <2>1, StandsStill DEF Sound
  <2>3. lost' = lost \/ (lost < MaxLost /\ lost' = lost + 1) BY <1>3 DEF Attempt
  <2>4. lost' \in 0 .. MaxLost BY <2>3, TriesAssumption DEF FilesTypeOK
  <2> QED BY <2>2, <2>4
<1>4. ASSUME NEW h \in Handler, Fetch(h)
      PROVE  Rows(server') /\ Forward(server') /\ lost' \in 0 .. MaxLost
  <2>1. PICK a \in Answered(Reading) \cup Unanswered(Reading) : Attempt(Reading, a)
    BY <1>4 DEF Fetch
  <2>2. Sound(Reading) BY <1>1, StandsStill DEF Sound, Reading, Done, Refused
  <2> QED BY <1>3, <2>1, <2>2
<1>5. ASSUME NEW h \in Handler, SendRequest(h)
      PROVE  Rows(server') /\ Forward(server') /\ lost' \in 0 .. MaxLost
  <2>1. PICK q : q = req[h] OBVIOUS
  <2>2. q.phase = "call" /\ Carries(q) /\ Known(q)
    BY <1>5, <2>1 DEF SendRequest, AllCarry, MountInv, Good
  <2>3. Sound(BridgeOutcomes(q)) BY <1>1, <2>2, BridgeIsSound DEF Carries, Known
  <2>4. \E a \in Answered(BridgeOutcomes(q)) \cup Unanswered(BridgeOutcomes(q)) :
          Attempt(BridgeOutcomes(q), a)
    BY <1>5, <2>1 DEF SendRequest
  <2> QED BY <1>3, <2>3, <2>4
<1>6. \/ UNCHANGED <<server, lost>>
      \/ \E h \in Handler : SendRequest(h) \/ Fetch(h)
  BY DEF BridgeNext, Serve, Expire, Interrupt, Exit, Receive, HandlerStep, Snapshot,
         Install, Lookup, WriteBody, CloseHandle, Invalidate, Answer
<1> QED BY <1>2, <1>4, <1>5, <1>6

(* The drive by itself keeps the account what its interface says, and only *)
(* moves its rows on: what the theorems above ask of everybody who uses    *)
(* the account, the drive grants to the others.                            *)
BridgeAlone ==
  BridgeInit /\ FilesTypeOK /\ [][BridgeNext]_<<server, lost, bridgeVars>>
THEOREM BridgeKeepsTheAccount == BridgeAlone => []FilesTypeOK /\ RowsMoveOn
<1>1. BridgeInit => BridgeInv /\ MountInv /\ AllCarry
  <2>1. BridgeInit => AllCarry BY DEF BridgeInit, AllCarry, Carries, Idle
  <2> QED BY <2>1, BridgeStarts, MountStarts
<1>2. BridgeInv /\ MountInv /\ AllCarry /\ FilesTypeOK
      /\ [BridgeNext]_<<server, lost, bridgeVars>>
      => /\ FilesTypeOK' /\ BridgeInv' /\ MountInv' /\ AllCarry' /\ [Forward(server')]_server
  <2> SUFFICES ASSUME BridgeInv, MountInv, AllCarry, FilesTypeOK,
                      [BridgeNext]_<<server, lost, bridgeVars>>
               PROVE  /\ FilesTypeOK' /\ BridgeInv' /\ MountInv' /\ AllCarry'
                      /\ [Forward(server')]_server
    OBVIOUS
  <2>1. [BridgeNext]_bridgeVars OBVIOUS
  <2>2. BridgeInv' /\ MountInv' /\ AllCarry' BY <2>1, BridgeKeeps, MountKeepsAll, BridgeCarries
  <2>3. CASE UNCHANGED <<server, lost, bridgeVars>> BY <2>2, <2>3 DEF FilesTypeOK
  <2>4. CASE BridgeNext
    <3>1. Rows(server') /\ Forward(server') /\ lost' \in 0 .. MaxLost BY <2>4, BridgeMovesOn
    <3>2. FilesTypeOK' BY <3>1 DEF FilesTypeOK, Rows
    <3> QED BY <2>2, <3>1, <3>2
  <2> QED BY <2>3, <2>4
<1> QED BY <1>1, <1>2, PTL DEF BridgeAlone, RowsMoveOn

(* A drive that is alone on the account tells the truth, shows a client    *)
(* its own writes and loses nothing, with nothing assumed of anybody.      *)
THEOREM TheDriveAlone ==
  BridgeAlone => []ReportedIsDone /\ OwnWritesSeen /\ MountLosesNothing
<1>1. [BridgeNext]_<<server, lost, bridgeVars>> => [BridgeNext]_bridgeVars OBVIOUS
<1>2. BridgeAlone => BridgeSpec BY <1>1, PTL DEF BridgeAlone, BridgeSpec
<1> QED BY <1>2, BridgeKeepsTheAccount, MountReportsTheTruth, ClientsSeeTheirWrites,
        NothingIsLostByTheDrive, PTL
-----------------------------------------------------------------------------
(* All at once: commands, the drive and the windows of Explorer's menu on  *)
(* one account, step by step in any order.                                 *)
accountOfAll == <<server, lost, commandVars, bridgeVars, verbVars>>
AllNext ==
  \/ CommandsNext /\ UNCHANGED <<bridgeVars, verbVars>>
  \/ BridgeNext /\ UNCHANGED <<commandVars, verbVars>>
  \/ VerbNext /\ UNCHANGED <<commandVars, bridgeVars>>
Together ==
  /\ CommandsInit /\ BridgeInit /\ VerbInit /\ FilesTypeOK
  /\ [][AllNext]_accountOfAll
AllInv == /\ CommandsInv /\ LookInv /\ BridgeInv /\ MountInv /\ AllCarry /\ VerbTyped
          /\ FilesTypeOK
LEMMA AllStart == CommandsInit /\ BridgeInit /\ VerbInit /\ FilesTypeOK => AllInv
<1> SUFFICES ASSUME CommandsInit, BridgeInit, VerbInit, FilesTypeOK PROVE AllInv OBVIOUS
<1>1. CommandsInv /\ LookInv BY CommandsStart, LookInvStarts
<1>2. BridgeInv /\ MountInv BY BridgeStarts, MountStarts
<1>3. AllCarry BY DEF BridgeInit, AllCarry, Carries, Idle
<1>4. VerbTyped BY WindowsAreTyped
<1> QED BY <1>1, <1>2, <1>3, <1>4 DEF AllInv

LEMMA AllGoOn ==
  AllInv /\ [AllNext]_accountOfAll => AllInv' /\ [Forward(server')]_server
<1> SUFFICES ASSUME AllInv, [AllNext]_accountOfAll
             PROVE  AllInv' /\ [Forward(server')]_server
  OBVIOUS
<1>1. /\ CommandsInv /\ LookInv /\ BridgeInv /\ MountInv /\ AllCarry /\ VerbTyped /\ FilesTypeOK
      /\ Rows(server)
  BY TypesAreRows DEF AllInv
<1>2. [CommandsNext]_commandVars /\ [BridgeNext]_bridgeVars
  BY DEF AllNext, accountOfAll
<1>3. CommandsInv' /\ LookInv' BY <1>1, <1>2, CommandsKeep, LookInvKeeps
<1>4. BridgeInv' /\ MountInv' /\ AllCarry'
  BY <1>1, <1>2, BridgeKeeps, MountKeepsAll, BridgeCarries
<1>5. VerbTyped'
  <2>1. CASE UNCHANGED verbVars BY <1>1, <2>1, TypedStays
  <2>2. CASE VerbNext BY <1>1, <2>2, VerbsGrow
  <2> QED BY <2>1, <2>2 DEF AllNext, accountOfAll
<1>6. FilesTypeOK' /\ [Forward(server')]_server
  <2>1. ASSUME Rows(server'), Forward(server'), lost' \in 0 .. MaxLost
        PROVE  FilesTypeOK' /\ [Forward(server')]_server
    BY <2>1 DEF FilesTypeOK, Rows
  <2>2. ASSUME lost' = lost \/ (lost < MaxLost /\ lost' = lost + 1) PROVE lost' \in 0 .. MaxLost
    BY <1>1, <2>2, TriesAssumption DEF FilesTypeOK
  <2>3. CASE CommandsNext
    <3>1. Rows(server') /\ Forward(server') BY <1>1, <2>3, CommandsMoveOn
    <3>2. lost' = lost \/ (lost < MaxLost /\ lost' = lost + 1)
      BY <2>3 DEF CommandsNext, CommandStep, Start, Look, OpenLocal, PassBy, NotInTrash,
         Call, BreaksOff, CloseFails, End, Kill, Attempt
    <3> QED BY <2>1, <2>2, <3>1, <3>2
  <2>4. CASE BridgeNext BY <1>1, <2>1, <2>4, BridgeMovesOn
  <2>5. CASE VerbNext
    <3>1. Grown(server') /\ (lost' = lost \/ (lost < MaxLost /\ lost' = lost + 1))
      BY <1>1, <2>5, VerbsGrow
    <3>2. Rows(server') /\ Forward(server') BY <1>1, <3>1, GrowthIsForward
    <3> QED BY <2>1, <2>2, <3>1, <3>2
  <2>6. CASE UNCHANGED <<server, lost>> BY <1>1, <2>6 DEF FilesTypeOK
  <2> QED BY <2>3, <2>4, <2>5, <2>6 DEF AllNext, accountOfAll
<1> QED BY <1>3, <1>4, <1>5, <1>6 DEF AllInv

(* What each part asks of everybody who uses the account, all of them      *)
(* together grant: its rows keep their types and only ever move on.        *)
THEOREM TogetherTheyKeepTheAccount == Together => []FilesTypeOK /\ RowsMoveOn
<1>1. AllInv => FilesTypeOK BY DEF AllInv
<1> QED BY <1>1, AllStart, AllGoOn, PTL DEF Together, RowsMoveOn

(* So, beside one another, commands change rows only as they saw them,     *)
(* purge only the trash and explain what is torn, and the drive tells the  *)
(* truth, shows its clients their writes and forgets no body, with nothing *)
(* assumed of anybody.                                                     *)
THEOREM TogetherTheyKeepTheirPromises ==
  Together => /\ []CommandsTypeOK /\ []TornIsExplained /\ PurgesOnlyTrash /\ SeesWhatItChanges
              /\ []BridgeTypeOK /\ []ReportedIsDone /\ OwnWritesSeen /\ MountLosesNothing
<1>1. [AllNext]_accountOfAll => [CommandsNext]_commandVars /\ [BridgeNext]_bridgeVars
  BY DEF AllNext, accountOfAll
<1>2. Together => CommandsSpec /\ BridgeSpec
  BY <1>1, PTL DEF Together, CommandsSpec, BridgeSpec
<1> QED BY <1>2, TogetherTheyKeepTheAccount, CommandsAreTyped, TornFilesAreExplained,
        OnlyTheTrashIsPurged, RowsAreChangedAsSeen, BridgeIsTyped, MountReportsTheTruth,
        ClientsSeeTheirWrites, NothingIsLostByTheDrive, PTL
=============================================================================
