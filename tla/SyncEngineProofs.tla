--------------------------- MODULE SyncEngineProofs ---------------------------
(***************************************************************************)
(* What holds of the sync engine for any number of directories, devices,   *)
(* paths, edits and faults: its types, that no pass deletes anything, that *)
(* the direction gates everything a pass does, that a clean two-way pass   *)
(* has synced, that skip leaves both sides of a conflict alone, and that   *)
(* newest never goes back to an older version.                             *)
(***************************************************************************)
EXTENDS SyncEngine, TLAPS

(* The types are not inductive alone: a download writes where its path and *)
(* row id say, and the next path is a path because the current one was.    *)
(* That a pass which pulls may pull is what the direction gate rests on:   *)
(* pullTo's second half does not ask again, and no download outlives its   *)
(* pass to meet the direction of the next.                                 *)
FetchOK(s) ==
  /\ fetch[s] # NoFetch =>
       fetch[s].id # 0 /\ cur[s] \in Path /\ pc[s] \in {"push", "pull"} /\ PullOK(s)
  /\ pc[s] = "pull" => PullOK(s)
EngineInv == TypeOK /\ \A s \in Syncer : FetchOK(s)

Files   == [Dir -> [Path -> File]]
Results == [Syncer -> [Counter -> Nat]]
Flags   == [Syncer -> BOOLEAN]

(* What a step leaves of the two sides.                                    *)
WorldOK ==
  /\ local' \in Files
  /\ rows' \in Seq(Row) /\ Len(rows) <= Len(rows')
  /\ clock' \in Nat
  /\ quiet' \in Flags /\ alone' \in BOOLEAN

-----------------------------------------------------------------------------
(* Writing a file, adding a row and rewriting one.                         *)

LEMMA FileType ==
  ASSUME NEW b \in Int, NEW t \in Nat PROVE [data |-> b, mtime |-> t] \in File
  BY DEF File, Bytes

LEMMA PutFile ==
  ASSUME TypeOK, NEW d \in Dir, NEW p \in Path, NEW f \in File
  PROVE  [local EXCEPT ![d][p] = f] \in Files
  BY DEF TypeOK, Files

LEMMA RowType ==
  ASSUME TypeOK, NEW i \in RowIds
  PROVE  rows[i] \in Row /\ rows[i].data \in Int /\ rows[i].ts \in Nat
<1>1. rows[i] \in Row
  BY DEF TypeOK, RowIds
<1> QED
  BY <1>1 DEF Row, Bytes

LEMMA NewRowType ==
  ASSUME NEW p \in Path, NEW b \in Int, NEW t \in Nat PROVE NewRow(p, b, t) \in Row
  BY DEF NewRow, Row, Bytes

LEMMA UploadedRows ==
  ASSUME TypeOK, NEW r \in Row
  PROVE  /\ Append(rows, r) \in Seq(Row) /\ Len(Append(rows, r)) = Len(rows) + 1
         /\ \A i \in DOMAIN rows : Append(rows, r)[i] = rows[i]
  BY DEF TypeOK

LEMMA RewrittenRows ==
  ASSUME TypeOK, NEW i \in RowIds, NEW r \in Row
  PROVE  /\ [rows EXCEPT ![i] = r] \in Seq(Row)
         /\ Len([rows EXCEPT ![i] = r]) = Len(rows)
  BY DEF TypeOK, RowIds

LEMMA ReplacedRows ==
  ASSUME TypeOK, NEW i \in RowIds, NEW b \in Int, NEW t \in Nat
  PROVE  /\ Replaced(i, b, t) \in Seq(Row) /\ Len(Replaced(i, b, t)) = Len(rows)
         /\ \A k \in DOMAIN rows : Replaced(i, b, t)[k].gone = rows[k].gone
<1> DEFINE r == [rows[i] EXCEPT !.data = b, !.ts = t, !.sha = TRUE]
<1>1. r \in Row /\ r.gone = rows[i].gone
  BY RowType DEF Row, Bytes
<1>2. Replaced(i, b, t) = [rows EXCEPT ![i] = r]
  BY DEF Replaced, TypeOK, RowIds
<1> HIDE DEF r
<1> QED
  BY <1>1, <1>2, RewrittenRows DEF TypeOK, RowIds

LEMMA CountsType ==
  ASSUME TypeOK, NEW s \in Syncer, NEW c, Counts(s, c) PROVE res' \in Results
  BY DEF TypeOK, Counts, Results

LEMMA WroteType ==
  ASSUME TypeOK, NEW s, Wrote(s) PROVE quiet' \in Flags /\ alone' \in BOOLEAN
  BY DEF TypeOK, Wrote, Flags

LEMMA SameWorld == ASSUME TypeOK, NoWrite PROVE WorldOK
  BY DEF TypeOK, NoWrite, WorldOK, Files, Flags

LEMMA FaultType == ASSUME TypeOK, Fault \/ UNCHANGED faults PROVE faults' \in 0 .. MaxFaults
  BY BoundAssumption DEF TypeOK, Fault

-----------------------------------------------------------------------------
(* The shapes of a pass's steps.                                           *)

(* It goes on to the next path, with no download in progress.              *)
LEMMA MovesOn ==
  ASSUME EngineInv, NEW s \in Syncer, cur[s] \in Path, NextPath(s),
         UNCHANGED <<edits, pc, opts, listed, scanned, cancelled>>,
         \/ fetch' = [fetch EXCEPT ![s] = NoFetch]
         \/ fetch[s] = NoFetch /\ fetch' = fetch,
         WorldOK, faults' \in 0 .. MaxFaults, res' \in Results
  PROVE  EngineInv'
<1>1. TypeOK /\ \A t \in Syncer : FetchOK(t)
  BY DEF EngineInv
<1>2. cur' \in [Syncer -> 1 .. NumPaths + 1]
  BY <1>1, PathAssumption DEF TypeOK, NextPath, Path
<1>3. ASSUME NEW t \in Syncer PROVE PassTypeOK(t)'
  <2>1. RowIds \subseteq RowIds'
    BY <1>1 DEF TypeOK, WorldOK, RowIds
  <2>2. fetch'[t] = fetch[t] \/ fetch'[t] = NoFetch
    BY <1>1 DEF TypeOK
  <2>3. NoFetch \in [id : {0} \cup RowIds', to : 0 .. NumPaths, data : Bytes]
    BY PathAssumption DEF NoFetch, NoBytes, Bytes
  <2>4. PassTypeOK(t)
    BY <1>1 DEF TypeOK
  <2> QED
    BY <2>1, <2>2, <2>3, <2>4 DEF PassTypeOK
<1>4. TypeOK'
  BY <1>1, <1>2, <1>3 DEF TypeOK, WorldOK, Files, Results, Flags
<1>5. \A t \in Syncer : FetchOK(t)'
  BY <1>1 DEF TypeOK, FetchOK, NextPath, PullOK
<1> QED
  BY <1>4, <1>5 DEF EngineInv

(* It ends, one way or the other.                                          *)
LEMMA Returns ==
  ASSUME EngineInv, NEW s \in Syncer, NEW p \in {"idle", "done"}, Return(s, p),
         NoWrite, UNCHANGED edits, Fault \/ UNCHANGED faults
  PROVE  EngineInv'
<1>1. TypeOK /\ \A t \in Syncer : FetchOK(t)
  BY DEF EngineInv
<1>2. WorldOK /\ faults' \in 0 .. MaxFaults
  BY <1>1, SameWorld, FaultType
<1>3. \A t \in Syncer : PassTypeOK(t)'
  BY <1>1, PathAssumption
  DEF TypeOK, PassTypeOK, Return, NoWrite, RowIds, NoFetch, NoEntry, Entry, NoStamp,
      NoFile, File, NoBytes, Bytes
<1>4. TypeOK'
  BY <1>1, <1>2, <1>3, PathAssumption
  DEF TypeOK, Return, WorldOK, Files, Results, Flags
<1>5. \A t \in Syncer : FetchOK(t)'
  BY <1>1 DEF TypeOK, FetchOK, Return, PullOK
<1> QED
  BY <1>4, <1>5 DEF EngineInv

(* Users and other clients: no pass is touched.                            *)
LEMMA Edits ==
  ASSUME EngineInv, MayEdit, local' \in Files, rows' \in Seq(Row), Len(rows) <= Len(rows')
  PROVE  EngineInv'
<1>1. TypeOK /\ \A t \in Syncer : FetchOK(t)
  BY DEF EngineInv
<1>2. \A t \in Syncer : PassTypeOK(t)'
  BY <1>1 DEF MayEdit, TypeOK, PassTypeOK, RowIds, passVars
<1>3. TypeOK'
  BY <1>1, <1>2, BoundAssumption DEF MayEdit, TypeOK, Files, passVars
<1>4. \A t \in Syncer : FetchOK(t)'
  BY <1>1 DEF MayEdit, FetchOK, PullOK, passVars
<1> QED
  BY <1>3, <1>4 DEF EngineInv

-----------------------------------------------------------------------------
(* The types, action by action.                                            *)

LEMMA EngineInvInit == Init => EngineInv
<1> SUFFICES ASSUME Init PROVE EngineInv
  OBVIOUS
<1>1. TypeOK
  BY PathAssumption, SyncerAssumption, BoundAssumption
  DEF Init, TypeOK, PassTypeOK, File, NoFile, Bytes, NoBytes, NoEntry, Entry, NoStamp,
      NoFetch, NoCount, Counter, Path, Row, Option, Directions, Policies
<1> QED
  BY <1>1 DEF Init, EngineInv, FetchOK

LEMMA EditKeepsInv == EngineInv /\ Edit => EngineInv'
<1> SUFFICES ASSUME EngineInv, Edit PROVE EngineInv'
  OBVIOUS
<1>1. /\ TypeOK /\ local \in Files /\ rows \in Seq(Row) /\ Len(rows) \in Nat
      /\ clock \in Nat /\ clock + 1 \in Nat /\ clock + 1 \in Int
      /\ DOMAIN rows = RowIds
  BY DEF EngineInv, TypeOK, Files, RowIds
<1>2. ASSUME NEW d \in Dir, NEW p \in Path, UserWrites(d, p) \/ UserDeletes(d, p)
      PROVE  EngineInv'
  <2>1. NoFile \in File
    BY FileType DEF NoFile, NoBytes
  <2>2. local' \in Files
    BY <1>1, <1>2, <2>1, PutFile, FileType DEF UserWrites, UserDeletes
  <2> QED
    BY <1>1, <1>2, <2>2, Edits DEF UserWrites, UserDeletes
<1>3. ASSUME NEW p \in Path, RemoteAdds(p) PROVE EngineInv'
  <2>1. PICK sha \in {TRUE, ~ServerOmits}, t \in {clock + 1, NoStamp} :
          rows' = Append(rows, [NewRow(p, clock + 1, t) EXCEPT !.sha = sha])
    BY <1>3 DEF RemoteAdds
  <2>2. t \in Nat /\ sha \in BOOLEAN
    <3>1. t \in Nat
      BY <1>1, <2>1 DEF NoStamp
    <3>2. (~ServerOmits) \in BOOLEAN
      BY BoundAssumption
    <3> QED
      BY <2>1, <3>1, <3>2
  <2>3. [NewRow(p, clock + 1, t) EXCEPT !.sha = sha] \in Row
    BY <1>1, <2>2, NewRowType DEF Row
  <2> QED
    BY <1>1, <1>3, <2>1, <2>3, UploadedRows, Edits DEF RemoteAdds
<1>4. ASSUME NEW i \in DOMAIN rows, RemoteEdits(i) \/ RemoteTrashes(i) PROVE EngineInv'
  <2>1. CASE RemoteEdits(i)
    BY <1>1, <2>1, ReplacedRows, Edits DEF RemoteEdits
  <2>2. CASE RemoteTrashes(i)
    <3>1. [rows[i] EXCEPT !.gone = TRUE] \in Row
      BY <1>1, RowType DEF Row
    <3>2. rows' = [rows EXCEPT ![i] = [rows[i] EXCEPT !.gone = TRUE]]
      BY <2>2 DEF RemoteTrashes
    <3> QED
      BY <1>1, <2>2, <3>1, <3>2, RewrittenRows, Edits DEF RemoteTrashes
  <2> QED
    BY <1>4, <2>1, <2>2
<1> QED
  BY <1>2, <1>3, <1>4 DEF Edit

LEMMA ListingType ==
  ASSUME TypeOK, NEW i \in 0 .. Len(rows)
  PROVE  EntryOf(i) \in Entry /\ EntryOf(i).id = i
<1>1. CASE i = 0
  BY <1>1 DEF EntryOf, NoEntry, Entry, NoStamp, NoBytes, Bytes
<1>2. CASE i # 0
  <2>1. i \in RowIds
    BY <1>2 DEF TypeOK, RowIds
  <2>2. rows[i].data \in Int /\ rows[i].ts \in Nat /\ rows[i].sha \in BOOLEAN
    BY <2>1, RowType DEF Row
  <2> QED
    BY <1>2, <2>1, <2>2 DEF EntryOf, Entry, Bytes, RowIds
<1> QED
  BY <1>1, <1>2

LEMMA ListRemoteType ==
  ASSUME EngineInv, NEW s \in Syncer, ListRemote(s) PROVE EngineInv'
<1>1. TypeOK /\ \A t \in Syncer : FetchOK(t)
  BY DEF EngineInv
<1>2. PICK keep \in [Path -> 0 .. Len(rows)] :
        listed' = [listed EXCEPT ![s] = [p \in Path |-> EntryOf(keep[p])]]
  BY DEF ListRemote
<1> DEFINE new == [p \in Path |-> EntryOf(keep[p])]
<1>3. new \in [Path -> Entry] /\ \A p \in Path : new[p].id \in {0} \cup RowIds
  BY <1>1, <1>2, ListingType DEF RowIds, TypeOK
<1>4. listed'[s] = new /\ \A t \in Syncer \ {s} : listed'[t] = listed[t]
  BY <1>1, <1>2 DEF TypeOK
<1> HIDE DEF new
<1>5. \A t \in Syncer : PassTypeOK(t)'
  BY <1>1, <1>3, <1>4 DEF ListRemote, TypeOK, PassTypeOK, RowIds
<1>6. DOMAIN listed' = Syncer
  BY <1>1, <1>2 DEF TypeOK
<1>7. TypeOK'
  <2>1. opts' \in [Syncer -> Option]
    BY <1>1, SyncerAssumption DEF ListRemote, TypeOK
  <2> QED
    BY <1>1, <1>5, <1>6, <2>1 DEF ListRemote, TypeOK, NoCount
<1>8. \A t \in Syncer : FetchOK(t)'
  BY <1>1 DEF ListRemote, TypeOK, FetchOK, PullOK
<1> QED
  BY <1>7, <1>8 DEF EngineInv

LEMMA ScanLocalType ==
  ASSUME EngineInv, NEW s \in Syncer, ScanLocal(s) PROVE EngineInv'
<1>1. TypeOK /\ \A t \in Syncer : FetchOK(t)
  BY DEF EngineInv
<1> DEFINE new == [p \in Path |-> IF p \in Hidden THEN NoFile ELSE local[DirOf[s]][p]]
<1>2. new \in [Path -> File]
  <2>1. NoFile \in File
    BY FileType DEF NoFile, NoBytes
  <2> QED
    BY <1>1, <2>1, SyncerAssumption DEF TypeOK
<1>3. scanned' = [scanned EXCEPT ![s] = new]
  BY DEF ScanLocal
<1> HIDE DEF new
<1>4. \A t \in Syncer : PassTypeOK(t)'
  BY <1>1, <1>2, <1>3 DEF ScanLocal, NoWrite, TypeOK, PassTypeOK, RowIds
<1>5. TypeOK'
  BY <1>1, <1>3, <1>4 DEF ScanLocal, NoWrite, TypeOK
<1>6. \A t \in Syncer : FetchOK(t)'
  BY <1>1 DEF ScanLocal, TypeOK, FetchOK, PullOK
<1> QED
  BY <1>5, <1>6 DEF EngineInv

(* Uploads.                                                                *)
LEMMA SendsType ==
  ASSUME EngineInv, NEW s \in Syncer, NEW loop, At(s, loop), NEW stored, NEW counts,
         Sends(s, stored, counts),
         stored \in Seq(Row) /\ Len(rows) <= Len(stored)
  PROVE  EngineInv'
<1>1. TypeOK
  BY DEF EngineInv
<1>2. faults' \in 0 .. MaxFaults
  BY <1>1, FaultType DEF Sends
<1>3. res' \in Results
  BY <1>1, CountsType DEF Sends
<1>4. WorldOK
  <2>1. CASE NoWrite
    BY <1>1, <2>1, SameWorld
  <2>2. CASE rows' = stored /\ clock' = clock + 1 /\ Wrote(s) /\ UNCHANGED local
    BY <1>1, <2>2, WroteType DEF WorldOK, TypeOK, Files
  <2> QED
    BY <2>1, <2>2 DEF Sends
<1> QED
  BY <1>2, <1>3, <1>4, MovesOn DEF Sends, At

LEMMA OnDiskType ==
  ASSUME TypeOK, NEW s \in Syncer, cur[s] \in Path
  PROVE  OnDisk(s) \in File /\ OnDisk(s).data \in Int /\ clock + 1 \in Nat
  BY SyncerAssumption DEF OnDisk, TypeOK, File, Bytes

LEMMA ListedRow ==
  ASSUME TypeOK, NEW s \in Syncer, cur[s] \in Path, OnRemote(s)
  PROVE  listed[s][cur[s]].id \in RowIds
  BY DEF TypeOK, PassTypeOK, OnRemote

LEMMA PushNewType ==
  ASSUME EngineInv, NEW s \in Syncer, PushNew(s) PROVE EngineInv'
<1>1. TypeOK /\ At(s, "push") /\ cur[s] \in Path
  BY DEF EngineInv, PushNew, At
<1>2. NewRow(cur[s], OnDisk(s).data, clock + 1) \in Row
  BY <1>1, OnDiskType, NewRowType
<1>3. /\ Uploaded(cur[s], OnDisk(s).data, clock + 1) \in Seq(Row)
      /\ Len(rows) <= Len(Uploaded(cur[s], OnDisk(s).data, clock + 1))
  BY <1>1, <1>2, UploadedRows DEF Uploaded, TypeOK
<1> QED
  BY <1>1, <1>3, SendsType DEF PushNew

LEMMA ReplaceRemoteType ==
  ASSUME EngineInv, NEW s \in Syncer, ReplaceRemote(s) PROVE EngineInv'
<1> DEFINE id == listed[s][cur[s]].id
<1>1. TypeOK /\ At(s, "push") /\ cur[s] \in Path /\ OnRemote(s)
  BY DEF EngineInv, ReplaceRemote, At, Differs
<1>2. CASE NoWrite
  BY <1>1, <1>2, SameWorld, CountsType, FaultType, MovesOn, Zenon
  DEF ReplaceRemote, Sends, At
<1>3. CASE Sends(s, Replaced(id, OnDisk(s).data, clock + 1), {"conflicts"})
  <2>1. /\ Replaced(id, OnDisk(s).data, clock + 1) \in Seq(Row)
        /\ Len(rows) <= Len(Replaced(id, OnDisk(s).data, clock + 1))
    BY <1>1, ListedRow, OnDiskType, ReplacedRows DEF TypeOK
  <2> QED
    BY <1>1, <1>3, <2>1, SendsType
<1> QED
  BY <1>2, <1>3 DEF ReplaceRemote

(* Steps that only look.                                                   *)
LEMMA LookType ==
  ASSUME EngineInv, NEW s \in Syncer,
         LeaveAlone(s) \/ SkipConflict(s) \/ PassOver(s)
  PROVE  EngineInv'
<1>1. TypeOK
  BY DEF EngineInv
<1>2. /\ cur[s] \in Path /\ NextPath(s) /\ fetch[s] = NoFetch /\ fetch' = fetch /\ NoWrite
      /\ UNCHANGED <<edits, faults, pc, opts, listed, scanned, cancelled>>
  BY DEF LeaveAlone, SkipConflict, PassOver, At
<1>3. res' \in Results
  BY <1>1, CountsType DEF LeaveAlone, SkipConflict, PassOver, TypeOK, Results
<1> QED
  BY <1>1, <1>2, <1>3, SameWorld, FaultType, MovesOn

(* Downloads.                                                              *)
LEMMA OpenTargetType ==
  ASSUME EngineInv, NEW s \in Syncer, cur[s] \in Path, fetch[s] = NoFetch, OnRemote(s),
         pc[s] \in {"push", "pull"}, PullOK(s), NEW to \in 0 .. NumPaths, NEW counts,
         OpenTarget(s, to, counts)
  PROVE  EngineInv'
<1>1. TypeOK /\ \A t \in Syncer : FetchOK(t)
  BY DEF EngineInv
<1> DEFINE id == listed[s][cur[s]].id
           opened == [id |-> id, to |-> to, data |-> rows[id].data]
<1>2. id \in RowIds /\ id # 0
  BY <1>1, ListedRow DEF OnRemote
<1>3. res' \in Results
  BY <1>1, CountsType DEF OpenTarget
<1>4. CASE NoWrite /\ NextPath(s) /\ Fault
           /\ UNCHANGED <<edits, pc, opts, listed, scanned, fetch, cancelled>>
  BY <1>1, <1>3, <1>4, SameWorld, FaultType, MovesOn
<1>5. CASE /\ fetch' = [fetch EXCEPT ![s] = opened]
           /\ clock' = clock + 1 /\ Wrote(s)
           /\ local' = IF to = 0 THEN local
                       ELSE [local EXCEPT ![DirOf[s]][to] =
                              [data |-> Cut(rows[id].data), mtime |-> clock + 1]]
           /\ UNCHANGED <<rows, edits, faults, pc, cur, opts, listed, scanned, cancelled>>
  <2>1. [data |-> Cut(rows[id].data), mtime |-> clock + 1] \in File
    <3>1. rows[id].data \in Int
      BY <1>1, <1>2, RowType
    <3>2. Cut(rows[id].data) \in Int
      BY <3>1 DEF Cut
    <3>3. clock + 1 \in Nat
      BY <1>1 DEF TypeOK
    <3> QED
      BY <3>2, <3>3, FileType
  <2>2. local' \in Files
    <3>1. CASE to = 0
      BY <1>1, <1>5, <3>1 DEF TypeOK, Files
    <3>2. CASE to # 0
      <4>1. to \in Path /\ DirOf[s] \in Dir
        BY <3>2, PathAssumption, SyncerAssumption DEF Path
      <4> QED
        BY <1>1, <1>5, <2>1, <3>2, <4>1, PutFile
    <3> QED
      BY <3>1, <3>2
  <2>3. opened \in [id : {0} \cup RowIds, to : 0 .. NumPaths, data : Bytes] /\ opened.id # 0
    BY <1>1, <1>2, RowType DEF Bytes
  <2> HIDE DEF opened
  <2>4. \A t \in Syncer : PassTypeOK(t)'
    BY <1>1, <1>5, <2>3 DEF TypeOK, PassTypeOK, RowIds
  <2>5. quiet' \in Flags /\ alone' \in BOOLEAN
    BY <1>1, <1>5, WroteType
  <2>6. TypeOK'
    <3>1. clock' \in Nat /\ edits' \in 0 .. MaxEdits /\ faults' \in 0 .. MaxFaults
      BY <1>1, <1>5 DEF TypeOK
    <3>2. DOMAIN fetch' = Syncer
      BY <1>1, <1>5 DEF TypeOK
    <3> QED
      BY <1>1, <1>3, <1>5, <2>2, <2>4, <2>5, <3>1, <3>2 DEF TypeOK, Files, Flags, Results
  <2>7. \A t \in Syncer : FetchOK(t)'
    BY <1>1, <1>5, <2>3 DEF TypeOK, FetchOK, PullOK
  <2> QED
    BY <2>6, <2>7 DEF EngineInv
<1> QED
  BY <1>4, <1>5, Zenon DEF OpenTarget

LEMMA PullType ==
  ASSUME EngineInv, NEW s \in Syncer, PullNewer(s) \/ KeepBoth(s) \/ PullMissing(s)
  PROVE  EngineInv'
<1>1. cur[s] \in Path /\ fetch[s] = NoFetch /\ OnRemote(s) /\ pc[s] \in {"push", "pull"}
  BY DEF PullNewer, KeepBoth, PullMissing, At, Differs, RemoteOnly
<1>2. PullOK(s)
  BY DEF PullNewer, KeepBoth, PullMissing, RemoteOnly, At, EngineInv, FetchOK
<1>3. cur[s] \in 0 .. NumPaths /\ Alt[cur[s]] \in 0 .. NumPaths
  BY <1>1, PathAssumption DEF Path
<1> QED
  BY <1>1, <1>2, <1>3, OpenTargetType DEF PullNewer, KeepBoth, PullMissing

(* What a download in progress refers to.                                  *)
LEMMA FetchedRow ==
  ASSUME EngineInv, NEW s \in Syncer, fetch[s] # NoFetch
  PROVE  /\ cur[s] \in Path /\ PullOK(s) /\ fetch[s].id \in RowIds
         /\ fetch[s].to \in 0 .. NumPaths
         /\ fetch[s].data \in Int /\ rows[fetch[s].id].data \in Int
<1>1. TypeOK /\ FetchOK(s) /\ PassTypeOK(s)
  BY DEF EngineInv, TypeOK
<1>2. fetch[s].id \in RowIds /\ fetch[s].to \in 0 .. NumPaths /\ fetch[s].data \in Int
  BY <1>1 DEF PassTypeOK, FetchOK, Bytes
<1> QED
  BY <1>1, <1>2, RowType DEF FetchOK

LEMMA FetchDoneType ==
  ASSUME EngineInv, NEW s \in Syncer, FetchDone(s) PROVE EngineInv'
<1>1. TypeOK /\ fetch[s] # NoFetch
  BY DEF EngineInv, FetchDone
<1>2. local' \in Files
  <2>1. CASE local' = local
    BY <1>1, <2>1 DEF TypeOK, Files
  <2>2. CASE local' # local
    <3>1. fetch[s].to # 0
      BY <2>2 DEF FetchDone
    <3>2. PICK body \in {fetch[s].data, rows[fetch[s].id].data} :
            local' = [local EXCEPT ![DirOf[s]][fetch[s].to] =
                       [data |-> body, mtime |-> clock + 1]]
      BY <2>2 DEF FetchDone
    <3>3. fetch[s].to \in Path /\ DirOf[s] \in Dir
      BY <1>1, <3>1, FetchedRow, PathAssumption, SyncerAssumption DEF Path
    <3>4. [data |-> body, mtime |-> clock + 1] \in File
      BY <1>1, FetchedRow, FileType DEF TypeOK
    <3> QED
      BY <1>1, <3>2, <3>3, <3>4, PutFile
  <2> QED
    BY <2>1, <2>2
<1>3. WorldOK
  BY <1>1, <1>2, WroteType DEF FetchDone, WorldOK, TypeOK
<1>4. res' \in Results /\ faults' \in 0 .. MaxFaults
  BY <1>1, CountsType, FaultType DEF FetchDone
<1> QED
  BY <1>1, <1>3, <1>4, FetchedRow, MovesOn DEF FetchDone

LEMMA FetchFailsType ==
  ASSUME EngineInv, NEW s \in Syncer, FetchFails(s) PROVE EngineInv'
<1>1. TypeOK /\ fetch[s] # NoFetch /\ NoWrite
  BY DEF EngineInv, FetchFails
<1>2. WorldOK
  BY <1>1, SameWorld
<1>3. res' \in Results /\ faults' \in 0 .. MaxFaults
  BY <1>1, CountsType, FaultType DEF FetchFails
<1> QED
  BY <1>1, <1>2, <1>3, FetchedRow, MovesOn DEF FetchFails

(* The ends of the loops and of the pass.                                  *)
LEMMA PushLoopEndsType ==
  ASSUME EngineInv, NEW s \in Syncer, PushLoopEnds(s) PROVE EngineInv'
<1>1. TypeOK /\ \A t \in Syncer : FetchOK(t)
  BY DEF EngineInv
<1>2. CASE ~PullOK(s)
  BY <1>2, Returns DEF PushLoopEnds
<1>3. CASE PullOK(s)
  <2>1. \A t \in Syncer : PassTypeOK(t)'
    BY <1>1, <1>3 DEF PushLoopEnds, NoWrite, TypeOK, PassTypeOK, RowIds
  <2>2. TypeOK'
    <3>1. cur' \in [Syncer -> 1 .. NumPaths + 1]
      <4>1. cur' = [cur EXCEPT ![s] = 1] /\ 1 \in 1 .. NumPaths + 1
        BY <1>3, PathAssumption DEF PushLoopEnds
      <4> QED
        BY <1>1, <4>1 DEF TypeOK
    <3>2. pc' \in [Syncer -> {"idle", "listed", "push", "pull", "done"}]
      BY <1>1, <1>3 DEF PushLoopEnds, TypeOK
    <3> QED
      BY <1>1, <1>3, <2>1, <3>1, <3>2 DEF PushLoopEnds, NoWrite, TypeOK
  <2>3. cur[s] \notin Path
    BY PathAssumption DEF PushLoopEnds, Path
  <2>4. \A t \in Syncer : FetchOK(t)'
    BY <1>1, <1>3, <2>3 DEF PushLoopEnds, TypeOK, FetchOK, PullOK
  <2> QED
    BY <2>2, <2>4 DEF EngineInv
<1> QED
  BY <1>2, <1>3

LEMMA CancelType ==
  ASSUME EngineInv, NEW s \in Syncer, Cancel(s) PROVE EngineInv'
<1>1. TypeOK /\ \A t \in Syncer : FetchOK(t)
  BY DEF EngineInv
<1>2. \A t \in Syncer : PassTypeOK(t)'
  BY <1>1 DEF Cancel, NoWrite, TypeOK, PassTypeOK, RowIds
<1>3. TypeOK'
  BY <1>1, <1>2, BoundAssumption DEF Cancel, NoWrite, Fault, TypeOK
<1>4. \A t \in Syncer : FetchOK(t)'
  BY <1>1 DEF Cancel, FetchOK, PullOK
<1> QED
  BY <1>3, <1>4 DEF EngineInv

LEMMA EngineInvStep == EngineInv /\ [Next]_vars => EngineInv'
<1> SUFFICES ASSUME EngineInv, [Next]_vars PROVE EngineInv'
  OBVIOUS
<1>1. CASE Edit
  BY <1>1, EditKeepsInv
<1>2. ASSUME NEW s \in Syncer, Work(s) PROVE EngineInv'
  <2>1. CASE PullLoopEnds(s)
    BY <2>1, Returns DEF PullLoopEnds
  <2> QED
    BY <1>2, <2>1, ListRemoteType, ScanLocalType, LookType, PushNewType, ReplaceRemoteType,
       PullType, PushLoopEndsType, FetchDoneType, FetchFailsType DEF Work
<1>3. ASSUME NEW s \in Syncer, Mishap(s) PROVE EngineInv'
  BY <1>3, CancelType, Returns DEF Mishap, ScanFails, Killed
<1>4. CASE UNCHANGED vars
  <2>1. TypeOK /\ \A t \in Syncer : FetchOK(t)
    BY DEF EngineInv
  <2>2. \A t \in Syncer : PassTypeOK(t)'
    BY <1>4, <2>1 DEF vars, TypeOK, PassTypeOK, RowIds
  <2>3. TypeOK'
    BY <1>4, <2>1, <2>2 DEF vars, TypeOK
  <2>4. \A t \in Syncer : FetchOK(t)'
    BY <1>4, <2>1 DEF vars, FetchOK, PullOK
  <2> QED
    BY <2>3, <2>4 DEF EngineInv
<1> QED
  BY <1>1, <1>2, <1>3, <1>4 DEF Next

(* Every variable keeps its type, and every row id that a pass holds names *)
(* a row the server has.                                                   *)
THEOREM TypesAreKept == Spec => []TypeOK
<1>1. EngineInv => TypeOK
  BY DEF EngineInv
<1> QED
  BY <1>1, EngineInvInit, EngineInvStep, PTL DEF Spec

-----------------------------------------------------------------------------
(* What a step of a pass never does.                                       *)

(* Both sides still have what they had.                                    *)
Kept ==
  /\ \A d \in Dir, p \in Path : local[d][p] # NoFile => local'[d][p] # NoFile
  /\ \A i \in DOMAIN rows : i \in DOMAIN rows' /\ (rows'[i].gone => rows[i].gone)

Gated(s) ==
  /\ opts[s].direction = "push" => local' = local
  /\ opts[s].direction = "pull" => rows' = rows

(* The other passes stay where they are.                                   *)
Alone(s) == \A t \in Syncer \ {s} : UNCHANGED <<pc[t], cur[t], fetch[t]>>

LEMMA NothingWritten == ASSUME NEW s, NoWrite PROVE Kept /\ Gated(s)
  BY DEF NoWrite, Kept, Gated

LEMMA RowsSent ==
  ASSUME TypeOK, NEW s \in Syncer, NEW stored, NEW counts, PushOK(s),
         Sends(s, stored, counts),
         DOMAIN rows \subseteq DOMAIN stored,
         \A i \in DOMAIN rows : stored[i].gone = rows[i].gone
  PROVE  Kept /\ Gated(s)
<1>1. CASE NoWrite
  BY <1>1, NothingWritten
<1>2. CASE rows' = stored /\ UNCHANGED local
  BY <1>2 DEF Kept, Gated, PushOK
<1> QED
  BY <1>1, <1>2 DEF Sends

LEMMA PushKeeps ==
  ASSUME EngineInv, NEW s \in Syncer, PushNew(s) \/ ReplaceRemote(s) PROVE Kept /\ Gated(s)
<1>1. TypeOK /\ cur[s] \in Path /\ PushOK(s) /\ DOMAIN rows = RowIds /\ Len(rows) \in Nat
  BY DEF EngineInv, TypeOK, RowIds, PushNew, ReplaceRemote, At
<1>2. OnDisk(s).data \in Int /\ clock + 1 \in Nat
  BY <1>1, OnDiskType
<1>3. CASE PushNew(s)
  <2> DEFINE stored == Uploaded(cur[s], OnDisk(s).data, clock + 1)
  <2>1. /\ stored \in Seq(Row) /\ Len(stored) = Len(rows) + 1
        /\ \A i \in DOMAIN rows : stored[i] = rows[i]
    BY <1>1, <1>2, NewRowType, UploadedRows DEF Uploaded
  <2>2. Sends(s, stored, {})
    BY <1>3 DEF PushNew
  <2> HIDE DEF stored
  <2>3. DOMAIN rows \subseteq DOMAIN stored
    BY <1>1, <2>1 DEF RowIds
  <2> QED
    BY <1>1, <2>1, <2>2, <2>3, RowsSent
<1>4. CASE ReplaceRemote(s)
  <2> DEFINE stored == Replaced(listed[s][cur[s]].id, OnDisk(s).data, clock + 1)
  <2>1. listed[s][cur[s]].id \in RowIds
    BY <1>1, <1>4, ListedRow DEF ReplaceRemote, Differs
  <2>2. /\ stored \in Seq(Row) /\ Len(stored) = Len(rows)
        /\ \A i \in DOMAIN rows : stored[i].gone = rows[i].gone
    BY <1>1, <1>2, <2>1, ReplacedRows
  <2>3. CASE NoWrite
    BY <2>3, NothingWritten
  <2>4. CASE Sends(s, stored, {"conflicts"})
    <3>1. DOMAIN rows \subseteq DOMAIN stored
      BY <1>1, <2>2 DEF RowIds
    <3> HIDE DEF stored
    <3> QED
      BY <1>1, <2>2, <2>4, <3>1, RowsSent
  <2> QED
    BY <1>4, <2>3, <2>4 DEF ReplaceRemote
<1> QED
  BY <1>3, <1>4

(* A download writes a file with a time, which is not what an absent file  *)
(* looks like.                                                             *)
LEMMA FileWritten ==
  ASSUME TypeOK, NEW d \in Dir, NEW p \in Path, NEW b,
         local' = [local EXCEPT ![d][p] = [data |-> b, mtime |-> clock + 1]]
  PROVE  \A e \in Dir, q \in Path : local[e][q] # NoFile => local'[e][q] # NoFile
<1>1. [data |-> b, mtime |-> clock + 1] # NoFile
  BY DEF NoFile, TypeOK
<1> QED
  BY <1>1 DEF TypeOK

LEMMA PullKeeps ==
  ASSUME EngineInv, NEW s \in Syncer,
         PullNewer(s) \/ KeepBoth(s) \/ PullMissing(s) \/ FetchDone(s)
  PROVE  Kept /\ Gated(s)
<1>1. TypeOK /\ \A t \in Syncer : FetchOK(t)
  BY DEF EngineInv
<1>2. PullOK(s)
  BY <1>1 DEF PullNewer, KeepBoth, PullMissing, FetchDone, RemoteOnly, At, FetchOK
<1>3. DirOf[s] \in Dir /\ (fetch[s] # NoFetch => fetch[s].to \in 0 .. NumPaths)
  BY SyncerAssumption, FetchedRow
<1>4. CASE NoWrite
  BY <1>4, NothingWritten
<1>5. CASE rows' = rows /\ local' = local
  BY <1>5 DEF Kept, Gated
<1>6. ASSUME rows' = rows, NEW p \in Path, NEW b,
             local' = [local EXCEPT ![DirOf[s]][p] = [data |-> b, mtime |-> clock + 1]]
      PROVE  Kept /\ Gated(s)
  BY <1>1, <1>2, <1>3, <1>6, FileWritten DEF Kept, Gated, PullOK
<1>7. ASSUME NEW to \in 0 .. NumPaths, NEW counts, OpenTarget(s, to, counts)
      PROVE  Kept /\ Gated(s)
  <2>1. to # 0 => to \in Path
    BY PathAssumption DEF Path
  <2> QED
    BY <1>4, <1>5, <1>6, <1>7, <2>1 DEF OpenTarget
<1>8. CASE PullNewer(s) \/ KeepBoth(s) \/ PullMissing(s)
  <2>1. cur[s] \in 0 .. NumPaths /\ Alt[cur[s]] \in 0 .. NumPaths
    BY <1>8, PathAssumption DEF PullNewer, KeepBoth, PullMissing, RemoteOnly, At, Path
  <2> QED
    BY <1>7, <1>8, <2>1 DEF PullNewer, KeepBoth, PullMissing
<1>9. CASE FetchDone(s)
  <2>1. fetch[s].to # 0 => fetch[s].to \in Path
    BY <1>3, <1>9, PathAssumption DEF Path, FetchDone
  <2> QED
    BY <1>5, <1>6, <1>9, <2>1 DEF FetchDone
<1> QED
  BY <1>8, <1>9

LEMMA PassKeeps ==
  ASSUME EngineInv, NEW s \in Syncer, Work(s) \/ Mishap(s) PROVE Kept /\ Gated(s)
<1>1. CASE ListRemote(s) \/ ScanLocal(s)
  BY <1>1 DEF ListRemote, ScanLocal, NoWrite, Kept, Gated
<1>2. CASE \/ LeaveAlone(s) \/ SkipConflict(s) \/ PushLoopEnds(s) \/ PassOver(s)
           \/ PullLoopEnds(s) \/ FetchFails(s) \/ Mishap(s)
  <2>1. NoWrite
    BY <1>2 DEF LeaveAlone, SkipConflict, PushLoopEnds, PassOver, PullLoopEnds, FetchFails,
                Mishap, ScanFails, Cancel, Killed
  <2> QED
    BY <2>1, NothingWritten
<1> QED
  BY <1>1, <1>2, PushKeeps, PullKeeps DEF Work

LEMMA OneAtATime ==
  ASSUME TypeOK, NEW s \in Syncer, Work(s) \/ Mishap(s) PROVE Alone(s)
<1> USE DEF TypeOK, Alone
<1>1. CASE ListRemote(s) \/ ScanLocal(s)
  BY <1>1 DEF ListRemote, ScanLocal
<1>2. CASE LeaveAlone(s) \/ SkipConflict(s) \/ PassOver(s) \/ FetchFails(s) \/ FetchDone(s)
  BY <1>2 DEF LeaveAlone, SkipConflict, PassOver, FetchFails, FetchDone, NextPath
<1>3. CASE PushNew(s) \/ ReplaceRemote(s)
  BY <1>3 DEF PushNew, ReplaceRemote, Sends, NextPath
<1>4. CASE PullNewer(s) \/ KeepBoth(s) \/ PullMissing(s)
  BY <1>4 DEF PullNewer, KeepBoth, PullMissing, OpenTarget, NextPath
<1>5. CASE PushLoopEnds(s) \/ PullLoopEnds(s) \/ Mishap(s)
  BY <1>5 DEF PushLoopEnds, PullLoopEnds, Mishap, ScanFails, Cancel, Killed, Return
<1> QED
  BY <1>1, <1>2, <1>3, <1>4, <1>5 DEF Work

(* The syncer a step is charged with took it.                              *)
LEMMA ItsOwnStep ==
  ASSUME TypeOK, [Next]_vars, NEW s \in Syncer, StepOf(s) PROVE Work(s) \/ Mishap(s)
<1>1. ~Edit
  <2>1. Edit => edits' = edits + 1
    BY DEF Edit, UserWrites, UserDeletes, RemoteAdds, RemoteEdits, RemoteTrashes, MayEdit
  <2> QED BY <2>1 DEF StepOf, TypeOK
<1>2. ~UNCHANGED vars BY DEF StepOf, vars
<1>3. PICK t \in Syncer : Work(t) \/ Mishap(t) BY <1>1, <1>2 DEF Next
<1>4. t = s BY <1>3, OneAtATime DEF Alone, StepOf
<1> QED BY <1>3, <1>4

(* So what every step keeps, the steps a pass is charged with keep too.    *)
LEMMA StepKeeps ==
  ASSUME EngineInv, [Next]_vars, NEW s \in Syncer, StepOf(s) PROVE Kept /\ Gated(s)
  BY ItsOwnStep, PassKeeps DEF EngineInv

(* No pass deletes anything, on either side.                               *)
THEOREM NothingIsDeleted == Spec => NeverDeletes
<1>1. EngineInv /\ [Next]_vars =>
        \A s \in Syncer : StepOf(s) =>
          /\ \A d \in Dir, p \in Path : local[d][p] # NoFile => local'[d][p] # NoFile
          /\ \A i \in DOMAIN rows :
               i \in DOMAIN rows' /\ (rows'[i].gone => rows[i].gone)
  BY StepKeeps DEF Kept
<1> QED
  BY <1>1, EngineInvInit, EngineInvStep, PTL DEF Spec, NeverDeletes

(* A push-only pass writes no local file, a pull-only pass no remote one.  *)
THEOREM DirectionGates == Spec => DirectionRespected
<1>1. EngineInv /\ [Next]_vars =>
        \A s \in Syncer : StepOf(s) =>
          /\ opts[s].direction = "push" => local' = local
          /\ opts[s].direction = "pull" => rows' = rows
  BY StepKeeps DEF Gated
<1> QED
  BY <1>1, EngineInvInit, EngineInvStep, PTL DEF Spec, DirectionRespected

-----------------------------------------------------------------------------
(* What a pass knows while nobody else writes, of the paths that it writes *)
(* only when it reaches them: of one it has yet to handle, the listing and *)
(* the scan are what is there now; the ones it is through with agree, if   *)
(* it is a two-way pass that has not failed; and of the path it is         *)
(* downloading, the target is cut short and the body is the row's.         *)
Sure(s) == IF opts[s].conflict = "keep-both" THEN Path \ Suffixed ELSE Path
ListedNow(s, p) ==
  KeptFor(p, listed[s][p].id) /\ listed[s][p] = EntryOf(listed[s][p].id)
SeenNow(s, p) ==
  /\ scanned[s][p] = IF p \in Hidden THEN NoFile ELSE local[DirOf[s]][p]
  /\ ListedNow(s, p)
Todo(s, p)  == p > cur[s] \/ (p = cur[s] /\ fetch[s] = NoFetch)
Ahead(s, p) == IF scanned[s][p] = NoFile THEN pc[s] = "push" \/ Todo(s, p)
               ELSE pc[s] = "push" /\ Todo(s, p)
Clean(s) ==
  res[s].failed = 0 /\ opts[s].direction = "both" /\ opts[s].conflict = "newest"
FetchNow(s) ==
  LET f == fetch[s] IN
  f # NoFetch =>
    /\ ~Ahead(s, cur[s])
    /\ opts[s].conflict # "keep-both" \/ f.to \in Sure(s) =>
         /\ f.to = cur[s] /\ f.data = rows[f.id].data /\ KeptFor(f.to, f.id)
         /\ local[DirOf[s]][f.to] # NoFile
         /\ ~Whole(local[DirOf[s]][f.to].data)
InLoop(s) ==
  /\ \A p \in Sure(s) : Ahead(s, p) => SeenNow(s, p)
  /\ Clean(s) => \A p \in Path :
       Ahead(s, p) \/ (p = cur[s] /\ fetch[s] # NoFetch) \/ AgreeOn(DirOf[s], p)
  /\ FetchNow(s)
Knowledge(s) ==
  /\ pc[s] = "listed" => \A p \in Path : ListedNow(s, p)
  /\ pc[s] \in {"push", "pull"} => InLoop(s)
  /\ pc[s] = "done" /\ Clean(s) => InSync(DirOf[s])
View(s) ==
  /\ pc[s] \in {"idle", "listed", "done"} => cur[s] = 1
  /\ quiet[s] => Knowledge(s)
ViewInv == EngineInv /\ \A s \in Syncer : View(s)

LEMMA ViewStarts == Init => ViewInv
<1> SUFFICES ASSUME Init PROVE ViewInv OBVIOUS
<1>1. EngineInv BY EngineInvInit
<1>2. \A s \in Syncer : pc[s] = "idle" /\ cur[s] = 1 /\ quiet[s] = FALSE BY DEF Init
<1> QED BY <1>1, <1>2 DEF ViewInv, View

(* The state a pass's knowledge is about.                                  *)
Mine(s) == <<pc[s], cur[s], fetch[s], opts[s], listed[s], scanned[s], res[s]>>

LEMMA SameView ==
  ASSUME NEW s \in Syncer, View(s), UNCHANGED Mine(s),
         quiet'[s] => quiet[s] /\ UNCHANGED <<local, rows>>
  PROVE  View(s)'
<1>1. /\ pc'[s] = pc[s] /\ cur'[s] = cur[s] /\ fetch'[s] = fetch[s] /\ opts'[s] = opts[s]
      /\ listed'[s] = listed[s] /\ scanned'[s] = scanned[s] /\ res'[s] = res[s]
  BY DEF Mine
<1>2. pc'[s] \in {"idle", "listed", "done"} => cur'[s] = 1 BY <1>1 DEF View
<1>3. ASSUME quiet'[s] PROVE Knowledge(s)'
  <2>1. quiet[s] /\ UNCHANGED <<local, rows>> /\ Knowledge(s) BY <1>3 DEF View
  <2>2. \A p \in Path : ListedNow(s, p) <=> ListedNow(s, p)'
    BY <1>1, <2>1 DEF ListedNow, KeptFor, LiveRows, EntryOf
  <2>3. \A p \in Path : (SeenNow(s, p) <=> SeenNow(s, p)') /\ (Ahead(s, p) <=> Ahead(s, p)')
    BY <1>1, <2>1, <2>2 DEF SeenNow, Ahead, Todo
  <2>4. \A p \in Path : AgreeOn(DirOf[s], p) <=> AgreeOn(DirOf[s], p)'
    BY <2>1 DEF AgreeOn, KeptFor, LiveRows
  <2>9. Sure(s)' = Sure(s) BY <1>1 DEF Sure
  <2>5. FetchNow(s) <=> FetchNow(s)'
    BY <1>1, <2>1, <2>9 DEF FetchNow, KeptFor, LiveRows, Ahead, Todo
  <2>6. Clean(s) <=> Clean(s)' BY <1>1 DEF Clean
  <2>7. InLoop(s) <=> InLoop(s)'
    <3>1. Sure(s) \subseteq Path BY DEF Sure
    <3> QED BY <1>1, <2>3, <2>4, <2>5, <2>6, <2>9, <3>1 DEF InLoop
  <2>8. InSync(DirOf[s]) <=> InSync(DirOf[s])' BY <2>4 DEF InSync
  <2> QED BY <1>1, <2>1, <2>2, <2>6, <2>7, <2>8 DEF Knowledge
<1> QED BY <1>2, <1>3 DEF View

LEMMA Elsewhere ==
  ASSUME TypeOK, NEW t \in Syncer, Work(t) \/ Mishap(t), NEW s \in Syncer \ {t}
  PROVE  UNCHANGED Mine(s) /\ (quiet'[s] => quiet[s] /\ UNCHANGED <<local, rows>>)
<1> USE DEF TypeOK, Mine
<1>1. CASE ListRemote(t) \/ ScanLocal(t)
  BY <1>1 DEF ListRemote, ScanLocal, NoWrite
<1>2. CASE LeaveAlone(t) \/ SkipConflict(t) \/ PassOver(t) \/ FetchFails(t)
  BY <1>2 DEF LeaveAlone, SkipConflict, PassOver, FetchFails, NextPath, NoWrite, Counts
<1>3. CASE FetchDone(t)
  BY <1>3 DEF FetchDone, NextPath, Wrote, Counts
<1>4. CASE PushNew(t) \/ ReplaceRemote(t)
  BY <1>4 DEF PushNew, ReplaceRemote, Sends, NextPath, NoWrite, Wrote, Counts
<1>5. CASE PullNewer(t) \/ KeepBoth(t) \/ PullMissing(t)
  BY <1>5 DEF PullNewer, KeepBoth, PullMissing, OpenTarget, NextPath, NoWrite, Wrote, Counts
<1>6. CASE PushLoopEnds(t) \/ PullLoopEnds(t) \/ Mishap(t)
  BY <1>6 DEF PushLoopEnds, PullLoopEnds, Mishap, ScanFails, Cancel, Killed, Return, NoWrite
<1> QED BY <1>1, <1>2, <1>3, <1>4, <1>5, <1>6 DEF Work

LEMMA EditsDisturb == ASSUME Edit, NEW s \in Syncer PROVE UNCHANGED Mine(s) /\ ~quiet'[s]
BY DEF Edit, UserWrites, UserDeletes, RemoteAdds, RemoteEdits, RemoteTrashes, MayEdit,
       passVars, Mine

(* One row stands for a path, and it is the row's own path.                *)
LEMMA OneKept ==
  ASSUME TypeOK, NEW p, NEW i, NEW j, KeptFor(p, i), KeptFor(p, j)
  PROVE  i = j /\ (i # 0 => i \in RowIds /\ rows[i].path = p /\ ~rows[i].gone)
<1>1. DOMAIN rows = RowIds BY DEF TypeOK, RowIds
<1>2. LiveRows(p) \subseteq RowIds BY <1>1 DEF LiveRows
<1>3. LiveRows(p) \subseteq Int BY <1>2 DEF RowIds
<1>4. CASE LiveRows(p) = {} BY <1>4 DEF KeptFor
<1>5. CASE LiveRows(p) # {}
  <2>1. i \in LiveRows(p) /\ j \in LiveRows(p) /\ i <= j /\ j <= i BY <1>5 DEF KeptFor
  <2>2. i = j BY <1>3, <2>1
  <2> QED BY <1>2, <2>1, <2>2 DEF LiveRows
<1> QED BY <1>4, <1>5

(* What changes of the rows at another path does not concern a path.       *)
LEMMA OtherPath ==
  ASSUME TypeOK, NEW p \in Path, NEW q \in Path \ {p},
         DOMAIN rows \subseteq DOMAIN rows', Len(rows') \in Nat, DOMAIN rows' = 1 .. Len(rows'),
         \A i \in DOMAIN rows : rows'[i] = rows[i] \/ (rows[i].path = p /\ rows'[i].path = p),
         \A i \in DOMAIN rows' \ DOMAIN rows : rows'[i].path = p
  PROVE  /\ LiveRows(q)' = LiveRows(q)
         /\ \A i : KeptFor(q, i) <=> KeptFor(q, i)'
         /\ \A i : KeptFor(q, i) => EntryOf(i)' = EntryOf(i)
         /\ \A i \in LiveRows(q) : rows'[i] = rows[i]
<1>1. LiveRows(q)' = LiveRows(q) BY DEF LiveRows
<1>2. \A i : KeptFor(q, i) <=> KeptFor(q, i)' BY <1>1 DEF KeptFor
<1>3. \A i \in LiveRows(q) : rows'[i] = rows[i] BY DEF LiveRows
<1>4. \A i : KeptFor(q, i) /\ i # 0 => i \in LiveRows(q) BY DEF KeptFor
<1>5. \A i : KeptFor(q, i) => EntryOf(i)' = EntryOf(i) BY <1>3, <1>4 DEF EntryOf
<1> QED BY <1>1, <1>2, <1>3, <1>5

(* Agreement in terms of the one row that stands for the path.             *)
LEMMA AgreesOn ==
  ASSUME TypeOK, NEW d \in Dir, NEW p \in Path, NEW i, KeptFor(p, i),
         i # 0 => local[d][p].data = rows[i].data,
         i = 0 /\ p \notin Hidden => local[d][p] = NoFile
  PROVE  AgreeOn(d, p)
<1>1. \A j : KeptFor(p, j) => j = i BY OneKept
<1> QED BY <1>1 DEF AgreeOn

LEMMA StillAgrees ==
  ASSUME TypeOK, TypeOK', NEW d \in Dir, NEW q \in Path, AgreeOn(d, q),
         local'[d][q] = local[d][q],
         \A i : KeptFor(q, i) <=> KeptFor(q, i)',
         \A i \in LiveRows(q) : rows'[i] = rows[i]
  PROVE  AgreeOn(d, q)'
<1> SUFFICES ASSUME NEW i \in 0 .. Len(rows'), KeptFor(q, i)'
             PROVE  /\ i # 0 => local'[d][q].data = rows'[i].data
                    /\ i = 0 /\ q \notin Hidden => local'[d][q] = NoFile
  BY DEF AgreeOn
<1>1. KeptFor(q, i) OBVIOUS
<1>2. i # 0 => i \in LiveRows(q) /\ i \in RowIds BY <1>1, OneKept DEF KeptFor
<1>3. i \in 0 .. Len(rows) BY <1>2 DEF RowIds, TypeOK
<1> QED BY <1>1, <1>2, <1>3 DEF AgreeOn

-----------------------------------------------------------------------------
(* A pass is through with a path: the others are as they were.             *)
Undisturbed(s) ==
  \A q \in Sure(s) \ {cur[s]} :
    /\ local'[DirOf[s]][q] = local[DirOf[s]][q]
    /\ \A i : KeptFor(q, i) <=> KeptFor(q, i)'
    /\ \A i : KeptFor(q, i) => EntryOf(i)' = EntryOf(i)
    /\ \A i \in LiveRows(q) : rows'[i] = rows[i]
Undistracted(s) == quiet[s] /\ InLoop(s)

(* Only a keep-both pass has paths it is not sure of.                      *)
LEMMA SurePaths ==
  ASSUME NEW s
  PROVE  Sure(s) \subseteq Path /\ (opts[s].conflict # "keep-both" => Sure(s) = Path)
  BY DEF Sure

LEMMA Handled ==
  ASSUME ViewInv, EngineInv', NEW s \in Syncer, NEW c \in Path, cur[s] = c,
         pc[s] \in {"push", "pull"},
         NextPath(s), UNCHANGED <<pc, opts, listed, scanned>>, fetch'[s] = NoFetch,
         quiet'[s] => quiet[s],
         Undistracted(s) =>
           /\ Undisturbed(s)
           /\ c \in Sure(s) /\ scanned[s][c] = NoFile /\ pc[s] = "push"
                => SeenNow(s, c) /\ UNCHANGED <<local, rows>>
           /\ Clean(s)' => /\ Clean(s)
                           /\ \/ scanned[s][c] = NoFile /\ pc[s] = "push"
                              \/ AgreeOn(DirOf[s], c)'
  PROVE  View(s)'
<1>0. TypeOK /\ TypeOK' /\ DirOf[s] \in Dir
  BY SyncerAssumption DEF ViewInv, EngineInv
<1>1. /\ cur'[s] = c + 1 /\ pc'[s] = pc[s] /\ opts'[s] = opts[s] /\ listed'[s] = listed[s]
      /\ scanned'[s] = scanned[s]
  BY <1>0 DEF NextPath, TypeOK
<1> SUFFICES ASSUME quiet'[s] PROVE InLoop(s)'
  BY <1>1 DEF View, Knowledge, Clean
<1>2. Undistracted(s) BY DEF ViewInv, View, Knowledge, Undistracted
<1>9. Sure(s)' = Sure(s) /\ Sure(s) \subseteq Path /\ (Clean(s) => Sure(s) = Path)
  BY <1>1, SurePaths DEF Sure, Clean
<1>3. \A q \in Sure(s) \ {c} :
        /\ local'[DirOf[s]][q] = local[DirOf[s]][q]
        /\ \A i : KeptFor(q, i) <=> KeptFor(q, i)'
        /\ \A i : KeptFor(q, i) => EntryOf(i)' = EntryOf(i)
        /\ \A i \in LiveRows(q) : rows'[i] = rows[i]
  BY <1>2 DEF Undisturbed
<1>4. \A q \in Path \ {c} : Ahead(s, q)' <=> Ahead(s, q)
  BY <1>1 DEF Ahead, Todo, Path
<1>5. Ahead(s, c)' <=> scanned[s][c] = NoFile /\ pc[s] = "push"
  BY <1>1 DEF Ahead, Todo, Path
<1>6. ASSUME NEW q \in Sure(s), Ahead(s, q)' PROVE SeenNow(s, q)'
  <2>1. CASE q # c
    <3>1. SeenNow(s, q) BY <1>2, <1>4, <1>6, <1>9, <2>1 DEF Undistracted, InLoop
    <3> QED BY <1>1, <1>3, <2>1, <3>1 DEF SeenNow, ListedNow
  <2>2. CASE q = c
    <3>1. SeenNow(s, c) /\ UNCHANGED <<local, rows>> BY <1>2, <1>5, <1>6, <2>2
    <3> QED BY <1>1, <2>2, <3>1 DEF SeenNow, ListedNow, KeptFor, LiveRows, EntryOf
  <2> QED BY <2>1, <2>2
<1>7. ASSUME Clean(s)', NEW q \in Path PROVE Ahead(s, q)' \/ AgreeOn(DirOf[s], q)'
  <2>1. Clean(s) BY <1>2, <1>7
  <2>2. CASE q # c
    <3>1. Ahead(s, q) \/ AgreeOn(DirOf[s], q)
      BY <1>2, <2>1, <2>2 DEF Undistracted, InLoop
    <3>2. AgreeOn(DirOf[s], q) => AgreeOn(DirOf[s], q)'
      BY <1>0, <1>3, <1>9, <2>1, <2>2, StillAgrees
    <3> QED BY <1>4, <2>2, <3>1, <3>2
  <2>3. CASE q = c BY <1>2, <1>5, <1>7, <2>3
  <2> QED BY <2>2, <2>3
<1>8. FetchNow(s)' BY DEF FetchNow
<1> QED BY <1>6, <1>7, <1>8, <1>9 DEF InLoop

LEMMA CountsFailed ==
  ASSUME TypeOK, NEW s \in Syncer, NEW c, Counts(s, c)
  PROVE  /\ "failed" \in c => res'[s].failed # 0
         /\ "failed" \notin c => res'[s].failed = res[s].failed
<1>1. res[s] \in [Counter -> Nat] BY DEF TypeOK
<1>2. PICK n \in Nat : n = res[s]["failed"] BY <1>1 DEF Counter
<1>3. res'[s]["failed"] = IF "failed" \in c THEN n + 1 ELSE n
  BY <1>2 DEF TypeOK, Counts, Counter
<1> QED BY <1>2, <1>3

(* It wrote nothing, and the path is left, failed, or agrees.              *)
LEMMA HandledIdly ==
  ASSUME ViewInv, EngineInv', NEW s \in Syncer, NEW c \in Path, cur[s] = c,
         pc[s] \in {"push", "pull"},
         NextPath(s), UNCHANGED <<pc, opts, listed, scanned>>, fetch'[s] = NoFetch, NoWrite,
         Undistracted(s) /\ Clean(s)' =>
           /\ Clean(s)
           /\ \/ scanned[s][c] = NoFile /\ pc[s] = "push"
              \/ AgreeOn(DirOf[s], c)
  PROVE  View(s)'
<1>1. UNCHANGED <<local, rows, quiet>> BY DEF NoWrite
<1>2. Undisturbed(s)
  BY <1>1, SurePaths DEF Undisturbed, KeptFor, LiveRows, EntryOf
<1>3. TypeOK BY DEF ViewInv, EngineInv
<1>5. Undistracted(s) /\ c \in Sure(s) /\ scanned[s][c] = NoFile /\ pc[s] = "push"
        => SeenNow(s, c)
  BY DEF Undistracted, InLoop, Ahead
<1>6. AgreeOn(DirOf[s], c) => AgreeOn(DirOf[s], c)'
  BY <1>1 DEF AgreeOn, KeptFor, LiveRows
<1> QED BY <1>1, <1>2, <1>5, <1>6, Handled

-----------------------------------------------------------------------------
LEMMA LooksView ==
  ASSUME ViewInv, EngineInv', NEW s \in Syncer,
         LeaveAlone(s) \/ SkipConflict(s) \/ PassOver(s) \/ FetchFails(s)
  PROVE  View(s)'
<1>0. TypeOK /\ FetchOK(s) /\ DirOf[s] \in Dir
  BY SyncerAssumption DEF ViewInv, EngineInv
<1>1. /\ cur[s] \in Path /\ pc[s] \in {"push", "pull"} /\ NextPath(s) /\ NoWrite
      /\ UNCHANGED <<pc, opts, listed, scanned>> /\ fetch'[s] = NoFetch
  BY <1>0 DEF LeaveAlone, SkipConflict, PassOver, FetchFails, At, FetchOK, TypeOK
<1> PICK c \in Path : cur[s] = c BY <1>1
<1>2. ASSUME Undistracted(s), Clean(s)'
      PROVE  /\ Clean(s)
             /\ (scanned[s][c] = NoFile /\ pc[s] = "push") \/ AgreeOn(DirOf[s], c)
  <2>1. ~FetchFails(s)
    BY <1>0, <1>2, CountsFailed DEF FetchFails, Clean
  <2>2. fetch[s] = NoFetch BY <2>1 DEF LeaveAlone, SkipConflict, PassOver, At
  <2>3. opts[s].direction = "both" /\ opts[s].conflict = "newest"
    BY <1>1, <1>2 DEF Clean
  <2>10. c \in Sure(s) BY <2>3, SurePaths
  <2>4. ~SkipConflict(s)
    BY <2>3 DEF SkipConflict, Newest, PushOK, PullOK
  <2>5. Clean(s)
    BY <1>1, <1>2, <2>1, <2>4 DEF LeaveAlone, PassOver, Clean
  <2>6. Todo(s, c) BY <2>2 DEF Todo
  <2>7. CASE LeaveAlone(s) /\ scanned[s][c] # NoFile
    <3>1. SeenNow(s, c) BY <1>2, <2>6, <2>7, <2>10 DEF Undistracted, InLoop, Ahead, LeaveAlone, At
    <3>2. /\ listed[s][c].id # 0
          /\ SameContent(scanned[s][c], listed[s][c])
      BY <2>3, <2>7 DEF LeaveAlone, Differs, Known, OnRemote, PushOK
    <3> DEFINE i == listed[s][c].id
    <3>3. KeptFor(c, i) /\ listed[s][c] = EntryOf(i) /\ i # 0
      BY <3>1, <3>2 DEF SeenNow, ListedNow
    <3>4. listed[s][c].data = rows[i].data BY <3>3 DEF EntryOf
    <3>5. local[DirOf[s]][c].data = rows[i].data
      BY <2>7, <3>1, <3>2, <3>4 DEF SeenNow, SameContent
    <3> HIDE DEF i
    <3>6. AgreeOn(DirOf[s], c) BY <1>0, <3>3, <3>5, AgreesOn
    <3> QED BY <2>5, <3>6
  <2>8. CASE LeaveAlone(s) /\ scanned[s][c] = NoFile BY <2>5, <2>8 DEF LeaveAlone, At
  <2>9. CASE PassOver(s)
    <3>0. pc[s] = "pull" BY <2>9 DEF PassOver, At
    <3>1. CASE Ahead(s, c)
      <4>1. SeenNow(s, c) /\ scanned[s][c] = NoFile
        BY <1>2, <2>10, <3>0, <3>1 DEF Undistracted, InLoop, Ahead
      <4>2. listed[s][c].id = 0 BY <2>9, <4>1 DEF PassOver, RemoteOnly, Known, OnRemote
      <4>3. KeptFor(c, 0) BY <4>1, <4>2 DEF SeenNow, ListedNow
      <4>4. c \notin Hidden => local[DirOf[s]][c] = NoFile BY <4>1 DEF SeenNow
      <4>5. AgreeOn(DirOf[s], c) BY <1>0, <4>3, <4>4, AgreesOn
      <4> QED BY <2>5, <4>5
    <3>2. CASE ~Ahead(s, c)
      BY <1>2, <2>2, <2>5, <3>2 DEF Undistracted, InLoop
    <3> QED BY <3>1, <3>2
  <2> QED BY <2>1, <2>4, <2>7, <2>8, <2>9
<1> QED BY <1>1, <1>2, HandledIdly

(* Uploads: the row gets what is on disk, and the path agrees.             *)
LEMMA StoredView ==
  ASSUME ViewInv, EngineInv', NEW s \in Syncer, NEW c \in Path, cur[s] = c, NEW stored,
         NEW counts, At(s, "push"), Sends(s, stored, counts), Known(s), "failed" \notin counts,
         DOMAIN rows \subseteq DOMAIN stored,
         DOMAIN stored = 1 .. Len(stored), Len(stored) \in Nat,
         Undistracted(s) =>
           /\ \A i \in DOMAIN rows :
                stored[i] = rows[i] \/ (rows[i].path = c /\ stored[i].path = c)
           /\ \A i \in DOMAIN stored \ DOMAIN rows : stored[i].path = c
           /\ \E i \in DOMAIN stored :
                /\ stored[i].path = c /\ ~stored[i].gone /\ stored[i].data = OnDisk(s).data
                /\ \A j \in DOMAIN stored : stored[j].path = c /\ ~stored[j].gone => j <= i
  PROVE  View(s)'
<1>0. TypeOK /\ TypeOK' /\ DirOf[s] \in Dir
  BY SyncerAssumption DEF ViewInv, EngineInv
<1>1. /\ pc[s] = "push" /\ NextPath(s) /\ UNCHANGED <<pc, opts, listed, scanned>>
      /\ fetch[s] = NoFetch /\ fetch' = fetch
  BY DEF At, Sends
<1>2. CASE NoWrite /\ Counts(s, counts \cup {"failed"})
  <2>1. ~Clean(s)' BY <1>0, <1>2, CountsFailed DEF Clean
  <2> QED BY <1>1, <1>2, <2>1, HandledIdly
<1>3. CASE /\ rows' = stored /\ UNCHANGED local /\ Wrote(s)
           /\ Counts(s, counts \cup {"pushed"}) \/ Counts(s, counts \cup {"failed"})
  <2>1. quiet'[s] => quiet[s] BY <1>0, <1>3 DEF Wrote, TypeOK
  <2>2. scanned[s][c] # NoFile BY DEF Known
  <2>3. ASSUME Undistracted(s) PROVE Undisturbed(s)
    <3>2. Sure(s) \subseteq Path BY SurePaths
    <3>1. \A q \in Path \ {c} : /\ \A i : KeptFor(q, i) <=> KeptFor(q, i)'
                                /\ \A i : KeptFor(q, i) => EntryOf(i)' = EntryOf(i)
                                /\ \A i \in LiveRows(q) : rows'[i] = rows[i]
      BY <1>0, <1>3, <2>3, OtherPath
    <3> QED BY <1>3, <3>1, <3>2 DEF Undisturbed
  <2>4. ASSUME Undistracted(s), Clean(s)' PROVE Clean(s) /\ AgreeOn(DirOf[s], c)'
    <3>1. Counts(s, counts \cup {"pushed"})
      BY <1>0, <1>3, <2>4, CountsFailed DEF Clean
    <3>2. Clean(s) BY <1>0, <1>1, <2>4, <3>1, CountsFailed DEF Clean
    <3>3. PICK i \in DOMAIN stored :
            /\ stored[i].path = c /\ ~stored[i].gone /\ stored[i].data = OnDisk(s).data
            /\ \A j \in DOMAIN stored : stored[j].path = c /\ ~stored[j].gone => j <= i
      BY <2>4
    <3>4. KeptFor(c, i)' BY <1>3, <3>3 DEF KeptFor, LiveRows
    <3>5. local'[DirOf[s]][c].data = rows'[i].data BY <1>3, <3>3 DEF OnDisk
    <3>6. i # 0 BY <3>3
    <3>7. \A j : KeptFor(c, j)' => j = i
      BY <1>3, <3>3 DEF KeptFor, LiveRows
    <3>8. AgreeOn(DirOf[s], c)' BY <3>5, <3>6, <3>7 DEF AgreeOn
    <3> QED BY <3>2, <3>8
  <2> QED BY <1>1, <2>1, <2>2, <2>3, <2>4, Handled
<1> QED BY <1>2, <1>3 DEF Sends

LEMMA PushesView ==
  ASSUME ViewInv, EngineInv', NEW s \in Syncer, PushNew(s) \/ ReplaceRemote(s)
  PROVE  View(s)'
<1>0. TypeOK /\ DirOf[s] \in Dir /\ DOMAIN rows = RowIds /\ Len(rows) \in Nat
  BY SyncerAssumption DEF ViewInv, EngineInv, TypeOK, RowIds
<1>1. At(s, "push") /\ cur[s] \in Path /\ Known(s)
  BY DEF PushNew, ReplaceRemote, At, Differs
<1> PICK c \in Path : cur[s] = c BY <1>1
<1>2. OnDisk(s).data \in Int /\ clock + 1 \in Nat BY <1>0, OnDiskType
<1>3. CASE PushNew(s)
  <2> DEFINE r == NewRow(c, OnDisk(s).data, clock + 1)
             stored == Append(rows, r)
  <2>1. Sends(s, stored, {}) BY <1>3 DEF PushNew, Uploaded
  <2>2. r.path = c /\ ~r.gone /\ r.data = OnDisk(s).data BY DEF NewRow
  <2>3. r \in Row BY <1>2, NewRowType
  <2> HIDE DEF r
  <2>4. /\ DOMAIN stored = 1 .. Len(rows) + 1 /\ Len(stored) = Len(rows) + 1
        /\ \A i \in DOMAIN rows : stored[i] = rows[i]
        /\ stored[Len(rows) + 1] = r
    BY <1>0, <2>3 DEF TypeOK
  <2> HIDE DEF stored
  <2>5. DOMAIN rows \subseteq DOMAIN stored /\ Len(stored) \in Nat
        /\ DOMAIN stored = 1 .. Len(stored)
        /\ \A i \in DOMAIN stored \ DOMAIN rows : i = Len(rows) + 1
    BY <1>0, <2>4 DEF RowIds
  <2>6. \A j \in DOMAIN stored : j <= Len(rows) + 1 BY <1>0, <2>4
  <2>7. Len(rows) + 1 \in DOMAIN stored BY <1>0, <2>4
  <2> QED BY <1>1, <2>1, <2>2, <2>4, <2>5, <2>6, <2>7, StoredView
<1>4. CASE ReplaceRemote(s)
  <2> DEFINE id == listed[s][c].id
             stored == Replaced(id, OnDisk(s).data, clock + 1)
  <2>1. id \in RowIds BY <1>0, <1>4, ListedRow DEF ReplaceRemote, Differs
  <2>2. /\ DOMAIN stored = RowIds /\ Len(stored) = Len(rows)
        /\ stored[id].path = rows[id].path /\ stored[id].gone = rows[id].gone
        /\ stored[id].data = OnDisk(s).data
        /\ \A i \in RowIds \ {id} : stored[i] = rows[i]
    <3> DEFINE r == [rows[id] EXCEPT !.data = OnDisk(s).data, !.ts = clock + 1, !.sha = TRUE]
    <3>1. stored = [rows EXCEPT ![id] = r] BY <1>0, <2>1 DEF Replaced
    <3>2. rows[id] \in Row BY <1>0, <2>1, RowType
    <3>3. r \in Row /\ r.path = rows[id].path /\ r.gone = rows[id].gone
          /\ r.data = OnDisk(s).data
      BY <1>2, <3>2 DEF Row, Bytes
    <3> HIDE DEF r, stored, id
    <3> QED BY <1>0, <2>1, <3>1, <3>3, RewrittenRows
  <2>3. Undistracted(s) => KeptFor(c, id)
    <3> SUFFICES ASSUME Undistracted(s) PROVE KeptFor(c, id) OBVIOUS
    <3>1. Ahead(s, c) BY <1>1 DEF Ahead, At, Todo
    <3>2. c \in Sure(s) BY <1>4, SurePaths DEF ReplaceRemote, Newest
    <3> QED BY <3>1, <3>2 DEF Undistracted, InLoop, SeenNow, ListedNow
  <2>4. Undistracted(s) => rows[id].path = c /\ ~rows[id].gone
                     /\ \A j \in LiveRows(c) : j <= id
    <3>1. id # 0 BY <2>1 DEF RowIds
    <3> HIDE DEF id
    <3> QED BY <1>0, <2>1, <2>3, <3>1 DEF KeptFor, LiveRows
  <2>5. CASE rows[id].gone /\ NoWrite /\ Counts(s, {"conflicts", "failed"}) /\ NextPath(s)
              /\ UNCHANGED <<pc, opts, listed, scanned, fetch>>
    <3>1. ~Clean(s)' BY <1>0, <2>5, CountsFailed DEF Clean
    <3> QED BY <1>1, <2>5, <3>1, HandledIdly DEF At
  <2>6. CASE Sends(s, stored, {"conflicts"})
    <3> HIDE DEF id, stored
    <3>1. DOMAIN rows \subseteq DOMAIN stored /\ Len(stored) \in Nat
          /\ DOMAIN stored = 1 .. Len(stored)
      BY <1>0, <2>2 DEF RowIds
    <3>2. Undistracted(s) => \A j \in DOMAIN stored :
                         stored[j].path = c /\ ~stored[j].gone => j <= id
      BY <1>0, <2>2, <2>4 DEF LiveRows, RowIds
    <3> QED BY <1>0, <1>1, <2>1, <2>2, <2>4, <2>6, <3>1, <3>2, StoredView
  <2> QED BY <1>4, <2>5, <2>6 DEF ReplaceRemote
<1> QED BY <1>3, <1>4

-----------------------------------------------------------------------------
(* Downloads, over the path itself or beside it.                           *)
LEMMA OpensView ==
  ASSUME ViewInv, EngineInv', NEW s \in Syncer, PullNewer(s) \/ KeepBoth(s) \/ PullMissing(s)
  PROVE  View(s)'
<1>0. TypeOK /\ DirOf[s] \in Dir
  BY SyncerAssumption DEF ViewInv, EngineInv
<1>1. /\ cur[s] \in Path /\ pc[s] \in {"push", "pull"} /\ fetch[s] = NoFetch /\ OnRemote(s)
      /\ pc[s] = "push" => Known(s)
      /\ pc[s] = "pull" => ~Known(s)
  BY DEF PullNewer, KeepBoth, PullMissing, At, Differs, RemoteOnly
<1> PICK c \in Path : cur[s] = c BY <1>1
<1>2. PICK to \in {c, Alt[c]}, counts \in {{}, {"conflicts"}} : 
        /\ OpenTarget(s, to, counts)
        /\ to = c \/ (opts[s].conflict = "keep-both" /\ pc[s] = "push")
  BY <1>1 DEF PullNewer, KeepBoth, PullMissing, Newest, RemoteOnly, At
<1>3. CASE /\ NoWrite /\ NextPath(s) /\ Counts(s, counts \cup {"failed"})
           /\ UNCHANGED <<edits, pc, opts, listed, scanned, fetch, cancelled>>
  <2>1. ~Clean(s)' BY <1>0, <1>3, CountsFailed DEF Clean
  <2> QED BY <1>1, <1>3, <2>1, HandledIdly
<1> DEFINE id == listed[s][c].id
<1>4. CASE /\ fetch' = [fetch EXCEPT ![s] = [id |-> id, to |-> to, data |-> rows[id].data]]
           /\ Wrote(s)
           /\ local' = IF to = 0 THEN local
                       ELSE [local EXCEPT ![DirOf[s]][to] =
                              [data |-> Cut(rows[id].data), mtime |-> clock + 1]]
           /\ Counts(s, counts)
           /\ UNCHANGED <<rows, edits, faults, pc, cur, opts, listed, scanned, cancelled>>
  <2>0. /\ pc'[s] = pc[s] /\ opts'[s] = opts[s] /\ cur'[s] = c /\ Sure(s)' = Sure(s)
        /\ UNCHANGED <<rows, listed, scanned>>
    BY <1>4 DEF Sure
  <2> SUFFICES ASSUME quiet'[s] PROVE InLoop(s)'
    BY <1>1, <2>0 DEF View, Knowledge, Clean
  <2>1. to \in Sure(s) => to = c /\ c # 0
    <3>1. to # c => to = Alt[c] BY <1>2
    <3>2. Alt[c] \in Suffixed BY DEF Suffixed
    <3> QED BY <1>2, <3>1, <3>2 DEF Sure, Path
  <2>2. Undistracted(s)
    <3>1. quiet[s] BY <1>0, <1>4 DEF Wrote, TypeOK
    <3> QED BY <1>1, <3>1 DEF ViewInv, View, Knowledge, Undistracted
  <2>3. Clean(s)' => Clean(s) /\ to = c
    <3>1. "failed" \notin counts OBVIOUS
    <3>2. res'[s].failed = res[s].failed BY <1>0, <1>4, <3>1, CountsFailed
    <3> QED BY <1>2, <2>0, <3>2 DEF Clean
  <2>4. Ahead(s, c) /\ (c \in Sure(s) => SeenNow(s, c))
    BY <1>1, <2>2 DEF Known, Ahead, Todo, Undistracted, InLoop
  <2>5. id # 0 /\ id \in RowIds /\ (c \in Sure(s) => KeptFor(c, id))
    BY <1>0, <1>1, <2>4, ListedRow DEF SeenNow, ListedNow, OnRemote
  <2> DEFINE f == [id |-> id, to |-> to, data |-> rows[id].data]
             new == [data |-> Cut(rows[id].data), mtime |-> clock + 1]
  <2>6. fetch'[s] = f /\ f # NoFetch
    BY <1>0, <1>4, <2>5 DEF NoFetch, TypeOK
  <2>7. /\ to \in Sure(s) => local'[DirOf[s]][c] = new
        /\ \A q \in Sure(s) \ {c} : local'[DirOf[s]][q] = local[DirOf[s]][q]
    <3>1. to \in Path \/ to = 0 BY <1>1, PathAssumption DEF Path
    <3>2. \A q \in Path \ {to} : local'[DirOf[s]][q] = local[DirOf[s]][q]
      BY <1>0, <1>4, <3>1 DEF TypeOK
    <3>3. to \in Sure(s) => local'[DirOf[s]][c] = new
      BY <1>0, <1>4, <2>1 DEF TypeOK
    <3>4. \A q \in Sure(s) \ {c} : q \in Path \ {to} BY <2>1, SurePaths
    <3> QED BY <3>2, <3>3, <3>4
  <2>8. new # NoFile /\ ~Whole(new.data)
    <3>1. rows[id].data \in Int BY <1>0, <2>5, RowType
    <3>2. PICK b \in Int : b = rows[id].data BY <3>1
    <3>3. ~(Cut(b) > 0) BY DEF Cut
    <3>4. clock + 1 # 0 BY <1>0 DEF TypeOK
    <3> QED BY <3>2, <3>3, <3>4 DEF Whole, NoFile
  <2>10. \A q \in Path \ {c} : Ahead(s, q)' <=> Ahead(s, q)
    BY <1>4 DEF Ahead, Todo
  <2>11. ~Ahead(s, c)'
    <3>1. fetch'[s] # NoFetch BY <2>6
    <3>3. ~Todo(s, c)' BY <2>0, <3>1 DEF Todo, Path
    <3> QED BY <1>1, <2>0, <3>3 DEF Ahead, Known
  <2>15. FetchNow(s)'
    <3>4. ~Ahead(s, c)' BY <2>11
    <3> SUFFICES ASSUME opts[s].conflict # "keep-both" \/ to \in Sure(s) PROVE FetchNow(s)'
      BY <2>0, <2>6, <3>4 DEF FetchNow, Ahead, Todo
    <3>3. f.to = to /\ f.id = id /\ f.data = rows[id].data /\ to = c /\ c \in Sure(s)
      BY <1>2, <2>1, SurePaths
    <3> HIDE DEF id, new, f
    <3>5. PICK e, i : e = f /\ i = id OBVIOUS
    <3>1. KeptFor(c, i)'
      BY <2>0, <2>5, <3>3, <3>5 DEF KeptFor, LiveRows
    <3>6. fetch'[s] = e /\ e.to = c /\ e.id = i /\ e.data = rows'[i].data
          /\ KeptFor(c, i)' /\ local'[DirOf[s]][c] # NoFile
          /\ ~Whole(local'[DirOf[s]][c].data) /\ cur'[s] = c
      BY <2>0, <2>6, <2>7, <2>8, <3>1, <3>3, <3>5
    <3> QED BY <3>4, <3>6 DEF FetchNow, KeptFor, LiveRows, Ahead, Todo
  <2>12. ASSUME NEW q \in Sure(s), Ahead(s, q)' PROVE SeenNow(s, q)'
    <3>1. q # c /\ SeenNow(s, q)
      BY <2>2, <2>10, <2>11, <2>12, SurePaths DEF Undistracted, InLoop
    <3> QED BY <2>0, <2>7, <3>1 DEF SeenNow, ListedNow, KeptFor, LiveRows, EntryOf
  <2>13. ASSUME Clean(s)', NEW q \in Path \ {c}
         PROVE  Ahead(s, q)' \/ AgreeOn(DirOf[s], q)'
    <3>1. Ahead(s, q) \/ AgreeOn(DirOf[s], q)
      BY <2>2, <2>3, <2>13 DEF Undistracted, InLoop
    <3>2. q \in Sure(s) BY <2>3, <2>13, SurePaths DEF Clean
    <3>3. AgreeOn(DirOf[s], q) => AgreeOn(DirOf[s], q)'
      BY <2>0, <2>7, <3>2 DEF AgreeOn, KeptFor, LiveRows
    <3> QED BY <2>10, <3>1, <3>3
  <2>14. fetch'[s] # NoFetch BY <2>6
  <2> QED BY <2>0, <2>15, <2>12, <2>13, <2>14 DEF InLoop
<1> QED BY <1>2, <1>3, <1>4 DEF OpenTarget

LEMMA FetchDoneView ==
  ASSUME ViewInv, EngineInv', NEW s \in Syncer, FetchDone(s)
  PROVE  View(s)'
<1>0. TypeOK /\ TypeOK' /\ FetchOK(s) /\ DirOf[s] \in Dir
  BY SyncerAssumption DEF ViewInv, EngineInv
<1>1. /\ cur[s] \in Path /\ pc[s] \in {"push", "pull"} /\ NextPath(s)
      /\ UNCHANGED <<pc, opts, listed, scanned>> /\ fetch'[s] = NoFetch /\ rows' = rows
      /\ fetch[s] # NoFetch /\ fetch[s].id # 0
  BY <1>0 DEF FetchDone, FetchOK, TypeOK
<1> PICK c \in Path : cur[s] = c BY <1>1
<1>2. quiet'[s] => quiet[s] BY <1>0 DEF FetchDone, Wrote, TypeOK
<1> PICK f : f = fetch[s] OBVIOUS
<1>3. ASSUME Undistracted(s) PROVE Undisturbed(s)
  <2>1. \A q \in Sure(s) \ {c} : q \in Path \ {f.to}
    BY <1>1, <1>3, SurePaths DEF Undistracted, InLoop, FetchNow
  <2>2. f.to \in Path \/ f.to = 0 BY <1>0 DEF TypeOK, PassTypeOK, Path
  <2>3. \A q \in Path \ {f.to} : local'[DirOf[s]][q] = local[DirOf[s]][q]
    BY <1>0, <2>2 DEF FetchDone, TypeOK
  <2> QED BY <1>1, <2>1, <2>3 DEF Undisturbed, KeptFor, LiveRows, EntryOf
<1>4. Undistracted(s) => ~(c \in Sure(s) /\ scanned[s][c] = NoFile /\ pc[s] = "push")
  BY <1>1 DEF Undistracted, InLoop, FetchNow, Ahead
<1>5. ASSUME Undistracted(s), Clean(s)' PROVE Clean(s) /\ AgreeOn(DirOf[s], c)'
  <2>1. Clean(s)
    <3>1. PICK k \in {{"pulled"}, {}} : Counts(s, k) BY DEF FetchDone
    <3>2. "failed" \notin k OBVIOUS
    <3>3. res'[s].failed = res[s].failed BY <1>0, <3>1, <3>2, CountsFailed
    <3> QED BY <1>1, <1>5, <3>3 DEF Clean
  <2>2. opts[s].conflict # "keep-both" BY <2>1 DEF Clean
  <2>3. /\ f.to = c /\ f.data = rows[f.id].data /\ KeptFor(c, f.id)
        /\ local[DirOf[s]][c] # NoFile /\ c # 0
    BY <1>1, <1>5, <2>2, PathAssumption DEF Undistracted, InLoop, FetchNow, Path
  <2>4. local' = [local EXCEPT ![DirOf[s]][c] = [data |-> rows[f.id].data, mtime |-> clock + 1]]
    BY <2>3 DEF FetchDone
  <2>5. local'[DirOf[s]][c].data = rows[f.id].data
    BY <1>0, <2>4 DEF TypeOK
  <2>6. \A j : KeptFor(c, j) => j = f.id BY <1>0, <2>3, OneKept
  <2>7. \A j : KeptFor(c, j)' <=> KeptFor(c, j) BY <1>1 DEF KeptFor, LiveRows
  <2> QED BY <1>1, <2>1, <2>5, <2>6, <2>7 DEF AgreeOn
<1> QED BY <1>1, <1>2, <1>3, <1>4, <1>5, Handled

-----------------------------------------------------------------------------
(* The ends of a pass and its beginning.                                   *)
LEMMA ReturnsView ==
  ASSUME ViewInv, NEW s \in Syncer, NEW at \in {"idle", "done"}, Return(s, at), NoWrite,
         at = "done" /\ quiet[s] /\ Clean(s) => InSync(DirOf[s])
  PROVE  View(s)'
<1>0. TypeOK BY DEF ViewInv, EngineInv
<1>1. pc'[s] = at /\ cur'[s] = 1 /\ opts' = opts /\ res' = res
  BY <1>0 DEF Return, TypeOK
<1>2. UNCHANGED <<local, rows, quiet>> BY DEF NoWrite
<1>3. Clean(s)' <=> Clean(s) BY <1>1 DEF Clean
<1>4. InSync(DirOf[s]) => InSync(DirOf[s])'
  BY <1>2 DEF InSync, AgreeOn, KeptFor, LiveRows
<1> QED BY <1>1, <1>2, <1>3, <1>4 DEF View, Knowledge

LEMMA LoopsView ==
  ASSUME ViewInv, NEW s \in Syncer, PushLoopEnds(s) \/ PullLoopEnds(s)
  PROVE  View(s)'
<1>0. TypeOK /\ FetchOK(s) /\ View(s) /\ NoWrite /\ cur[s] = NumPaths + 1 /\ NumPaths \in Nat
  BY PathAssumption DEF ViewInv, EngineInv, PushLoopEnds, PullLoopEnds
<1>1. fetch[s] = NoFetch BY <1>0 DEF FetchOK, Path
<1>2. \A p \in Path : ~Todo(s, p) BY <1>0 DEF Todo, Path
<1>3. CASE PushLoopEnds(s) /\ PullOK(s)
  <2>1. /\ pc[s] = "push" /\ pc'[s] = "pull" /\ cur'[s] = 1
        /\ UNCHANGED <<opts, listed, scanned, fetch, res, local, rows, quiet>>
    BY <1>0, <1>3 DEF PushLoopEnds, TypeOK, NoWrite
  <2> SUFFICES ASSUME quiet[s] PROVE InLoop(s)'
    BY <2>1 DEF View, Knowledge, Clean
  <2>2. InLoop(s) BY <1>0, <2>1 DEF View, Knowledge
  <2>3. \A p \in Path : Ahead(s, p)' <=> Ahead(s, p)
    <3>1. \A p \in Path : Todo(s, p)' BY <1>1, <2>1 DEF Todo, Path
    <3> QED BY <1>2, <2>1, <3>1 DEF Ahead
  <2>4. \A p \in Path : SeenNow(s, p) <=> SeenNow(s, p)'
    BY <2>1 DEF SeenNow, ListedNow, KeptFor, LiveRows, EntryOf
  <2>5. \A p \in Path : AgreeOn(DirOf[s], p) <=> AgreeOn(DirOf[s], p)'
    BY <2>1 DEF AgreeOn, KeptFor, LiveRows
  <2>6. Clean(s)' <=> Clean(s) BY <2>1 DEF Clean
  <2>7. FetchNow(s)' BY <1>1, <2>1 DEF FetchNow
  <2>8. Sure(s)' = Sure(s) /\ Sure(s) \subseteq Path BY <2>1, SurePaths DEF Sure
  <2> QED BY <1>1, <2>2, <2>3, <2>4, <2>5, <2>6, <2>7, <2>8 DEF InLoop
<1>4. CASE PushLoopEnds(s) /\ ~PullOK(s)
  <2>1. Return(s, "done") BY <1>4 DEF PushLoopEnds
  <2>2. ~Clean(s) BY <1>4 DEF Clean, PullOK
  <2> QED BY <1>0, <2>1, <2>2, ReturnsView
<1>5. CASE PullLoopEnds(s)
  <2>1. Return(s, "done") /\ pc[s] = "pull" BY <1>5 DEF PullLoopEnds
  <2>2. ASSUME quiet[s], Clean(s) PROVE InSync(DirOf[s])
    <3>1. InLoop(s) BY <1>0, <2>1, <2>2 DEF View, Knowledge, Clean
    <3>2. \A p \in Path : ~Ahead(s, p) BY <1>2, <2>1 DEF Ahead
    <3> QED BY <1>1, <2>2, <3>1, <3>2 DEF InLoop, InSync
  <2> QED BY <1>0, <2>1, <2>2, ReturnsView
<1> QED BY <1>3, <1>4, <1>5

LEMMA BeginsView ==
  ASSUME ViewInv, NEW s \in Syncer, ListRemote(s) \/ ScanLocal(s)
  PROVE  View(s)'
<1>0. TypeOK /\ FetchOK(s) /\ View(s)
  BY DEF ViewInv, EngineInv
<1>1. CASE ListRemote(s)
  <2>1. PICK keep \in [Path -> 0 .. Len(rows)] :
          /\ \A p \in Path : KeptFor(p, keep[p])
          /\ listed' = [listed EXCEPT ![s] = [p \in Path |-> EntryOf(keep[p])]]
    BY <1>1 DEF ListRemote
  <2>2. pc'[s] = "listed" /\ cur'[s] = 1 /\ UNCHANGED <<local, rows>>
    BY <1>0, <1>1 DEF ListRemote, TypeOK, View
  <2>3. ASSUME NEW p \in Path PROVE ListedNow(s, p)'
    <3>1. listed'[s][p] = EntryOf(keep[p]) BY <1>0, <2>1 DEF TypeOK
    <3>2. EntryOf(keep[p]).id = keep[p] BY <1>0, ListingType
    <3>3. PICK i : i = keep[p] OBVIOUS
    <3>4. KeptFor(p, i)' BY <2>1, <2>2, <3>3 DEF KeptFor, LiveRows
    <3>5. listed'[s][p].id = i BY <3>1, <3>2, <3>3
    <3>6. listed'[s][p] = EntryOf(i)' BY <2>2, <3>1, <3>3 DEF EntryOf
    <3> QED BY <3>4, <3>5, <3>6 DEF ListedNow, KeptFor, LiveRows, EntryOf
  <2> QED BY <2>2, <2>3 DEF View, Knowledge
<1>2. CASE ScanLocal(s)
  <2>1. /\ pc[s] = "listed" /\ pc'[s] = "push" /\ cur'[s] = 1 /\ fetch[s] = NoFetch
        /\ UNCHANGED <<opts, listed, fetch, local, rows, quiet, res>>
        /\ \A p \in Path : scanned'[s][p] = IF p \in Hidden THEN NoFile ELSE local[DirOf[s]][p]
    BY <1>0, <1>2 DEF ScanLocal, NoWrite, TypeOK, View, FetchOK
  <2> SUFFICES ASSUME quiet[s] PROVE InLoop(s)'
    BY <2>1 DEF View, Knowledge
  <2>2. \A p \in Path : ListedNow(s, p)
    BY <1>0, <2>1 DEF View, Knowledge
  <2>3. \A p \in Path : SeenNow(s, p)'
    BY <2>1, <2>2 DEF SeenNow, ListedNow, KeptFor, LiveRows, EntryOf
  <2>4. \A p \in Path : Ahead(s, p)'
    BY <2>1 DEF Ahead, Todo, Path
  <2> QED BY <2>1, <2>3, <2>4, SurePaths DEF InLoop, FetchNow, Sure
<1> QED BY <1>1, <1>2

LEMMA MishapsView ==
  ASSUME ViewInv, NEW s \in Syncer, Mishap(s)
  PROVE  View(s)'
<1>1. CASE ScanFails(s) \/ Killed(s)
  BY <1>1, ReturnsView DEF ScanFails, Killed
<1>2. CASE Cancel(s)
  <2>1. UNCHANGED Mine(s) /\ UNCHANGED <<local, rows, quiet>>
    BY <1>2 DEF Cancel, NoWrite, Mine
  <2> QED BY <2>1, SameView DEF ViewInv
<1> QED BY <1>1, <1>2 DEF Mishap

LEMMA ViewStep == ViewInv /\ [Next]_vars => ViewInv'
<1> SUFFICES ASSUME ViewInv, [Next]_vars PROVE ViewInv' OBVIOUS
<1>0. EngineInv' /\ TypeOK BY EngineInvStep DEF ViewInv, EngineInv
<1>1. CASE Edit
  <2>1. ASSUME NEW s \in Syncer PROVE View(s)'
    BY <1>1, EditsDisturb, SameView DEF ViewInv
  <2> QED BY <1>0, <2>1 DEF ViewInv
<1>2. ASSUME NEW t \in Syncer, Work(t) \/ Mishap(t) PROVE ViewInv'
  <2>1. ASSUME NEW s \in Syncer \ {t} PROVE View(s)'
    BY <1>0, <1>2, Elsewhere, SameView DEF ViewInv
  <2>2. View(t)'
    BY <1>0, <1>2, LooksView, PushesView, OpensView, FetchDoneView, LoopsView, BeginsView,
       MishapsView DEF Work
  <2> QED BY <1>0, <2>1, <2>2 DEF ViewInv
<1>3. CASE UNCHANGED vars
  <2>1. ASSUME NEW s \in Syncer PROVE View(s)'
    <3>1. UNCHANGED Mine(s) /\ UNCHANGED <<local, rows, quiet>> BY <1>3 DEF vars, Mine
    <3> QED BY <3>1, SameView DEF ViewInv
  <2> QED BY <1>0, <2>1 DEF ViewInv
<1> QED BY <1>1, <1>2, <1>3 DEF Next

(* For any number of directories, paths, devices, edits and faults: a      *)
(* two-way newest pass that nobody disturbed and that reports no failure   *)
(* has left every visible path the same on both sides.                     *)
THEOREM ACleanPassHasSynced == Spec => []CleanPassSyncs
<1>1. ViewInv => CleanPassSyncs BY DEF ViewInv, View, Knowledge, Clean, CleanPassSyncs
<1> QED BY <1>1, ViewStarts, ViewStep, PTL DEF Spec

LEMMA SkipsKeep ==
  ASSUME ViewInv, NEW s \in Syncer, Work(s) \/ Mishap(s), quiet[s], NEW p \in Path \ Hidden
  PROVE  SkipsStep(s, p)
<1> SUFFICES ASSUME opts[s].conflict = "skip"
             PROVE  /\ LET was == local[DirOf[s]][p].data IN
                       Whole(was) => local'[DirOf[s]][p].data = was
                    /\ \A i \in DOMAIN rows : rows[i].path = p => rows'[i].data = rows[i].data
  BY DEF SkipsStep
<1>0. TypeOK /\ FetchOK(s) /\ View(s) /\ DirOf[s] \in Dir
  BY SyncerAssumption DEF ViewInv, EngineInv
<1>1. CASE \/ ListRemote(s) \/ ScanLocal(s) \/ LeaveAlone(s) \/ SkipConflict(s)
           \/ PushLoopEnds(s) \/ PassOver(s) \/ PullLoopEnds(s) \/ FetchFails(s) \/ Mishap(s)
  <2>1. UNCHANGED <<local, rows>>
    BY <1>1 DEF ListRemote, ScanLocal, LeaveAlone, SkipConflict, PushLoopEnds, PassOver,
                PullLoopEnds, FetchFails, Mishap, ScanFails, Cancel, Killed, NoWrite
  <2> QED BY <2>1
<1>2. ~ReplaceRemote(s) /\ ~PullNewer(s) /\ ~KeepBoth(s)
  BY DEF ReplaceRemote, PullNewer, KeepBoth, Newest
<1>3. CASE PushNew(s)
  <2>1. UNCHANGED local BY <1>3 DEF PushNew, Sends, NoWrite
  <2>2. cur[s] \in Path BY <1>3 DEF PushNew, At
  <2> DEFINE r == NewRow(cur[s], OnDisk(s).data, clock + 1)
  <2>3. r \in Row BY <1>0, <2>2, OnDiskType, NewRowType
  <2>4. rows' = rows \/ rows' = Append(rows, r)
    BY <1>3 DEF PushNew, Sends, NoWrite, Uploaded
  <2> HIDE DEF r
  <2>5. \A i \in DOMAIN rows : rows'[i] = rows[i] BY <1>0, <2>3, <2>4, UploadedRows
  <2> QED BY <2>1, <2>5
<1>4. CASE PullMissing(s)
  <2>1. /\ pc[s] = "pull" /\ cur[s] \in Path /\ fetch[s] = NoFetch
        /\ scanned[s][cur[s]] = NoFile /\ OpenTarget(s, cur[s], {})
    BY <1>4 DEF PullMissing, RemoteOnly, At, Known
  <2> PICK c \in Path : cur[s] = c BY <2>1
  <2>2. SeenNow(s, c)
    BY <1>0, <2>1, SurePaths DEF View, Knowledge, InLoop, Ahead, Todo
  <2>3. p = c => ~Whole(local[DirOf[s]][p].data)
    BY <2>1, <2>2 DEF SeenNow, NoFile, NoBytes, Whole
  <2>4. rows' = rows /\ (p # c => local'[DirOf[s]][p] = local[DirOf[s]][p])
    BY <1>0, <2>1 DEF OpenTarget, NoWrite, TypeOK
  <2> QED BY <2>3, <2>4
<1>5. CASE FetchDone(s)
  <2>1. fetch[s] # NoFetch /\ cur[s] \in Path /\ pc[s] \in {"push", "pull"}
    BY <1>0, <1>5 DEF FetchDone, FetchOK
  <2> PICK c \in Path : cur[s] = c BY <2>1
  <2>2. fetch[s].to = c /\ ~Whole(local[DirOf[s]][c].data)
    BY <1>0, <2>1 DEF View, Knowledge, InLoop, FetchNow
  <2>3. rows' = rows /\ (p # c => local'[DirOf[s]][p] = local[DirOf[s]][p])
    BY <1>0, <1>5, <2>2 DEF FetchDone, TypeOK
  <2> QED BY <2>2, <2>3
<1> QED BY <1>1, <1>2, <1>3, <1>4, <1>5 DEF Work

(* And under the skip policy a pass that nobody disturbs leaves both sides *)
(* of every visible path alone.                                            *)
THEOREM SkipLeavesBoth == Spec => SkipLeavesBothAlone
<1>1. ViewInv /\ [Next]_vars =>
        \A s \in Syncer, p \in Path \ Hidden : StepOf(s) /\ quiet[s] => SkipsStep(s, p)
  BY ItsOwnStep, SkipsKeep DEF ViewInv, EngineInv
<1> QED BY <1>1, ViewStarts, ViewStep, PTL DEF Spec, SkipLeavesBothAlone

-----------------------------------------------------------------------------
(* What one device's files and the rows say of one another while every     *)
(* pass had the two sides to itself, of a path no other one's download     *)
(* reaches: nothing is dated later than now, nothing is empty, one row at  *)
(* most stands for the path, and where both hold whole versions the dates  *)
(* tell which is older; the same version on both sides is known for the    *)
(* same or counts as newer here.                                           *)
Plain == Path \ (Hidden \cup Suffixed)
Fair(le, re) ==
  Whole(le.data) /\ Whole(re.data) /\ re.ts # NoStamp =>
    IF LocalNewer(le, re) THEN le.data >= re.data
    ELSE re.data > le.data \/ SameContent(le, re)
FileHist(f, now) == f.data <= now /\ f.mtime <= now /\ (f # NoFile => f.data # NoBytes)
RowHist(r, now)  == r.data <= now /\ r.ts <= now /\ r.data # NoBytes
Hist(s, p) ==
  /\ FileHist(local[DirOf[s]][p], clock)
  /\ \A i \in RowIds : rows[i].path = p => RowHist(rows[i], clock)
  /\ \A i, j \in LiveRows(p) : i = j
  /\ \A i \in LiveRows(p) : Fair(local[DirOf[s]][p], rows[i])
Uncrossed == \A s \in Syncer : InPass(s) => quiet[s]
History   == alone => Uncrossed /\ \A s \in Syncer, p \in Plain : Hist(s, p)
HistInv   == ViewInv /\ (OneDevice => History)

LEMMA HistStarts == Init => HistInv
<1> SUFFICES ASSUME Init PROVE HistInv OBVIOUS
<1>1. ViewInv BY ViewStarts
<1>2. Uncrossed BY DEF Init, Uncrossed, InPass
<1>3. ASSUME NEW s \in Syncer, NEW p \in Plain PROVE Hist(s, p)
  <2>1. local[DirOf[s]][p] = NoFile BY SyncerAssumption DEF Init, Plain
  <2>2. DOMAIN rows = {} /\ RowIds = {} BY DEF Init, RowIds
  <2>3. clock = 0 BY DEF Init
  <2> QED BY <2>1, <2>2, <2>3 DEF Hist, FileHist, LiveRows, NoFile, NoBytes
<1> QED BY <1>1, <1>2, <1>3 DEF HistInv, History

(* Without a write everything stays as it was.                             *)
LEMMA SameHist ==
  ASSUME NEW s, NEW p, Hist(s, p), UNCHANGED <<local, rows, clock>>
  PROVE  Hist(s, p)'
  BY DEF Hist, FileHist, RowHist, Fair, LocalNewer, SameContent, LiveRows, RowIds

LEMMA PlainPath == \A p \in Plain : p \in Path /\ p \notin Hidden /\ p \notin Suffixed
  BY DEF Plain

LEMMA FilesTyped ==
  ASSUME TypeOK, NEW s \in Syncer, NEW p \in Path
  PROVE  local[DirOf[s]][p].data \in Int /\ local[DirOf[s]][p].mtime \in Nat /\ clock \in Nat
  BY SyncerAssumption DEF TypeOK, File, Bytes

(* A file is written, or stays, while the clock ticks.                     *)
LEMMA FileChanges ==
  ASSUME TypeOK, NEW s \in Syncer, NEW p \in Plain, Hist(s, p),
         rows' = rows, clock' = clock + 1, NEW f, local'[DirOf[s]][p] = f,
         FileHist(f, clock + 1), \A i \in LiveRows(p) : Fair(f, rows[i])
  PROVE  Hist(s, p)'
<1>1. \A i \in RowIds : rows[i].data \in Int /\ rows[i].ts \in Nat BY RowType
<1>2. clock \in Nat BY DEF TypeOK
<1>3. \A i \in RowIds' : rows'[i].path = p => RowHist(rows'[i], clock + 1)
  <2> SUFFICES ASSUME NEW i \in RowIds, rows[i].path = p PROVE RowHist(rows[i], clock + 1)
    BY DEF RowIds, RowHist
  <2>1. RowHist(rows[i], clock) BY DEF Hist
  <2>2. PICK b \in Int, t \in Nat : b = rows[i].data /\ t = rows[i].ts BY <1>1
  <2>3. b <= clock + 1 /\ t <= clock + 1 /\ b # NoBytes BY <1>2, <2>1, <2>2 DEF RowHist
  <2>4. rows'[i] = rows[i] OBVIOUS
  <2> QED BY <2>2, <2>3, <2>4 DEF RowHist
<1>4. \A i, j \in LiveRows(p)' : i = j BY DEF Hist, LiveRows
<1>5. \A i \in LiveRows(p)' : Fair(local'[DirOf[s]][p], rows'[i])
  BY DEF LiveRows
<1>6. FileHist(local'[DirOf[s]][p], clock + 1) BY DEF FileHist
<1> QED BY <1>3, <1>4, <1>5, <1>6 DEF Hist, FileHist, RowHist, Fair, LocalNewer, SameContent

(* It stays.                                                               *)
LEMMA FileStays ==
  ASSUME TypeOK, NEW s \in Syncer, NEW p \in Plain, Hist(s, p),
         rows' = rows, clock' = clock + 1, local'[DirOf[s]][p] = local[DirOf[s]][p]
  PROVE  Hist(s, p)'
<1> PICK f : f = local[DirOf[s]][p] OBVIOUS
<1>1. f.data \in Int /\ f.mtime \in Nat /\ clock \in Nat BY PlainPath, FilesTyped
<1>2. FileHist(f, clock) /\ \A i \in LiveRows(p) : Fair(f, rows[i]) BY DEF Hist
<1>3. FileHist(f, clock + 1) BY <1>1, <1>2 DEF FileHist
<1> QED BY <1>2, <1>3, FileChanges

(* One row is written or added while the clock ticks.                      *)
LEMMA RowChanges ==
  ASSUME TypeOK, NEW s \in Syncer, NEW p \in Plain, Hist(s, p),
         local' = local, clock' = clock + 1, NEW k \in Nat, NEW r,
         DOMAIN rows' = 1 .. Len(rows'), k \in DOMAIN rows', rows'[k] = r,
         DOMAIN rows' \subseteq DOMAIN rows \cup {k},
         \A i \in DOMAIN rows' \ {k} : rows'[i] = rows[i],
         r.path = p => RowHist(r, clock + 1),
         r.path = p /\ ~r.gone =>
           LiveRows(p) \subseteq {k} /\ Fair(local[DirOf[s]][p], r)
  PROVE  Hist(s, p)'
<1>0. DOMAIN rows = RowIds BY DEF TypeOK, RowIds
<1>1. \A i \in RowIds : rows[i].data \in Int /\ rows[i].ts \in Nat BY RowType
<1>2. clock \in Nat BY DEF TypeOK
<1>3. ASSUME NEW i \in RowIds', rows'[i].path = p PROVE RowHist(rows'[i], clock + 1)
  <2>1. CASE i = k BY <1>3, <2>1 DEF RowHist
  <2>2. CASE i # k
    <3>1. i \in RowIds /\ rows'[i] = rows[i] BY <1>0, <2>2 DEF RowIds
    <3>2. RowHist(rows[i], clock) BY <1>3, <3>1 DEF Hist
    <3>3. PICK b \in Int, t \in Nat : b = rows[i].data /\ t = rows[i].ts BY <1>1, <3>1
    <3>4. b <= clock + 1 /\ t <= clock + 1 /\ b # NoBytes BY <1>2, <3>2, <3>3 DEF RowHist
    <3> QED BY <3>1, <3>3, <3>4 DEF RowHist
  <2> QED BY <2>1, <2>2
<1>4. \A i \in LiveRows(p)' : i = k \/ (i \in LiveRows(p) /\ rows'[i] = rows[i])
  BY DEF LiveRows
<1>5. k \in LiveRows(p)' => r.path = p /\ ~r.gone BY DEF LiveRows
<1>6. \A i, j \in LiveRows(p)' : i = j BY <1>4, <1>5 DEF Hist
<1>7. \A i \in LiveRows(p)' : Fair(local'[DirOf[s]][p], rows'[i])
  BY <1>4, <1>5 DEF Hist
<1>8. FileHist(local'[DirOf[s]][p], clock + 1)
  BY <1>2, PlainPath, FilesTyped DEF Hist, FileHist
<1> QED BY <1>3, <1>6, <1>7, <1>8 DEF Hist, FileHist, RowHist, Fair, LocalNewer, SameContent

-----------------------------------------------------------------------------
(* What a user or another client writes is the newest there is.            *)
LEMMA EditHist ==
  ASSUME TypeOK, TypeOK', Edit, NEW s \in Syncer, NEW p \in Plain, Hist(s, p)
  PROVE  Hist(s, p)'
<1>0. clock' = clock + 1 /\ clock \in Nat /\ p \in Path /\ DirOf[s] \in Dir
  BY PlainPath, SyncerAssumption
  DEF Edit, UserWrites, UserDeletes, RemoteAdds, RemoteEdits, RemoteTrashes, MayEdit, TypeOK
<1>1. /\ DOMAIN rows = RowIds /\ Len(rows) \in Nat /\ RowIds = 1 .. Len(rows)
      /\ DOMAIN rows' = 1 .. Len(rows')
  BY DEF TypeOK, RowIds
<1>2. \A i \in RowIds : rows[i].data \in Int /\ rows[i].ts \in Nat BY RowType
<1> PICK le : le = local[DirOf[s]][p] OBVIOUS
<1>3. le.data \in Int /\ le.mtime \in Nat /\ le.data <= clock /\ le.mtime <= clock
  BY <1>0, FilesTyped DEF Hist, FileHist
<1>4. ASSUME NEW d \in Dir, NEW q \in Path, NEW f, local' = [local EXCEPT ![d][q] = f],
             rows' = rows, f = NoFile \/ f = [data |-> clock + 1, mtime |-> clock + 1]
      PROVE  Hist(s, p)'
  <2>1. CASE d = DirOf[s] /\ q = p
    <3>1. local'[DirOf[s]][p] = f BY <1>0, <1>4, <2>1 DEF TypeOK
    <3>2. FileHist(f, clock + 1) BY <1>0, <1>4 DEF FileHist, NoFile, NoBytes
    <3>3. ASSUME NEW i \in LiveRows(p) PROVE Fair(f, rows[i])
      <4>0. i \in RowIds BY <1>1 DEF LiveRows
      <4>1. RowHist(rows[i], clock) BY <4>0 DEF Hist, LiveRows
      <4>2. PICK b \in Int, t \in Nat : b = rows[i].data /\ t = rows[i].ts BY <1>2, <4>0
      <4>3. clock + 1 > t /\ clock + 1 >= b BY <1>0, <4>1, <4>2 DEF RowHist
      <4>4. CASE f = NoFile BY <4>4 DEF Fair, NoFile, NoBytes, Whole
      <4>5. CASE f = [data |-> clock + 1, mtime |-> clock + 1]
        BY <4>2, <4>3, <4>5 DEF Fair, LocalNewer
      <4> QED BY <1>4, <4>4, <4>5
    <3> QED BY <1>0, <1>4, <3>1, <3>2, <3>3, FileChanges
  <2>2. CASE ~(d = DirOf[s] /\ q = p)
    <3>1. local'[DirOf[s]][p] = local[DirOf[s]][p] BY <1>0, <1>4, <2>2 DEF TypeOK
    <3> QED BY <1>0, <1>4, <3>1, FileStays
  <2> QED BY <2>1, <2>2
<1>5. ASSUME NEW r, r.data = clock + 1, r.ts \in {clock + 1, NoStamp}
      PROVE  RowHist(r, clock + 1) /\ Fair(le, r)
  <2>1. RowHist(r, clock + 1) BY <1>0, <1>5 DEF RowHist, NoBytes, NoStamp
  <2>2. ~(le.mtime > clock + 1) /\ clock + 1 > le.data BY <1>0, <1>3
  <2> QED BY <1>5, <2>1, <2>2 DEF Fair, LocalNewer
<1>6. CASE \E d \in Dir, q \in Path : UserWrites(d, q) \/ UserDeletes(d, q)
  <2>1. PICK d \in Dir, q \in Path : UserWrites(d, q) \/ UserDeletes(d, q) BY <1>6
  <2> QED BY <1>4, <2>1 DEF UserWrites, UserDeletes
<1>7. CASE \E q \in Path : RemoteAdds(q)
  <2>1. PICK q \in Path : RemoteAdds(q) BY <1>7
  <2>2. PICK sha \in {TRUE, ~ServerOmits},
             t \in {clock + 1} \cup (IF ServerOmits THEN {NoStamp} ELSE {}) :
          rows' = Append(rows, [NewRow(q, clock + 1, t) EXCEPT !.sha = sha])
    BY <2>1 DEF RemoteAdds
  <2> DEFINE r == [NewRow(q, clock + 1, t) EXCEPT !.sha = sha]
  <2>3. r.path = q /\ ~r.gone /\ r.data = clock + 1 /\ r.ts = t BY DEF NewRow
  <2>4. t \in {clock + 1, NoStamp} BY <2>2
  <2>5. RowHist(r, clock + 1) /\ Fair(le, r) BY <1>5, <2>3, <2>4
  <2>6. rows' = Append(rows, r) BY <2>2
  <2> HIDE DEF r
  <2>7. /\ Len(rows') = Len(rows) + 1 /\ rows'[Len(rows) + 1] = r
        /\ \A i \in DOMAIN rows : rows'[i] = rows[i]
    BY <1>1, <2>6
  <2>8. /\ DOMAIN rows' \subseteq DOMAIN rows \cup {Len(rows) + 1}
        /\ Len(rows) + 1 \in DOMAIN rows'
    BY <1>1, <2>7
  <2>9. LiveRows(q) = {} BY <2>1 DEF RemoteAdds
  <2>10. local' = local BY <2>1 DEF RemoteAdds
  <2>11. \A i \in DOMAIN rows' \ {Len(rows) + 1} : rows'[i] = rows[i] BY <2>7, <2>8
  <2>12. Len(rows) + 1 \in Nat BY <1>1
  <2> QED BY <1>0, <1>1, <2>3, <2>5, <2>7, <2>8, <2>9, <2>10, <2>11, <2>12, RowChanges
<1>8. CASE \E k \in DOMAIN rows : RemoteEdits(k) \/ RemoteTrashes(k)
  <2>1. PICK k \in DOMAIN rows : RemoteEdits(k) \/ RemoteTrashes(k) BY <1>8
  <2> DEFINE r == IF RemoteEdits(k)
                  THEN [rows[k] EXCEPT !.data = clock + 1, !.ts = clock + 1, !.sha = TRUE]
                  ELSE [rows[k] EXCEPT !.gone = TRUE]
  <2>2. rows[k] \in Row BY <1>1, RowType
  <2>3. rows' = [rows EXCEPT ![k] = r] /\ local' = local
    BY <2>1 DEF RemoteEdits, RemoteTrashes, Replaced
  <2>4. /\ r.path = rows[k].path
        /\ r.gone \/ (~rows[k].gone /\ r.data = clock + 1 /\ r.ts = clock + 1)
        /\ r.data = clock + 1 \/ r.data = rows[k].data
        /\ r.ts = clock + 1 \/ r.ts = rows[k].ts
    BY <2>1, <2>2 DEF Row, RemoteEdits, RemoteTrashes
  <2> HIDE DEF r
  <2>5. /\ Len(rows') = Len(rows) /\ DOMAIN rows' = DOMAIN rows /\ rows'[k] = r
        /\ \A i \in DOMAIN rows' \ {k} : rows'[i] = rows[i]
    BY <1>1, <2>3
  <2>6. r.path = p => RowHist(r, clock + 1)
    <3> SUFFICES ASSUME r.path = p PROVE RowHist(r, clock + 1) OBVIOUS
    <3>1. RowHist(rows[k], clock) BY <1>1, <2>4 DEF Hist
    <3>2. PICK b \in Int, t \in Nat : b = rows[k].data /\ t = rows[k].ts BY <1>1, <1>2
    <3>3. b <= clock + 1 /\ t <= clock + 1 /\ b # NoBytes BY <1>0, <3>1, <3>2 DEF RowHist
    <3>4. clock + 1 # NoBytes /\ clock + 1 <= clock + 1 BY <1>0 DEF NoBytes
    <3> QED BY <2>4, <3>2, <3>3, <3>4 DEF RowHist
  <2>7. r.path = p /\ ~r.gone => LiveRows(p) \subseteq {k} /\ Fair(le, r)
    <3> SUFFICES ASSUME r.path = p, ~r.gone PROVE LiveRows(p) \subseteq {k} /\ Fair(le, r)
      OBVIOUS
    <3>1. k \in LiveRows(p) BY <2>4 DEF LiveRows
    <3>2. LiveRows(p) \subseteq {k} BY <3>1 DEF Hist
    <3> QED BY <1>5, <2>4, <3>2
  <2>8. k \in Nat BY <1>1, <2>1
  <2> QED BY <1>0, <1>1, <2>1, <2>3, <2>5, <2>6, <2>7, <2>8, RowChanges
<1> QED BY <1>6, <1>7, <1>8 DEF Edit

-----------------------------------------------------------------------------
(* A pass that has the two sides to itself sees what is there.             *)
LEMMA SeesIt ==
  ASSUME ViewInv, NEW s \in Syncer, quiet[s], NEW c \in Sure(s), cur[s] = c,
         fetch[s] = NoFetch, pc[s] = "push" \/ (pc[s] = "pull" /\ scanned[s][c] = NoFile)
  PROVE  SeenNow(s, c)
<1>1. InLoop(s) BY DEF ViewInv, View, Knowledge
<1>2. Ahead(s, c) BY DEF Ahead, Todo
<1> QED BY <1>1, <1>2 DEF InLoop

(* An upload writes one row, which then holds what is on disk.             *)
Stores(c, k, r, le) ==
  /\ local' = local /\ clock' = clock + 1
  /\ DOMAIN rows' = DOMAIN rows \cup {k} /\ rows'[k] = r
  /\ \A i \in DOMAIN rows' \ {k} : rows'[i] = rows[i]
  /\ le # NoFile /\ r.path = c /\ r.data = le.data /\ r.ts = clock + 1 /\ r.sha /\ ~r.gone

LEMMA NewRowStored ==
  ASSUME ViewInv, NEW s \in Syncer, quiet[s], PushNew(s), NEW c \in Path, cur[s] = c
  PROVE  \/ UNCHANGED <<local, rows, clock>>
         \/ \E r : /\ Stores(c, Len(rows) + 1, r, local[DirOf[s]][c])
                   /\ c \notin Suffixed => LiveRows(c) = {}
<1> SUFFICES ASSUME ~UNCHANGED <<local, rows, clock>>
             PROVE  \E r : /\ Stores(c, Len(rows) + 1, r, local[DirOf[s]][c])
                           /\ c \notin Suffixed => LiveRows(c) = {}
  OBVIOUS
<1>0. TypeOK /\ Len(rows) \in Nat /\ DOMAIN rows = 1 .. Len(rows)
  BY DEF ViewInv, EngineInv, TypeOK
<1> DEFINE r == NewRow(c, OnDisk(s).data, clock + 1)
<1>1. r \in Row /\ r.path = c /\ r.data = OnDisk(s).data /\ r.ts = clock + 1 /\ r.sha /\ ~r.gone
  BY <1>0, OnDiskType, NewRowType DEF NewRow
<1>2. rows' = Append(rows, r) /\ local' = local /\ clock' = clock + 1 /\ OnDisk(s) # NoFile
  BY DEF PushNew, Sends, NoWrite, Uploaded
<1> HIDE DEF r
<1>3. /\ DOMAIN rows' = DOMAIN rows \cup {Len(rows) + 1} /\ rows'[Len(rows) + 1] = r
      /\ \A i \in DOMAIN rows' \ {Len(rows) + 1} : rows'[i] = rows[i]
  <2>1. rows \in Seq(Row) BY <1>0 DEF TypeOK
  <2>2. /\ DOMAIN rows' = 1 .. Len(rows) + 1 /\ rows'[Len(rows) + 1] = r
        /\ \A i \in DOMAIN rows : rows'[i] = rows[i]
    BY <1>1, <1>2, <2>1
  <2> QED BY <1>0, <2>2
<1>4. Stores(c, Len(rows) + 1, r, local[DirOf[s]][c])
  BY <1>1, <1>2, <1>3 DEF Stores, OnDisk
<1>5. c \notin Suffixed => LiveRows(c) = {}
  <2> SUFFICES ASSUME c \notin Suffixed PROVE LiveRows(c) = {} OBVIOUS
  <2>1. SeenNow(s, c) BY SeesIt DEF Sure, PushNew, At
  <2>2. listed[s][c].id = 0 BY DEF PushNew, OnRemote
  <2>3. KeptFor(c, 0) BY <2>1, <2>2 DEF SeenNow, ListedNow
  <2>4. 0 \notin LiveRows(c) BY <1>0 DEF LiveRows
  <2> QED BY <2>3, <2>4 DEF KeptFor
<1> QED BY <1>4, <1>5

LEMMA RowReplaced ==
  ASSUME ViewInv, NEW s \in Syncer, quiet[s], ReplaceRemote(s), NEW c \in Path, cur[s] = c,
         NEW k, k = listed[s][c].id
  PROVE  /\ k \in LiveRows(c) /\ listed[s][c] = EntryOf(k) /\ k # 0
         /\ SeenNow(s, c)
         /\ \/ UNCHANGED <<local, rows, clock>>
            \/ \E r : Stores(c, k, r, local[DirOf[s]][c])
<1>0. TypeOK /\ Len(rows) \in Nat /\ DOMAIN rows = 1 .. Len(rows) /\ DOMAIN rows = RowIds
  BY DEF ViewInv, EngineInv, TypeOK, RowIds
<1>1. SeenNow(s, c) BY SeesIt, SurePaths DEF ReplaceRemote, Newest, At
<1>2. k \in RowIds BY <1>0, ListedRow DEF ReplaceRemote, Differs
<1>3. k \in LiveRows(c) /\ listed[s][c] = EntryOf(k) /\ k # 0
  BY <1>1, <1>2 DEF SeenNow, ListedNow, KeptFor, RowIds
<1>4. ASSUME ~UNCHANGED <<local, rows, clock>>
      PROVE  \E r : Stores(c, k, r, local[DirOf[s]][c])
  <2> DEFINE r == [rows[k] EXCEPT !.data = OnDisk(s).data, !.ts = clock + 1, !.sha = TRUE]
  <2>1. rows[k] \in Row /\ rows[k].path = c /\ ~rows[k].gone
    BY <1>0, <1>2, <1>3, RowType DEF LiveRows
  <2>2. r.path = c /\ r.data = OnDisk(s).data /\ r.ts = clock + 1 /\ r.sha /\ ~r.gone
    BY <2>1 DEF Row
  <2>3. /\ rows' = Replaced(k, OnDisk(s).data, clock + 1)
        /\ local' = local /\ clock' = clock + 1 /\ OnDisk(s) # NoFile
    BY <1>4 DEF ReplaceRemote, Sends, NoWrite
  <2>4. rows' = [rows EXCEPT ![k] = r] BY <1>0, <1>2, <2>3 DEF Replaced
  <2> HIDE DEF r
  <2>5. DOMAIN rows' = DOMAIN rows \cup {k} /\ rows'[k] = r
        /\ \A i \in DOMAIN rows' \ {k} : rows'[i] = rows[i]
    BY <1>0, <1>2, <2>4
  <2>6. Stores(c, k, r, local[DirOf[s]][c])
    BY <2>2, <2>3, <2>5 DEF Stores, OnDisk
  <2> QED BY <2>6
<1> QED BY <1>1, <1>3, <1>4

LEMMA PushHist ==
  ASSUME ViewInv, TypeOK', NEW t \in Syncer, quiet[t], PushNew(t) \/ ReplaceRemote(t),
         NEW s \in Syncer, DirOf[s] = DirOf[t], NEW p \in Plain, Hist(s, p)
  PROVE  Hist(s, p)'
<1>0. TypeOK /\ Len(rows) \in Nat /\ DOMAIN rows = 1 .. Len(rows) /\ clock \in Nat
      /\ DOMAIN rows' = 1 .. Len(rows') /\ p \in Path /\ p \notin Suffixed
  BY PlainPath DEF ViewInv, EngineInv, TypeOK
<1> PICK le : le = local[DirOf[s]][p] OBVIOUS
<1>1. le.data \in Int /\ le.mtime \in Nat /\ FileHist(le, clock)
  BY <1>0, FilesTyped DEF Hist
<1>2. ASSUME NEW c \in Path, NEW k \in Nat, NEW r, Stores(c, k, r, local[DirOf[s]][c]),
             c \notin Suffixed => LiveRows(c) = {} \/ k \in LiveRows(c)
      PROVE  Hist(s, p)'
  <2>1. r.path = p => RowHist(r, clock + 1) /\ Fair(le, r)
    <3> SUFFICES ASSUME c = p PROVE RowHist(r, clock + 1) /\ Fair(le, r)
      BY <1>2 DEF Stores
    <3>1. r.data = le.data /\ r.ts = clock + 1 /\ r.sha /\ le # NoFile
      BY <1>2 DEF Stores
    <3>2. PICK b \in Int, m \in Nat : b = le.data /\ m = le.mtime BY <1>1
    <3>3. b <= clock + 1 /\ b # NoBytes /\ ~(m > clock + 1) /\ clock + 1 <= clock + 1
      BY <1>0, <1>1, <3>1, <3>2 DEF FileHist
    <3> QED BY <3>1, <3>2, <3>3 DEF RowHist, Fair, LocalNewer, SameContent
  <2>2. r.path = p => LiveRows(p) \subseteq {k}
    <3> SUFFICES ASSUME c = p PROVE LiveRows(p) \subseteq {k} BY <1>2 DEF Stores
    <3> QED BY <1>0, <1>2 DEF Hist
  <2>3. /\ local' = local /\ clock' = clock + 1 /\ k \in DOMAIN rows' /\ rows'[k] = r
        /\ DOMAIN rows' \subseteq DOMAIN rows \cup {k}
        /\ \A i \in DOMAIN rows' \ {k} : rows'[i] = rows[i]
    BY <1>2 DEF Stores
  <2> QED BY <1>0, <2>1, <2>2, <2>3, RowChanges
<1>3. cur[t] \in Path BY DEF PushNew, ReplaceRemote, At
<1> PICK c \in Path : cur[t] = c BY <1>3
<1>4. CASE UNCHANGED <<local, rows, clock>> BY <1>4, SameHist
<1>5. CASE ~UNCHANGED <<local, rows, clock>> /\ PushNew(t)
  <2>1. Len(rows) + 1 \in Nat BY <1>0
  <2> QED BY <1>2, <1>5, <2>1, NewRowStored
<1>6. CASE ~UNCHANGED <<local, rows, clock>> /\ ReplaceRemote(t)
  <2> PICK k : k = listed[t][c].id OBVIOUS
  <2>1. k \in LiveRows(c) /\ \E r : Stores(c, k, r, local[DirOf[s]][c])
    BY <1>6, RowReplaced
  <2>2. k \in Nat BY <1>0, <2>1 DEF LiveRows
  <2> QED BY <1>2, <2>1, <2>2
<1> QED BY <1>4, <1>5, <1>6

-----------------------------------------------------------------------------
(* A download writes one path, with what the row there holds.              *)

LEMMA Truncates ==
  ASSUME ViewInv, NEW s \in Syncer, quiet[s], PullNewer(s) \/ KeepBoth(s) \/ PullMissing(s),
         NEW p \in Plain
  PROVE  \/ UNCHANGED <<local, rows, clock>>
         \/ /\ rows' = rows /\ clock' = clock + 1
            /\ \/ local'[DirOf[s]][p] = local[DirOf[s]][p]
               \/ /\ cur[s] = p /\ SeenNow(s, p)
                  /\ \E k \in LiveRows(p) :
                       /\ k # 0 /\ listed[s][p] = EntryOf(k)
                       /\ local'[DirOf[s]][p] =
                            [data |-> Cut(rows[k].data), mtime |-> clock + 1]
<1>0. TypeOK /\ p \in Path /\ p \notin Suffixed /\ DirOf[s] \in Dir
  BY PlainPath, SyncerAssumption DEF ViewInv, EngineInv
<1>1. /\ cur[s] \in Path /\ fetch[s] = NoFetch /\ OnRemote(s)
      /\ pc[s] = "push" \/ (pc[s] = "pull" /\ ~Known(s))
  BY DEF PullNewer, KeepBoth, PullMissing, At, Differs, RemoteOnly
<1> PICK c \in Path : cur[s] = c BY <1>1
<1>2. PICK to \in {c, Alt[c]}, counts \in {{}, {"conflicts"}} : OpenTarget(s, to, counts)
  BY DEF PullNewer, KeepBoth, PullMissing
<1> PICK k : k = listed[s][c].id OBVIOUS
<1> SUFFICES ASSUME ~UNCHANGED <<local, rows, clock>>,
                    local'[DirOf[s]][p] # local[DirOf[s]][p]
             PROVE  /\ rows' = rows /\ clock' = clock + 1 /\ c = p /\ SeenNow(s, p)
                    /\ k \in LiveRows(p) /\ k # 0 /\ listed[s][p] = EntryOf(k)
                    /\ local'[DirOf[s]][p] =
                         [data |-> Cut(rows[k].data), mtime |-> clock + 1]
  BY <1>2 DEF OpenTarget, NoWrite
<1>3. /\ rows' = rows /\ clock' = clock + 1
      /\ local' = IF to = 0 THEN local
                  ELSE [local EXCEPT ![DirOf[s]][to] =
                         [data |-> Cut(rows[k].data), mtime |-> clock + 1]]
  BY <1>2 DEF OpenTarget, NoWrite
<1>4. to = p BY <1>0, <1>3 DEF TypeOK
<1>5. c = p
  <2>1. Alt[c] \in Suffixed BY DEF Suffixed
  <2> QED BY <1>0, <1>2, <1>4, <2>1
<1>6. SeenNow(s, c) BY <1>0, <1>1, <1>5, SeesIt DEF Sure, Known
<1>7. k # 0 /\ k \in LiveRows(c) /\ listed[s][c] = EntryOf(k)
  BY <1>1, <1>6 DEF OnRemote, SeenNow, ListedNow, KeptFor
<1>8. local'[DirOf[s]][p] = [data |-> Cut(rows[k].data), mtime |-> clock + 1]
  BY <1>0, <1>3, <1>4 DEF TypeOK, Path
<1> QED BY <1>3, <1>5, <1>6, <1>7, <1>8

LEMMA Completes ==
  ASSUME ViewInv, NEW s \in Syncer, quiet[s], FetchDone(s), NEW p \in Plain
  PROVE  /\ rows' = rows /\ clock' = clock + 1
         /\ \/ local'[DirOf[s]][p] = local[DirOf[s]][p]
            \/ /\ ~Whole(local[DirOf[s]][p].data)
               /\ \E k \in LiveRows(p) :
                    local'[DirOf[s]][p] = [data |-> rows[k].data, mtime |-> clock + 1]
<1>0. TypeOK /\ FetchOK(s) /\ p \in Path /\ p \notin Suffixed /\ DirOf[s] \in Dir
  BY PlainPath, SyncerAssumption DEF ViewInv, EngineInv
<1> PICK f : f = fetch[s] OBVIOUS
<1>1. /\ f # NoFetch /\ f.id # 0 /\ rows' = rows /\ clock' = clock + 1
      /\ pc[s] \in {"push", "pull"}
  BY <1>0 DEF FetchDone, FetchOK
<1> SUFFICES ASSUME local'[DirOf[s]][p] # local[DirOf[s]][p]
             PROVE  /\ ~Whole(local[DirOf[s]][p].data) /\ f.id \in LiveRows(p)
                    /\ local'[DirOf[s]][p] = [data |-> rows[f.id].data, mtime |-> clock + 1]
  BY <1>1
<1>2. f.to = p
  <2>1. f.to \in Path \/ f.to = 0 BY <1>0 DEF TypeOK, PassTypeOK, Path
  <2>2. ASSUME f.to # p PROVE local'[DirOf[s]][p] = local[DirOf[s]][p]
    BY <1>0, <2>1, <2>2 DEF FetchDone, TypeOK
  <2> QED BY <2>2
<1>3. f.data = rows[f.id].data /\ KeptFor(p, f.id) /\ ~Whole(local[DirOf[s]][p].data)
  BY <1>0, <1>1, <1>2 DEF ViewInv, View, Knowledge, InLoop, FetchNow, Sure
<1>4. f.id \in LiveRows(p) BY <1>1, <1>3 DEF KeptFor
<1>5. local'[DirOf[s]][p] = [data |-> rows[f.id].data, mtime |-> clock + 1]
  BY <1>0, <1>2, <1>3 DEF FetchDone, TypeOK
<1> QED BY <1>3, <1>4, <1>5

LEMMA PullHist ==
  ASSUME ViewInv, NEW t \in Syncer, quiet[t],
         PullNewer(t) \/ KeepBoth(t) \/ PullMissing(t) \/ FetchDone(t),
         NEW s \in Syncer, DirOf[s] = DirOf[t], NEW p \in Plain, Hist(s, p)
  PROVE  Hist(s, p)'
<1>0. TypeOK /\ clock \in Nat /\ DOMAIN rows = RowIds
  BY DEF ViewInv, EngineInv, TypeOK, RowIds
<1>1. CASE UNCHANGED <<local, rows, clock>> BY <1>1, SameHist
<1>2. CASE rows' = rows /\ clock' = clock + 1 /\ local'[DirOf[s]][p] = local[DirOf[s]][p]
  BY <1>0, <1>2, FileStays
<1>3. ASSUME NEW k \in LiveRows(p), NEW b, rows' = rows, clock' = clock + 1,
             b = rows[k].data \/ b = Cut(rows[k].data),
             local'[DirOf[s]][p] = [data |-> b, mtime |-> clock + 1]
      PROVE  Hist(s, p)'
  <2>1. k \in RowIds /\ rows[k].path = p BY <1>0 DEF LiveRows
  <2>2. RowHist(rows[k], clock) BY <2>1 DEF Hist
  <2>3. PICK a \in Int, t0 \in Nat : a = rows[k].data /\ t0 = rows[k].ts
    BY <1>0, <2>1, RowType
  <2>4. a <= clock /\ t0 <= clock /\ a # 0 BY <2>2, <2>3 DEF RowHist, NoBytes
  <2>5. b = a \/ (b # 0 /\ b <= clock + 1 /\ ~(b > 0))
    BY <1>0, <1>3, <2>3, <2>4 DEF Cut
  <2>6. b # 0 /\ b <= clock + 1 BY <1>0, <2>4, <2>5
  <2> DEFINE f == [data |-> b, mtime |-> clock + 1]
  <2>7. FileHist(f, clock + 1) BY <1>0, <2>6 DEF FileHist, NoBytes
  <2>8. ASSUME NEW i \in LiveRows(p) PROVE Fair(f, rows[i])
    <3>1. i = k BY DEF Hist
    <3>2. CASE ~(b > 0) BY <3>2 DEF Fair, Whole
    <3>3. CASE b = a
      <4>1. clock + 1 > t0 /\ a >= a BY <1>0, <2>3, <2>4
      <4> QED BY <2>3, <3>1, <3>3, <4>1 DEF Fair, LocalNewer
    <3> QED BY <2>5, <3>2, <3>3
  <2>9. local'[DirOf[s]][p] = f BY <1>3
  <2> HIDE DEF f
  <2> QED BY <1>0, <1>3, <2>7, <2>8, <2>9, FileChanges
<1>4. CASE FetchDone(t) BY <1>2, <1>3, <1>4, Completes
<1>5. CASE PullNewer(t) \/ KeepBoth(t) \/ PullMissing(t)
  <2>1. CASE UNCHANGED <<local, rows, clock>> BY <1>1, <2>1
  <2>2. CASE ~UNCHANGED <<local, rows, clock>>
    <3>1. rows' = rows /\ clock' = clock + 1 BY <1>5, <2>2, Truncates
    <3>2. CASE local'[DirOf[s]][p] = local[DirOf[s]][p] BY <1>2, <3>1, <3>2
    <3>3. CASE local'[DirOf[s]][p] # local[DirOf[s]][p]
      <4>1. PICK k \in LiveRows(p) :
              local'[DirOf[s]][p] = [data |-> Cut(rows[k].data), mtime |-> clock + 1]
        BY <1>5, <2>2, <3>3, Truncates
      <4> QED BY <1>3, <3>1, <4>1
    <3> QED BY <3>2, <3>3
  <2> QED BY <2>1, <2>2
<1> QED BY <1>4, <1>5

-----------------------------------------------------------------------------
(* While no write has met a pass, a pass under way is undisturbed.         *)
LEMMA Uncrosses ==
  ASSUME TypeOK, NEW t \in Syncer, FetchOK(t), Work(t) \/ Mishap(t), alone',
         alone => Uncrossed
  PROVE  alone /\ Uncrossed'
<1>1. ASSUME NEW s \in Syncer \ {t} PROVE pc'[s] = pc[s]
  BY OneAtATime, <1>1 DEF Alone
<1>2. CASE ListRemote(t)
  <2>1. alone /\ quiet' = [quiet EXCEPT ![t] = TRUE] BY <1>2 DEF ListRemote
  <2> QED BY <1>1, <2>1 DEF Uncrossed, InPass, TypeOK
<1>3. CASE ~ListRemote(t)
  <2>1. NoWrite \/ Wrote(t)
    BY <1>3 DEF Work, Mishap, ScanLocal, LeaveAlone, PushNew, ReplaceRemote, SkipConflict,
                PullNewer, KeepBoth, PushLoopEnds, PassOver, PullMissing, PullLoopEnds,
                FetchDone, FetchFails, ScanFails, Cancel, Killed, Sends, OpenTarget
  <2>2. alone BY <2>1 DEF NoWrite, Wrote, TypeOK
  <2>3. ASSUME NEW s \in Syncer, InPass(s)' PROVE quiet'[s]
    <3>1. InPass(s)
      <4>1. CASE s = t
        <5>1. Work(t) => InPass(t)
          <6>1. fetch[t] # NoFetch => InPass(t) BY DEF FetchOK, InPass
          <6> QED BY <1>3, <6>1
          DEF Work, InPass, ScanLocal, LeaveAlone, PushNew, ReplaceRemote, SkipConflict,
              PullNewer, KeepBoth, PushLoopEnds, PassOver, PullMissing, PullLoopEnds,
              RemoteOnly, At, FetchDone, FetchFails
        <5>2. Mishap(t) => InPass(t)
          BY DEF Mishap, InPass, ScanFails, Cancel, Killed
        <5> QED BY <4>1, <5>1, <5>2
      <4>2. CASE s # t BY <1>1, <2>3, <4>2 DEF InPass
      <4> QED BY <4>1, <4>2
    <3>2. quiet[s] BY <2>2, <3>1 DEF Uncrossed
    <3>3. CASE NoWrite BY <3>2, <3>3 DEF NoWrite
    <3>4. CASE Wrote(t)
      <4>1. s = t BY <3>1, <3>4 DEF Wrote, TypeOK
      <4> QED BY <3>2, <3>4, <4>1 DEF Wrote, TypeOK
    <3> QED BY <2>1, <3>3, <3>4
  <2> QED BY <2>2, <2>3 DEF Uncrossed
<1> QED BY <1>2, <1>3

LEMMA WorkHist ==
  ASSUME HistInv, TypeOK', OneDevice, alone, NEW t \in Syncer, Work(t) \/ Mishap(t),
         NEW s \in Syncer, NEW p \in Plain
  PROVE  Hist(s, p)'
<1>0. /\ ViewInv /\ TypeOK /\ FetchOK(t) /\ Hist(s, p) /\ DirOf[s] = DirOf[t]
      /\ InPass(t) => quiet[t]
  BY DEF HistInv, History, Uncrossed, OneDevice, ViewInv, EngineInv
<1>1. CASE PushNew(t) \/ ReplaceRemote(t)
  <2>1. InPass(t) BY <1>1 DEF PushNew, ReplaceRemote, At, InPass
  <2> QED BY <1>0, <1>1, <2>1, PushHist
<1>2. CASE PullNewer(t) \/ KeepBoth(t) \/ PullMissing(t) \/ FetchDone(t)
  <2>1. InPass(t)
    BY <1>0, <1>2 DEF PullNewer, KeepBoth, PullMissing, RemoteOnly, At, InPass, FetchDone, FetchOK
  <2> QED BY <1>0, <1>2, <2>1, PullHist
<1>3. CASE ~(PushNew(t) \/ ReplaceRemote(t) \/ PullNewer(t) \/ KeepBoth(t) \/ PullMissing(t)
             \/ FetchDone(t))
  <2>1. UNCHANGED <<local, rows, clock>>
    BY <1>3 DEF Work, Mishap, ListRemote, ScanLocal, LeaveAlone, SkipConflict, PushLoopEnds,
                PassOver, PullLoopEnds, FetchFails, ScanFails, Cancel, Killed, NoWrite
  <2> QED BY <1>0, <2>1, SameHist
<1> QED BY <1>1, <1>2, <1>3

LEMMA HistStep == HistInv /\ [Next]_vars => HistInv'
<1> SUFFICES ASSUME HistInv, [Next]_vars PROVE HistInv' OBVIOUS
<1>0. ViewInv' /\ TypeOK /\ TypeOK'
  BY ViewStep DEF HistInv, ViewInv, EngineInv
<1> SUFFICES ASSUME OneDevice, alone' PROVE History'
  BY <1>0 DEF HistInv, OneDevice, History
<1>1. CASE Edit
  <2>1. alone /\ (\A s \in Syncer : ~InPass(s)) /\ pc' = pc
    BY <1>0, <1>1 DEF Edit, UserWrites, UserDeletes, RemoteAdds, RemoteEdits, RemoteTrashes,
                      MayEdit, passVars, TypeOK
  <2>2. Uncrossed' BY <2>1 DEF Uncrossed, InPass
  <2>3. \A s \in Syncer, p \in Plain : Hist(s, p)'
    BY <1>0, <1>1, <2>1, EditHist DEF HistInv, History
  <2> QED BY <2>2, <2>3 DEF History, Plain, Suffixed
<1>2. ASSUME NEW t \in Syncer, Work(t) \/ Mishap(t) PROVE History'
  <2>1. (alone => Uncrossed) /\ FetchOK(t) BY DEF HistInv, History, ViewInv, EngineInv
  <2>2. alone /\ Uncrossed' BY <1>0, <1>2, <2>1, Uncrosses
  <2>4. \A s \in Syncer, p \in Plain : Hist(s, p)' BY <1>0, <1>2, <2>2, WorkHist
  <2> QED BY <2>2, <2>4 DEF History, Plain, Suffixed
<1>3. CASE UNCHANGED vars
  <2>1. alone /\ Uncrossed' BY <1>3 DEF vars, HistInv, History, Uncrossed, InPass
  <2>2. \A s \in Syncer, p \in Plain : Hist(s, p)'
    BY <1>3, <2>1, SameHist DEF vars, HistInv, History
  <2> QED BY <2>1, <2>2 DEF History, Plain, Suffixed
<1> QED BY <1>1, <1>2, <1>3 DEF Next

-----------------------------------------------------------------------------
LEMMA NewerKept ==
  ASSUME ViewInv, NEW s \in Syncer, InPass(s) => quiet[s], Work(s) \/ Mishap(s),
         NEW p \in Plain, Hist(s, p), SawWhole(s, p)
  PROVE  NewestStep(s, p)
<1>0. TypeOK /\ FetchOK(s) /\ p \in Path /\ p \notin Hidden /\ p \notin Suffixed /\ clock \in Nat
      /\ DOMAIN rows = RowIds
  BY PlainPath DEF ViewInv, EngineInv, TypeOK, RowIds
<1> PICK le : le = local[DirOf[s]][p] OBVIOUS
<1>1. PICK was \in Int, m \in Nat : was = le.data /\ m = le.mtime BY <1>0, FilesTyped
<1>2. FileHist(le, clock) BY DEF Hist
<1> SUFFICES ASSUME opts[s].conflict = "newest"
             PROVE  /\ Whole(was) /\ local'[DirOf[s]][p].data # was
                         => Age(local'[DirOf[s]][p].data) > was
                    /\ \A i \in DOMAIN rows :
                         rows[i].path = p /\ Whole(rows[i].data) /\ rows'[i].data # rows[i].data
                           => rows'[i].data > rows[i].data
  BY <1>1 DEF NewestStep
(* What the engine compares is what is there.                              *)
<1>3. ASSUME NEW k \in LiveRows(p), SeenNow(s, p), listed[s][p] = EntryOf(k), k # 0, Whole(was)
      PROVE  \E b \in Int, t \in Nat :
               /\ b = rows[k].data /\ t = rows[k].ts /\ b > 0
               /\ LocalNewer(scanned[s][p], listed[s][p]) => was >= b
               /\ ~LocalNewer(scanned[s][p], listed[s][p])
                    => b > was \/ SameContent(scanned[s][p], listed[s][p])
  <2>1. k \in RowIds /\ rows[k].path = p BY <1>0 DEF LiveRows
  <2>2. PICK b \in Int, t \in Nat : b = rows[k].data /\ t = rows[k].ts BY <1>0, <2>1, RowType
  <2>3. RowHist(rows[k], clock) BY <2>1 DEF Hist
  <2> PICK e, r : e = listed[s][p] /\ r = rows[k] OBVIOUS
  <2>4. scanned[s][p] = le BY <1>0, <1>3 DEF SeenNow
  <2>5. e.id # 0 /\ e.data = b /\ e.ts = t /\ e.sha = r.sha
    BY <1>3, <2>2 DEF EntryOf
  <2>6. b >= 0 /\ t # NoStamp BY <2>5 DEF SawWhole
  <2>7. b > 0 BY <2>2, <2>3, <2>6 DEF RowHist, NoBytes
  <2>8. Fair(le, r) BY DEF Hist
  <2>9. IF m > t THEN was >= b ELSE b > was \/ (r.sha /\ r.data = le.data)
    BY <1>1, <1>3, <2>2, <2>6, <2>7, <2>8 DEF Fair, LocalNewer, SameContent, Whole
  <2>10. LocalNewer(scanned[s][p], listed[s][p]) <=> m > t
    BY <1>1, <2>4, <2>5, <2>6 DEF LocalNewer
  <2>11. SameContent(scanned[s][p], listed[s][p]) <=> (r.sha /\ r.data = le.data)
    BY <2>2, <2>4, <2>5 DEF SameContent
  <2> QED BY <2>2, <2>7, <2>9, <2>10, <2>11
<1>4. CASE UNCHANGED <<local, rows, clock>> BY <1>1, <1>4
<1>5. CASE PushNew(s) /\ ~UNCHANGED <<local, rows, clock>>
  <2>1. cur[s] \in Path /\ quiet[s] BY <1>5 DEF PushNew, At, InPass
  <2> PICK c \in Path : cur[s] = c BY <2>1
  <2>2. PICK r : Stores(c, Len(rows) + 1, r, local[DirOf[s]][c])
    BY <1>5, <2>1, NewRowStored
  <2>3. Len(rows) + 1 \notin DOMAIN rows BY <1>0 DEF TypeOK, RowIds
  <2>4. local' = local /\ \A i \in DOMAIN rows : rows'[i] = rows[i]
    BY <2>2, <2>3 DEF Stores
  <2> QED BY <1>1, <2>4
<1>6. CASE ReplaceRemote(s) /\ ~UNCHANGED <<local, rows, clock>>
  <2>1. cur[s] \in Path /\ quiet[s] BY <1>6 DEF ReplaceRemote, At, InPass
  <2> PICK c \in Path : cur[s] = c BY <2>1
  <2> PICK k : k = listed[s][c].id OBVIOUS
  <2>2. /\ k \in LiveRows(c) /\ listed[s][c] = EntryOf(k) /\ k # 0 /\ SeenNow(s, c)
        /\ \E r : Stores(c, k, r, local[DirOf[s]][c])
    BY <1>6, <2>1, RowReplaced
  <2>3. PICK r : Stores(c, k, r, local[DirOf[s]][c]) BY <2>2
  <2>4. local' = local /\ rows'[k].data = local[DirOf[s]][c].data
        /\ \A i \in DOMAIN rows \ {k} : rows'[i] = rows[i]
    BY <2>3 DEF Stores
  <2> SUFFICES ASSUME rows[k].path = p, Whole(rows[k].data), rows'[k].data # rows[k].data
               PROVE  rows'[k].data > rows[k].data
    BY <1>1, <2>4
  <2>5. c = p BY <2>2 DEF LiveRows
  <2>6. LocalNewer(scanned[s][p], listed[s][p]) /\ scanned[s][p] # NoFile
    BY <1>6, <2>5 DEF ReplaceRemote, Differs, Known
  <2>7. scanned[s][p] = le BY <1>0, <2>2, <2>5 DEF SeenNow
  <2>8. was >= 0 /\ was # 0
    BY <1>1, <1>2, <2>6, <2>7 DEF SawWhole, FileHist, NoBytes
  <2>9. Whole(was) BY <2>8 DEF Whole
  <2>10. PICK b \in Int : b = rows[k].data /\ was >= b
    BY <1>3, <2>2, <2>5, <2>6, <2>9
  <2>11. rows'[k].data = was BY <1>1, <2>4, <2>5
  <2> QED BY <2>10, <2>11
<1>7. CASE (PullNewer(s) \/ KeepBoth(s) \/ PullMissing(s)) /\ ~UNCHANGED <<local, rows, clock>>
  <2>1. InPass(s) /\ quiet[s]
    BY <1>7 DEF PullNewer, KeepBoth, PullMissing, RemoteOnly, At, InPass
  <2>2. rows' = rows BY <1>7, <2>1, Truncates
  <2> SUFFICES ASSUME Whole(was), local'[DirOf[s]][p].data # was
               PROVE  Age(local'[DirOf[s]][p].data) > was
    BY <2>2
  <2>3. /\ cur[s] = p /\ SeenNow(s, p)
        /\ \E k \in LiveRows(p) :
             /\ k # 0 /\ listed[s][p] = EntryOf(k)
             /\ local'[DirOf[s]][p] = [data |-> Cut(rows[k].data), mtime |-> clock + 1]
    BY <1>1, <1>7, <2>1, Truncates
  <2>4. PICK k \in LiveRows(p) :
             /\ k # 0 /\ listed[s][p] = EntryOf(k)
             /\ local'[DirOf[s]][p] = [data |-> Cut(rows[k].data), mtime |-> clock + 1]
    BY <2>3
  <2>5. PICK b \in Int :
          /\ b = rows[k].data /\ b > 0
          /\ ~LocalNewer(scanned[s][p], listed[s][p])
               => b > was \/ SameContent(scanned[s][p], listed[s][p])
    BY <1>3, <2>3, <2>4
  <2>6. scanned[s][p] = le /\ le # NoFile
    BY <1>0, <1>1, <2>3 DEF SeenNow, NoFile, NoBytes, Whole
  <2>7. PullNewer(s)
    BY <1>7, <2>3, <2>6 DEF KeepBoth, PullMissing, RemoteOnly, Known
  <2>8. b > was BY <2>3, <2>5, <2>7 DEF PullNewer, Differs
  <2>9. Age(Cut(b)) = b
    <3>1. Cut(b) = -b BY <2>5 DEF Cut
    <3>2. -b < 0 /\ -(-b) = b BY <2>5
    <3> QED BY <3>1, <3>2 DEF Age
  <2>10. local'[DirOf[s]][p].data = Cut(b) BY <2>4, <2>5
  <2> QED BY <2>8, <2>9, <2>10
<1>8. CASE FetchDone(s)
  <2>1. quiet[s] BY <1>0, <1>8 DEF FetchDone, FetchOK, InPass
  <2>2. rows' = rows /\ (local'[DirOf[s]][p] = le \/ ~Whole(was))
    BY <1>1, <1>8, <2>1, Completes
  <2> QED BY <1>1, <2>2
<1>9. CASE ~(PushNew(s) \/ ReplaceRemote(s) \/ PullNewer(s) \/ KeepBoth(s) \/ PullMissing(s)
             \/ FetchDone(s))
  <2>1. UNCHANGED <<local, rows, clock>>
    BY <1>9 DEF Work, Mishap, ListRemote, ScanLocal, LeaveAlone, SkipConflict, PushLoopEnds,
                PassOver, PullLoopEnds, FetchFails, ScanFails, Cancel, Killed, NoWrite
  <2> QED BY <1>4, <2>1
<1> QED BY <1>4, <1>5, <1>6, <1>7, <1>8, <1>9

(* However long the history of edits, faults and passes of any options on  *)
(* one device, as long as no write met a pass: a newest pass that saw      *)
(* whole, dated files replaces nothing by an older version.                *)
THEOREM NewestNeverGoesBack == Spec => NewestKeepsNewerAlone
<1>1. HistInv /\ [Next]_vars =>
        (OneDevice /\ alone => \A s \in Syncer, p \in Path \ (Hidden \cup Suffixed) :
           StepOf(s) /\ SawWhole(s, p) => NewestStep(s, p))
  <2> SUFFICES ASSUME HistInv, [Next]_vars, OneDevice, alone, NEW s \in Syncer, NEW p \in Plain,
                      StepOf(s), SawWhole(s, p)
               PROVE  NewestStep(s, p)
    BY DEF Plain
  <2>1. ViewInv /\ TypeOK /\ Hist(s, p) /\ (InPass(s) => quiet[s])
    BY DEF HistInv, History, Uncrossed, ViewInv, EngineInv
  <2>2. Work(s) \/ Mishap(s) BY <2>1, ItsOwnStep
  <2> QED BY <2>1, <2>2, NewerKept
<1> QED BY <1>1, HistStarts, HistStep, PTL DEF Spec, NewestKeepsNewerAlone
=============================================================================
