------------------------------ MODULE SyncConfig ------------------------------
(***************************************************************************)
(* internal/syncconfig as it works on sync.json: every operation loads the *)
(* file, changes its copy, writes sync.json.tmp and renames it into place. *)
(* The package mutex serialises the operations of one process; the CLI and *)
(* the tray are separate processes on the same file.                       *)
(*                                                                         *)
(* A file is an inode: os.WriteFile truncates the inode that the temporary *)
(* name refers to, or makes a new one, and a rename moves the name only.   *)
(***************************************************************************)
EXTENDS Integers, Sequences

CONSTANTS
  Client,     \* goroutines and commands that call the package
  Process,    \* processes they belong to
  ProcessOf,  \* the process of each client
  Inode,      \* files the directory can hold
  Local, Remote, MaxPairs,
  MaxCrashes  \* bound: processes that die in the middle of an operation

ASSUME ClientAssumption == ProcessOf \in [Client -> Process]
ASSUME CrashAssumption  == MaxCrashes \in Nat

VARIABLES
  body,       \* body[i]: what inode i holds; ok when it is valid JSON
  main,       \* the inode named sync.json
  tmp,        \* the inode named sync.json.tmp, or NoInode
  step,       \* step[c]: how far the client's operation has come
  copy,       \* copy[c]: the changed list it is going to write
  handle,     \* handle[c]: the inode it writes to
  crashes     \* crashes so far

vars == <<body, main, tmp, step, copy, handle, crashes>>

Torn    == [ok |-> FALSE, list |-> << >>]     \* truncated, or free
Json(f) == [ok |-> TRUE, list |-> f]
NoInode == "no inode"

ASSUME InodeAssumption == NoInode \notin Inode

Init ==
  /\ main \in Inode           \* no sync.json yet reads as the empty list
  /\ body = [i \in Inode |-> IF i = main THEN Json(<< >>) ELSE Torn]
  /\ tmp = NoInode
  /\ step = [c \in Client |-> "idle"]
  /\ copy = [c \in Client |-> << >>]
  /\ handle = [c \in Client |-> NoInode]
  /\ crashes = 0

(* The abstract list is what sync.json holds.                              *)
Store == INSTANCE PairStore WITH pairs <- body[main].list

-----------------------------------------------------------------------------
(* mu.Lock: no other operation of the process is under way.  The variant   *)
(* forgets to take it.                                                     *)
Unlocked(c)  == step[c] = "idle"
HoldsLock(c) ==
  \A o \in Client : ProcessOf[o] = ProcessOf[c] => step[o] = "idle"

(* load and apply.  A torn file is an error, as is an operation that finds *)
(* no pair or a duplicate: the list stays as it is.                        *)
Begin(c) ==
  /\ HoldsLock(c)
  /\ body[main].ok
  /\ \E g \in Store!Results(body[main].list) : copy' = [copy EXCEPT ![c] = g]
  /\ step' = [step EXCEPT ![c] = "loaded"]
  /\ UNCHANGED <<body, main, tmp, handle, crashes>>

(* Variant: the list written straight to sync.json.                        *)
OpenMain(c) ==
  /\ step[c] = "loaded"
  /\ body' = [body EXCEPT ![main] = Torn]
  /\ handle' = [handle EXCEPT ![c] = main]
  /\ step' = [step EXCEPT ![c] = "open"]
  /\ UNCHANGED <<main, tmp, copy, crashes>>

(* os.WriteFile on sync.json.tmp: open with O_TRUNC, then write.           *)
OpenTmp(c) ==
  /\ step[c] = "loaded"
  /\ \E i \in Inode :
       /\ IF tmp = NoInode THEN i # main /\ \A o \in Client : handle[o] # i
          ELSE i = tmp
       /\ tmp' = i
       /\ handle' = [handle EXCEPT ![c] = i]
       /\ body' = [body EXCEPT ![i] = Torn]
  /\ step' = [step EXCEPT ![c] = "open"]
  /\ UNCHANGED <<main, copy, crashes>>

WriteTmp(c) ==
  /\ step[c] = "open"
  /\ body' = [body EXCEPT ![handle[c]] = Json(copy[c])]
  /\ step' = [step EXCEPT ![c] = "written"]
  /\ UNCHANGED <<main, tmp, copy, handle, crashes>>

(* The operation is over.  The variant leaves the file open.               *)
FinishOpen(c) ==
  /\ step' = [step EXCEPT ![c] = "idle"]
  /\ copy' = [copy EXCEPT ![c] = << >>]
  /\ UNCHANGED handle
Finish(c) ==
  /\ step' = [step EXCEPT ![c] = "idle"]
  /\ copy' = [copy EXCEPT ![c] = << >>]
  /\ handle' = [handle EXCEPT ![c] = NoInode]

(* os.Rename frees the inode it replaces; it fails when another process    *)
(* has renamed the file already.                                           *)
Rename(c) ==
  /\ step[c] = "written"
  /\ IF tmp = NoInode THEN UNCHANGED <<main, body>>
     ELSE main' = tmp /\ body' = [body EXCEPT ![main] = Torn]
  /\ tmp' = NoInode
  /\ Finish(c)
  /\ UNCHANGED crashes

(* The process dies: its operations stop where they are.                   *)
Crash(p) ==
  /\ crashes < MaxCrashes
  /\ crashes' = crashes + 1
  /\ \E c \in Client : ProcessOf[c] = p /\ step[c] # "idle"
  /\ LET dead == {c \in Client : ProcessOf[c] = p} IN
       /\ step' = [c \in Client |-> IF c \in dead THEN "idle" ELSE step[c]]
       /\ copy' = [c \in Client |-> IF c \in dead THEN << >> ELSE copy[c]]
       /\ handle' = [c \in Client |-> IF c \in dead THEN NoInode ELSE handle[c]]
  /\ UNCHANGED <<body, main, tmp>>

Next ==
  \/ \E c \in Client : Begin(c) \/ OpenTmp(c) \/ WriteTmp(c) \/ Rename(c)
  \/ \E p \in Process : Crash(p)

Spec == Init /\ [][Next]_vars

-----------------------------------------------------------------------------
(* Types: every name and handle is an inode of the directory, and a client *)
(* holds a file open only while it writes one.                             *)
Content == [ok : BOOLEAN, list : Seq(Store!Pair)]
TypeOK ==
  /\ body \in [Inode -> Content]
  /\ main \in Inode
  /\ tmp \in Inode \cup {NoInode}
  /\ step \in [Client -> {"idle", "loaded", "open", "written"}]
  /\ copy \in [Client -> Seq(Store!Pair)]
  /\ handle \in [Client -> Inode \cup {NoInode}]
  /\ \A c \in Client : handle[c] # NoInode <=> step[c] \in {"open", "written"}
  /\ crashes \in 0 .. MaxCrashes

(* Save: "atomically: a half-written sync.json would leave the tray with   *)
(* no list at all".  sync.json can be parsed at every moment, also between *)
(* the steps of a save and after a crash.                                  *)
NeverHalfWritten == body[main].ok

(* "serialises read-modify-write": seen from outside every change of       *)
(* sync.json is one operation on the list it held just before, so no       *)
(* operation undoes another one (SyncConfig implements PairStore).         *)
ImplementsStore == Store!Spec

(* Ids are what the user types and what timers and recorded runs refer to: *)
(* the lists that reach the disk never give two pairs the same one.        *)
IdsStayUnique == Store!UniqueIds

(* mu "serialises read-modify-write across the CLI and the tray": what a   *)
(* rename puts in place of sync.json, when it can be parsed, is one change *)
(* of the list it replaces, so that nobody's change is lost.               *)
NoLostUpdate ==
  [][main' # main /\ body'[main'].ok =>
       body'[main'].list \in {body[main].list} \cup Store!Results(body[main].list)]_vars
=============================================================================
