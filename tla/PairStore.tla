------------------------------- MODULE PairStore -------------------------------
(***************************************************************************)
(* The list of folder pairs (internal/syncconfig): what its operations     *)
(* promise when each of them is one step.  SyncConfig shows under which    *)
(* circumstances the file operations keep this promise, and SyncRunner     *)
(* runs against it.                                                        *)
(*                                                                         *)
(* A pair's last run is kept as far as Due tells runs apart: never, within *)
(* the interval, or longer ago than the interval.                          *)
(***************************************************************************)
EXTENDS Integers, Sequences

Seqs == INSTANCE SequencesExt

CONSTANTS
  Local,       \* local directories
  Remote,      \* remote folders
  MaxPairs     \* bound: pairs in the list

Runs  == {"never", "recent", "overdue"}
Pair  == [id : Nat \ {0}, local : Local, remote : Remote, enabled : BOOLEAN,
          watch : BOOLEAN, every : BOOLEAN, last : Runs, failed : BOOLEAN]

(* What `sync add` and the settings window hand to Add: a pair that has    *)
(* never run.                                                              *)
Drafts == [id : {0}, local : Local, remote : Remote, enabled : BOOLEAN, watch : BOOLEAN,
           every : BOOLEAN, last : {"never"}, failed : {FALSE}]

(* The variant takes a pair that has run once as done for good.            *)
DueOnce(p) == p.enabled /\ p.every /\ p.last = "never"
Due(p)     == p.enabled /\ p.every /\ p.last # "recent"

SameLocation(a, b) == a.local = b.local /\ a.remote = b.remote

UsedIds(f) == {f[i].id : i \in DOMAIN f}

(* nextID: the lowest unused number.  The variant hands out the number     *)
(* after the list's length.                                                *)
IsLengthPlusOne(f, n) == n = Len(f) + 1
IsNextID(f, n) == n \notin UsedIds(f) /\ 1 .. n - 1 \subseteq UsedIds(f)

(* The positions an id leads to: the first pair that has it, the one Get,  *)
(* Update and Remove settle on.                                            *)
Found(f) == {i \in DOMAIN f : \A j \in 1 .. i - 1 : f[j].id # f[i].id}

-----------------------------------------------------------------------------
(* The operations: the lists each of them can turn a list f into.  An      *)
(* operation that returns an error changes nothing and gives no list.      *)

Adds(f) ==
  {Append(f, [p EXCEPT !.id = n]) :
     p \in {p \in Drafts : Len(f) < MaxPairs /\ \A i \in DOMAIN f : ~SameLocation(f[i], p)},
     n \in {n \in 1 .. Len(f) + 1 : IsNextID(f, n)}}

Removes(f) == {Seqs!RemoveAt(f, i) : i \in Found(f)}

(* Update, with the changes its callers make: `sync set` and the window's  *)
(* Pause button switch a pair on or off and reschedule it; the window's    *)
(* form reschedules it and moves it to another remote folder, and does not *)
(* look at the other pairs as Add does.                                    *)
Mode == [watch : BOOLEAN, every : BOOLEAN]
Set(f, i, on, m)  == [f EXCEPT ![i].enabled = on, ![i].watch = m.watch, ![i].every = m.every]
Form(f, i, r, m)  == [f EXCEPT ![i].remote = r, ![i].watch = m.watch, ![i].every = m.every]
Sets(f)  == {Set(f, i, on, m) : i \in Found(f), on \in BOOLEAN, m \in Mode}
Forms(f) == {Form(f, i, r, m) : i \in Found(f), r \in Remote, m \in Mode}

RecordRun(f, i, failure) == [f EXCEPT ![i].last = "recent", ![i].failed = failure]
Records(f) == {RecordRun(f, i, failure) : i \in Found(f), failure \in BOOLEAN}

Results(f) ==
  Adds(f) \cup Removes(f) \cup Sets(f) \cup Forms(f) \cup Records(f)

-----------------------------------------------------------------------------
VARIABLE pairs

Init == pairs = << >>
Next == pairs' \in Results(pairs)
Spec == Init /\ [][Next]_pairs

-----------------------------------------------------------------------------
(* Types: the list is made of pairs, each of them with a number.           *)
TypeOK == pairs \in Seq(Pair)

(* Ids are what the user types to name a pair and what timers and recorded *)
(* runs refer to: nextID and Remove never let two pairs share one.         *)
UniqueIds == \A i, j \in DOMAIN pairs : pairs[i].id = pairs[j].id => i = j
=============================================================================
