----------------------------- MODULE MCSyncRunner -----------------------------
(* Instances of SyncRunner for TLC.                                        *)
EXTENDS SyncRunner, TLC

CONSTANTS a, b, t1, t2, window

(* Directories without subdirectories.                                     *)
Flat == [d \in Local |-> {d}]

Entry(id, l, r, watch, every) ==
  [id |-> id, local |-> l, remote |-> r, enabled |-> TRUE, watch |-> watch,
   every |-> every, last |-> "never", failed |-> FALSE]

OnePair    == {<<Entry(1, a, "x", w, TRUE)>> : w \in BOOLEAN}
OneWatched == {<<Entry(1, a, "x", TRUE, FALSE)>>}
TwoPairs   == {<<Entry(1, a, "x", TRUE, TRUE), Entry(2, b, "x", w, TRUE)>> : w \in BOOLEAN}
=============================================================================
