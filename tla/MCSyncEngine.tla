----------------------------- MODULE MCSyncEngine -----------------------------
(* Instances of SyncEngine for TLC.                                        *)
EXTENDS SyncEngine, TLC

CONSTANTS s1, s2, d1, d2

(* The name suffixName gives a path is the next path, as "a.remote.md" is  *)
(* after "a.md"; the last one's is not tracked.                            *)
AltNext == [p \in Path |-> IF p = NumPaths THEN 0 ELSE p + 1]
AltNone == [p \in Path |-> 0]

OneDir  == [s \in Syncer |-> d1]
OwnDir  == s1 :> d1 @@ s2 :> d2

Choices(ds, cs)    == [s \in Syncer |-> [direction : ds, conflict : cs]]
EveryOption        == Choices(Directions, Policies)
DefaultOption      == Choices({"both"}, {"newest"})
SkipOption         == Choices({"both"}, {"skip"})
=============================================================================
