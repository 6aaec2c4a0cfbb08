---------------------------- MODULE MCPackStore -----------------------------
(***************************************************************************)
(* A small object graph and workloads for PackStore.                       *)
(***************************************************************************)
EXTENDS PackStore, TLC

CONSTANTS main, side, w, g, p1, p2

\* Two commits: snapshot 2 of blob 1, and snapshot 4, on top of it, of blob 3.
History == 1 .. 4
HistoryChild == <<{}, {1}, {}, {2, 3}>>
Snapshots == {2, 4}
Commits == (2 :> {1, 2}) @@ (4 :> {3, 4})

NoPolicy == [x \in Id |-> {}]

OneTask == g :> p1
OwnProcess == (w :> p1) @@ (g :> p2)

AnyOp == g :> {"commit", "prune", "gc", "compact"}
OneCollects == (w :> {"commit", "branch"}) @@ (g :> {"gc"})

\* The hypotheses of the theorems hold of the instances.
ASSUME Coordination == ContentStored /\ SnapshotsOnly /\ (Alone \/ OneCollector)
=============================================================================
