----------------------------- MODULE MCRefStore -----------------------------
(***************************************************************************)
(* RefStore for TLC: two names, two object ids, and batches that between   *)
(* them use every operation, layer one operation over another, write       *)
(* nothing, and delete.                                                    *)
(***************************************************************************)
EXTENDS RefStore, TLC

CONSTANTS a, b, t1, t2, p1, p2

MCName == 1 .. 2
MCId == {a, b}

Create(n, id) == [type |-> "CreateTimeline", name |-> n, at |-> id]
Tag(n, id) == [type |-> "CreateTag", name |-> n, at |-> id]
Advance(n, id) == [type |-> "AdvanceHead", name |-> n, at |-> id]
AdvanceIf(n, old, new) == [type |-> "AdvanceHeadIf", name |-> n, old |-> old, at |-> new]
MoveTag(n, id) == [type |-> "MoveTag", name |-> n, at |-> id]
Expect(n, slot) == [type |-> "Expect", name |-> n, expected |-> slot]
Set(n, ref) == [type |-> "Set", name |-> n, value |-> ref]
Delete(n) == [type |-> "Delete", name |-> n]
TimelineAt(id) == [kind |-> "timeline", at |-> id]

MCBatches ==
    { <<Create(1, a), Set(2, TimelineAt(a))>>,
      <<AdvanceIf(1, a, b), Set(2, TimelineAt(b))>>,
      <<Expect(2, Null), Tag(2, a)>>,
      <<Advance(1, b), MoveTag(2, b)>>,
      <<Delete(1), Create(1, b)>>,
      <<Expect(1, TimelineAt(a))>>,
      <<Delete(2), Delete(1)>> }

\* Fewer batches for the runs with many failures.
FewBatches ==
    { <<Create(1, a), Set(2, TimelineAt(a))>>,
      <<AdvanceIf(1, a, b), Delete(2)>>,
      <<Delete(2), Expect(1, TimelineAt(a))>> }

CallOps == { Create(1, b), Advance(1, a), Delete(1), Tag(2, b) }

\* A create and a compare-and-swap, the least that can lose an update.
Swaps == { <<Create(1, a)>>, <<AdvanceIf(1, a, b), Set(2, TimelineAt(b))>> }

OneProcess == {p1}
TwoProcesses == {p1, p2}
TwoThreads == {t1, t2}
SameProcess == [t \in Thread |-> p1]
OwnProcess == t1 :> p1 @@ t2 :> p2
=============================================================================
