------------------------------- MODULE RefOps -------------------------------
(***************************************************************************)
(* The values the ref store keeps and the meaning of one buffered          *)
(* operation of a transaction (refs/transaction.rs, refs/mod.rs).          *)
(*                                                                         *)
(* A ref is a tag or a timeline that points at an object.  Everything else *)
(* a ref carries (policy, message, timestamps, kind, expiry) is copied     *)
(* unchanged by every operation that keeps the ref, so it is left out.     *)
(***************************************************************************)
EXTENDS Naturals, Sequences

CONSTANTS
    Name,   \* ref names; numbers, because a plan is applied in name order
    Id,     \* object ids
    Null,   \* no ref of that name
    Skip    \* a plan says nothing about that name

Ref == [kind : {"tag", "timeline"}, at : Id]
Slot == Ref \cup {Null}

ASSUME RefOpsAssumption ==
    /\ Name \subseteq Nat
    /\ Null \notin Ref
    /\ Skip \notin Slot

\* A resolved plan: the absolute final value of every ref it touches.
Plan == [Name -> Slot \cup {Skip}]
EmptyPlan == [n \in Name |-> Skip]
Touched(plan) == {n \in Name : plan[n] # Skip}

\* The store with a plan laid over it.
Patch(store, plan) == [n \in Name |-> IF plan[n] = Skip THEN store[n] ELSE plan[n]]

RefOp ==
    [type : {"CreateTag", "CreateTimeline", "MoveTag", "AdvanceHead"}, name : Name, at : Id]
      \cup [type : {"Set"}, name : Name, value : Ref]
      \cup [type : {"Delete"}, name : Name]
      \cup [type : {"Expect"}, name : Name, expected : Slot]
      \cup [type : {"AdvanceHeadIf"}, name : Name, old : Id, at : Id]

Is(slot, kind) == slot # Null /\ slot.kind = kind

\* The condition under which an operation is refused when the ref is cur.
Refused(op, cur) ==
    CASE op.type \in {"CreateTag", "CreateTimeline"} -> cur # Null
      [] op.type = "MoveTag"       -> ~Is(cur, "tag")
      [] op.type = "AdvanceHead"   -> ~Is(cur, "timeline")
      [] op.type = "AdvanceHeadIf" -> ~(Is(cur, "timeline") /\ cur.at = op.old)
      [] op.type = "Expect"        -> cur # op.expected
      [] op.type \in {"Set", "Delete"} -> FALSE

\* What the operation enters into the plan; Skip for a pure precondition.
Value(op) ==
    CASE op.type \in {"CreateTag", "MoveTag"} -> [kind |-> "tag", at |-> op.at]
      [] op.type \in {"CreateTimeline", "AdvanceHead", "AdvanceHeadIf"} ->
            [kind |-> "timeline", at |-> op.at]
      [] op.type = "Set"    -> op.value
      [] op.type = "Delete" -> Null
      [] op.type = "Expect" -> Skip

\* The operation laid over an overlay of the operations before it.
Layer(overlay, op) ==
    IF Value(op) = Skip THEN overlay ELSE [overlay EXCEPT ![op.name] = Value(op)]

\* What an operation sees: earlier operations first, then the backend.
Current(store, overlay, n) == IF overlay[n] = Skip THEN store[n] ELSE overlay[n]
=============================================================================
