----------------------------- MODULE AtomicRefs -----------------------------
(***************************************************************************)
(* What the ref store promises its callers (refs/transaction.rs, module    *)
(* comment): a transaction takes effect at one instant between its call    *)
(* and its return, all of it or none of it, and only if each of its        *)
(* operations is allowed at that instant; it is refused only if one is     *)
(* not.  A crash ends the calls of a process, each before or after its     *)
(* effect.                                                                 *)
(***************************************************************************)
EXTENDS RefOps

CONSTANTS Process, Thread, ProcessOf, Batches

VARIABLES store, call, batch, out

vars == <<store, call, batch, out>>

\* The plan of the first i operations: for each name the last value entered.
Entered(ops, i, n) == {j \in 1 .. i : ops[j].name = n /\ Value(ops[j]) # Skip}
Last(indices) == CHOOSE j \in indices : \A h \in indices : h <= j
Overlay(ops, i) ==
    [n \in Name |-> IF Entered(ops, i, n) = {} THEN Skip
                    ELSE Value(ops[Last(Entered(ops, i, n))])]

Whole(ops) == Overlay(ops, Len(ops))

\* No operation is refused, each seeing the store under those before it.
Allowed(ops) ==
    \A i \in DOMAIN ops : ~Refused(ops[i], Current(store, Overlay(ops, i - 1), ops[i].name))

Init ==
    /\ store = [n \in Name |-> Null]
    /\ call = [t \in Thread |-> "none"]
    /\ batch = [t \in Thread |-> <<>>]
    /\ out = [t \in Thread |-> "none"]

Invoke(t, b) ==
    /\ call[t] = "none"
    /\ call' = [call EXCEPT ![t] = "called"]
    /\ batch' = [batch EXCEPT ![t] = b]
    /\ out' = [out EXCEPT ![t] = "none"]
    /\ UNCHANGED store

TakeEffect(t) ==
    /\ call[t] = "called" /\ Allowed(batch[t])
    /\ call' = [call EXCEPT ![t] = "committed"]
    /\ store' = Patch(store, Whole(batch[t]))
    /\ UNCHANGED <<batch, out>>

Return(t) ==
    /\ call[t] = "committed"
    /\ call' = [call EXCEPT ![t] = "none"]
    /\ out' = [out EXCEPT ![t] = "ok"]
    /\ UNCHANGED <<store, batch>>

\* A batch that writes nothing has nothing to commit.
ReturnEmpty(t) ==
    /\ call[t] = "called" /\ Allowed(batch[t]) /\ Whole(batch[t]) = EmptyPlan
    /\ call' = [call EXCEPT ![t] = "none"]
    /\ out' = [out EXCEPT ![t] = "ok"]
    /\ UNCHANGED <<store, batch>>

Refuse(t) ==
    /\ call[t] = "called" /\ ~Allowed(batch[t])
    /\ call' = [call EXCEPT ![t] = "none"]
    /\ out' = [out EXCEPT ![t] = "err"]
    /\ UNCHANGED <<store, batch>>

Die(p) ==
    /\ call' = [t \in Thread |-> IF ProcessOf[t] = p THEN "none" ELSE call[t]]
    /\ out' = [t \in Thread |-> IF ProcessOf[t] = p THEN "none" ELSE out[t]]
    /\ UNCHANGED <<store, batch>>

Next ==
    \/ \E t \in Thread : \/ \E b \in Batches : Invoke(t, b)
                         \/ TakeEffect(t) \/ Return(t) \/ ReturnEmpty(t) \/ Refuse(t)
    \/ \E p \in Process : Die(p)

Spec == Init /\ [][Next]_vars
=============================================================================
