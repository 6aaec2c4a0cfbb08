--------------------------- MODULE RefStoreProofs ---------------------------
(***************************************************************************)
(* Proofs about RefStore: type correctness of every behaviour, and, for a  *)
(* repository that one process has open and that is used through           *)
(* transactions, that compare-and-swap is atomic and that the recovered    *)
(* refs change only when a journal is published.                           *)
(***************************************************************************)
EXTENDS RefStore, TLAPS

\* An operation names a ref and enters a value of the plan's type for it.
LEMMA OpType ==
    ASSUME NEW op \in RefOp
    PROVE  /\ op.name \in Name
           /\ Value(op) \in Slot \cup {Skip}
           /\ op.type # "Expect" => Value(op) # Skip
<1>1. CASE op \in [type : {"CreateTag", "CreateTimeline", "MoveTag", "AdvanceHead"},
                   name : Name, at : Id]
  BY <1>1, RefOpsAssumption DEF Value, Slot, Ref
<1>2. CASE op \in [type : {"Set"}, name : Name, value : Ref]
  BY <1>2, RefOpsAssumption, Zenon DEF Value, Slot
<1>3. CASE op \in [type : {"Delete"}, name : Name]
  BY <1>3, RefOpsAssumption, Zenon DEF Value, Slot
<1>4. CASE op \in [type : {"Expect"}, name : Name, expected : Slot]
  BY <1>4, Zenon DEF Value
<1>5. CASE op \in [type : {"AdvanceHeadIf"}, name : Name, old : Id, at : Id]
  BY <1>5, RefOpsAssumption DEF Value, Slot, Ref
<1> QED BY <1>1, <1>2, <1>3, <1>4, <1>5, Zenon DEF RefOp

\* The empty plan is a plan, and touches nothing.
LEMMA EmptyPlanType == EmptyPlan \in Plan /\ Touched(EmptyPlan) = {}
BY Zenon DEF EmptyPlan, Plan, Touched

\* Laying an operation over a plan gives a plan.
LEMMA LayerType ==
    ASSUME NEW op \in RefOp, NEW overlay \in Plan
    PROVE  /\ Layer(overlay, op) \in Plan
           /\ op.type # "Expect" => op.name \in Touched(Layer(overlay, op))
           /\ \A n \in Name : n # op.name => Layer(overlay, op)[n] = overlay[n]
BY OpType, Zenon DEF Layer, Plan, Touched
-----------------------------------------------------------------------------
Applying(a) == pc[a] \in {"apply", "rename"}

\* An agent writes only names that its plan has a value for.
TodoPlanned == \A a \in Agent : Applying(a) => todo[a] \subseteq Touched(plan[a])

TypeInv == TypeOK /\ TodoPlanned
\* A step that ends a call leaves everything of its type.
LEMMA IdleType ==
    ASSUME TypeInv, NEW a \in Agent, NEW result \in {"ok", "err"}, Idle(a, result)
    PROVE  /\ pc' \in [Agent -> {"idle", "lock", "resolve", "apply", "rename",
                                 "down", "scan", "up"}]
           /\ out' \in [Thread -> {"none", "ok", "err"}]
           /\ lock' \in [Process -> Thread \cup {Free}]
           /\ plan' \in [Agent -> Plan]
           /\ todo' \in [Agent -> SUBSET Name]
           /\ jid' \in [Agent -> Nat]
           /\ dir' \in [Process -> SUBSET Nat]
           /\ TodoPlanned'
<1>1. pc' \in [Agent -> {"idle", "lock", "resolve", "apply", "rename", "down", "scan", "up"}]
  BY Zenon DEF TypeInv, TypeOK, Idle
<1>2. out' \in [Thread -> {"none", "ok", "err"}]
  BY Zenon DEF TypeInv, TypeOK, Idle
<1>3. lock' \in [Process -> Thread \cup {Free}]
  BY Zenon DEF TypeInv, TypeOK, Idle
<1>4. plan' \in [Agent -> Plan] /\ todo' \in [Agent -> SUBSET Name]
  BY EmptyPlanType, Zenon DEF TypeInv, TypeOK, Idle
<1>5. jid' \in [Agent -> Nat] /\ dir' \in [Process -> SUBSET Nat]
  BY Zenon DEF TypeInv, TypeOK, Idle
<1>6. TodoPlanned'
  BY <1>1, <1>4, Zenon DEF TypeInv, TypeOK, TodoPlanned, Applying, Idle
<1> QED BY <1>1, <1>2, <1>3, <1>4, <1>5, <1>6, Zenon

\* A fresh repository has its type.
LEMMA InitType == Init => TypeInv
BY EmptyPlanType, RefOpsAssumption, RefStoreAssumption
   DEF Init, TypeInv, TypeOK, TodoPlanned, Applying, Agent, Slot

\* The operations of a batch are numbered from 1.
LEMMA Indices ==
    \A s \in Seq(RefOp) : Len(s) \in Nat /\ \A i \in DOMAIN s : i \in Nat \ {0} /\ i <= Len(s)
OBVIOUS

\* The operation being resolved is one of the batch.
LEMMA ResolvingType ==
    ASSUME TypeInv, NEW t \in Thread, Resolving(t)
    PROVE  Op(t) \in RefOp
BY DEF TypeInv, TypeOK, Resolving, Op

\* Every step keeps the type, also the failing ones.
LEMMA StepType == TypeInv /\ [Next]_vars => TypeInv'
<1> SUFFICES ASSUME TypeInv, [Next]_vars PROVE TypeInv'
  BY Zenon
<1> USE RefStoreAssumption DEF TypeInv
<1>1. ASSUME NEW t \in Thread, NEW b \in Batches, Commit(t, b) PROVE TypeInv'
  BY <1>1 DEF Commit, TypeOK, TodoPlanned, Applying, Agent, files
<1>2. ASSUME NEW t \in Thread, AcquireLock(t) PROVE TypeInv'
  BY <1>2 DEF AcquireLock, TypeOK, TodoPlanned, Applying, Agent, files, bounds
<1>3. ASSUME NEW t \in Thread, ResolveOp(t) PROVE TypeInv'
  <2>1. Op(t) \in RefOp BY <1>3, ResolvingType, Zenon DEF ResolveOp
  <2>2. t \in Agent /\ pc[t] = "resolve" BY <1>3, Zenon DEF ResolveOp, Resolving, Agent
  <2>3. plan' \in [Agent -> Plan] BY <1>3, <2>1, <2>2, LayerType, Zenon DEF ResolveOp, TypeOK
  <2>4. TodoPlanned' BY <1>3, <2>2, Zenon DEF ResolveOp, TodoPlanned, Applying, TypeOK
  <2> QED BY <1>3, <2>3, <2>4 DEF ResolveOp, TypeOK, files, bounds
<1>4. ASSUME NEW t \in Thread, ResolveRefused(t) \/ CommitEmpty(t) \/ CallReturns(t)
      PROVE  TypeInv'
  <2>1. \E r \in {"ok", "err"} : Idle(t, r)
    BY <1>4, Zenon DEF ResolveRefused, CommitEmpty, CallReturns
  <2> QED BY <1>4, <2>1, IdleType, Zenon
          DEF ResolveRefused, CommitEmpty, CallReturns, TypeOK, Agent, files, bounds
<1>5. ASSUME NEW t \in Thread, WriteJournal(t) PROVE TypeInv'
  <2>1. t \in Agent BY Zenon DEF Agent
  <2>2. TodoPlanned' BY <1>5, <2>1, Zenon DEF WriteJournal, TodoPlanned, Applying, TypeOK
  <2>3. Touched(plan[t]) \subseteq Name BY Zenon DEF Touched
  <2> QED BY <1>5, <2>1, <2>2, <2>3 DEF WriteJournal, TypeOK, Journal, bounds
<1>6. ASSUME NEW a \in Agent, NEW n \in Name, WriteTmp(a, n) PROVE TypeInv'
  <2>1. plan[a][n] \in Slot
    BY <1>6 DEF WriteTmp, IsFirst, TodoPlanned, Applying, Touched, TypeOK, Plan
  <2>2. TodoPlanned' BY <1>6, Zenon DEF WriteTmp, TodoPlanned, Applying, TypeOK
  <2> QED BY <1>6, <2>1, <2>2, Zenon DEF WriteTmp, TypeOK, bounds
<1>7. ASSUME NEW a \in Agent, NEW n \in Name, Rename(a, n) PROVE TypeInv'
  <2>1. TodoPlanned' BY <1>7, Zenon DEF Rename, TodoPlanned, Applying, TypeOK
  <2> QED BY <1>7, <2>1, Zenon DEF Rename, TypeOK, Slot, bounds
<1>8. ASSUME NEW a \in Agent, NEW n \in Name, Remove(a, n) PROVE TypeInv'
  <2>1. TodoPlanned' BY <1>8, Zenon DEF Remove, TodoPlanned, Applying, TypeOK
  <2> QED BY <1>8, <2>1, Zenon DEF Remove, TypeOK, Slot, bounds
<1>9. ASSUME NEW a \in Agent, NEW n \in Name, RenameMissing(a, n) PROVE TypeInv'
  BY <1>9, IdleType, Zenon DEF RenameMissing, TypeOK, files, bounds
<1>10. ASSUME NEW a \in Agent, WriteFails(a) PROVE TypeInv'
  BY <1>10, IdleType DEF WriteFails, TypeOK, files
<1>11. ASSUME NEW a \in Agent, RemoveJournal(a) PROVE TypeInv'
  BY <1>11, IdleType, Zenon DEF RemoveJournal, TypeOK, bounds
<1>12. ASSUME NEW a \in Agent, JournalMissing(a) PROVE TypeInv'
  BY <1>12, IdleType, Zenon DEF JournalMissing, TypeOK, files, bounds
<1>13. ASSUME NEW t \in Thread, NEW op \in Calls, Call(t, op) PROVE TypeInv'
  <2>1. op \in RefOp /\ op.type # "Expect" /\ t \in Agent BY Zenon DEF Agent
  <2>2. /\ Layer(EmptyPlan, op) \in Plan
        /\ op.name \in Name /\ op.name \in Touched(Layer(EmptyPlan, op))
    BY <2>1, LayerType, OpType, EmptyPlanType, Zenon
  <2>3. TodoPlanned' BY <1>13, <2>1, <2>2, Zenon DEF Call, TodoPlanned, Applying, TypeOK
  <2>4. <<op>> \in Seq(RefOp) BY <2>1
  <2> QED BY <1>13, <2>1, <2>2, <2>3, <2>4 DEF Call, TypeOK, files
<1>14. ASSUME NEW t \in Thread, NEW op \in Calls, CallRefused(t, op) PROVE TypeInv'
  BY <1>14 DEF CallRefused, TypeOK, TodoPlanned, Applying, files
<1>15. ASSUME NEW p \in Process, Open(p) PROVE TypeInv'
  BY <1>15, SMTT(30) DEF Open, TypeOK, TodoPlanned, Applying, Journal, Agent, files, bounds
<1>16. ASSUME NEW p \in Process, ReadJournal(p) PROVE TypeInv'
  <2>1. p \in Agent BY Zenon DEF Agent
  <2>2. PICK j \in journals :
          /\ plan' = [plan EXCEPT ![p] = j.plan]
          /\ todo' = [todo EXCEPT ![p] = Touched(j.plan)]
          /\ jid' = [jid EXCEPT ![p] = j.id]
          /\ dir' = [dir EXCEPT ![p] = @ \ {j.id}]
    BY <1>16, Zenon DEF ReadJournal
  <2>3. j.plan \in Plan /\ j.id \in Nat /\ Touched(j.plan) \subseteq Name
    BY Zenon DEF TypeOK, Journal, Touched
  <2>4. TodoPlanned' BY <1>16, <2>1, <2>2, Zenon DEF ReadJournal, TodoPlanned, Applying, TypeOK
  <2> QED BY <1>16, <2>1, <2>2, <2>3, <2>4, Zenon DEF ReadJournal, TypeOK, files, bounds
<1>17. ASSUME NEW p \in Process, ReadMissing(p) \/ Opened(p) PROVE TypeInv'
  BY <1>17, Zenon DEF ReadMissing, Opened, TypeOK, TodoPlanned, Applying, Agent, files, bounds
<1>18. ASSUME NEW p \in Process, Crash(p) PROVE TypeInv'
  BY <1>18, EmptyPlanType, SMTT(30) DEF Crash, TypeOK, TodoPlanned, Applying, Agent, files
<1>19. CASE UNCHANGED vars
  BY <1>19, Zenon DEF vars, files, bounds, TypeOK, TodoPlanned, Applying
<1> QED
  BY <1>1, <1>2, <1>3, <1>4, <1>5, <1>6, <1>7, <1>8, <1>9, <1>10, <1>11, <1>12, <1>13,
     <1>14, <1>15, <1>16, <1>17, <1>18, <1>19, Zenon
     DEF Next, TxNext, Transaction, Apply, Recover

\* Type correctness, of every behaviour with any number of processes,
\* single-ref calls, crashes and failed writes: set() writes a ref only when
\* the plan has a value for it, so no file ever holds the mark of an absent
\* plan entry.
THEOREM TypeCorrect == Spec => []TypeOK
<1>1. Spec => []TypeInv BY InitType, StepType, PTL DEF Spec
<1> QED BY <1>1, PTL DEF TypeInv
-----------------------------------------------------------------------------
(***************************************************************************)
(* The inductive invariant of TxSpec for one process.  The lock excludes   *)
(* threads from each other, recovery excludes them all, so at any time at  *)
(* most one agent applies a plan, and it is the plan of the only journal.  *)
(***************************************************************************)
SoleProcess == \A p, q \in Process : p = q

\* Which program counters a thread and a process's open() have.
Places ==
    /\ \A t \in Thread : pc[t] \in {"idle", "lock", "resolve", "apply", "rename"}
    /\ \A p \in Process : pc[p] \in {"down", "scan", "apply", "rename", "up"}

\* Threads run only in a process that is up.
ThreadsServed == \A t \in Thread : pc[t] # "idle" => Up(t)

\* The lock is held exactly by the thread inside commit_transaction.
LockGuards == \A t \in Thread : lock[ProcessOf[t]] = t <=> pc[t] \in {"resolve", "apply", "rename"}

\* There is one journal at most: that of whoever applies it or, before
\* recovery gets to it, of the crash that left it.
OneJournal ==
    /\ \A i, j \in journals : i = j
    /\ \A a \in Agent : Applying(a) =>
          jid[a] # 0 /\ journals = {[id |-> jid[a], plan |-> plan[a]]}
    /\ \A p \in Process : pc[p] = "scan" => dir[p] = {j.id : j \in journals}
    /\ \A p \in Process : pc[p] # "scan" => dir[p] = {}
    /\ \A p \in Process : pc[p] = "up" /\ journals # {} => \E t \in Thread : Applying(t)

\* What has been applied is in place, and a temporary file about to be
\* renamed holds the plan's value.
AppliedInPlace ==
    \A a \in Agent : Applying(a) =>
        /\ \A n \in Touched(plan[a]) \ todo[a] : refs[n] = plan[a][n]
        /\ pc[a] = "rename" => \A n \in Name : IsFirst(n, todo[a]) => tmp[n] = plan[a][n]

\* The overlay of resolve() has values only for operations it has passed.
OverlayPassed ==
    \A t \in Thread :
        /\ pc[t] \in {"idle", "lock"} => plan[t] = EmptyPlan
        /\ pc[t] = "resolve" => \A n \in Touched(plan[t]) :
              \E i \in DOMAIN batch[t] : i < k[t] /\ batch[t][i].name = n

IInv ==
    /\ TypeInv
    /\ Places /\ ThreadsServed /\ LockGuards
    /\ OneJournal /\ AppliedInPlace /\ OverlayPassed
    /\ PreconditionsHold

\* Who is inside commit_transaction, or replays a journal, is alone.
LEMMA Alone ==
    ASSUME SoleProcess, IInv, NEW a \in Agent, NEW b \in Agent,
           pc[a] \in {"resolve", "apply", "rename"}, pc[b] \in {"resolve", "apply", "rename"}
    PROVE  a = b
<1> USE RefStoreAssumption DEF IInv, SoleProcess
<1>1. CASE a \in Thread /\ b \in Thread
  BY <1>1 DEF LockGuards
<1>2. CASE a \in Process /\ b \in Process
  BY <1>2, Zenon
<1>3. CASE a \in Thread /\ b \in Process
  <2>1. pc[ProcessOf[a]] = "up" BY <1>3, Zenon DEF ThreadsServed, Up
  <2>2. ProcessOf[a] = b BY <1>3, Zenon
  <2> QED BY <2>1, <2>2, Zenon
<1>4. CASE a \in Process /\ b \in Thread
  <2>1. pc[ProcessOf[b]] = "up" BY <1>4, Zenon DEF ThreadsServed, Up
  <2>2. ProcessOf[b] = a BY <1>4, Zenon
  <2> QED BY <2>1, <2>2, Zenon
<1> QED BY <1>1, <1>2, <1>3, <1>4, Zenon DEF Agent

\* While a thread resolves, there is no journal.
LEMMA ResolvesClean ==
    ASSUME SoleProcess, IInv, NEW t \in Thread, pc[t] = "resolve"
    PROVE  journals = {}
<1>1. pc[ProcessOf[t]] = "up" /\ ProcessOf[t] \in Process
  BY RefStoreAssumption, Zenon DEF IInv, ThreadsServed, Up
<1>2. \A s \in Thread : ~Applying(s)
  BY Alone, Zenon DEF Applying, Agent
<1> QED BY <1>1, <1>2, Zenon DEF IInv, OneJournal

\* While the process is not up, every thread is idle.
LEMMA DownIdle ==
    ASSUME SoleProcess, IInv, NEW p \in Process, pc[p] # "up", NEW t \in Thread
    PROVE  pc[t] = "idle" /\ ProcessOf[t] = p
BY RefStoreAssumption, Zenon DEF SoleProcess, IInv, ThreadsServed, Up

\* The inductive invariant holds of a fresh repository.
LEMMA InitInv == Init => IInv
<1> SUFFICES ASSUME Init PROVE IInv
  BY Zenon
<1> USE RefStoreAssumption DEF Init, Agent
<1>1. TypeInv BY InitType, Zenon
<1>2. Places /\ ThreadsServed /\ LockGuards
  BY Zenon DEF Places, ThreadsServed, LockGuards
<1>3. OneJournal /\ AppliedInPlace
  BY Zenon DEF OneJournal, AppliedInPlace, Applying
<1>4. OverlayPassed /\ PreconditionsHold
  BY Zenon DEF OverlayPassed, PreconditionsHold
<1> QED BY <1>1, <1>2, <1>3, <1>4, Zenon DEF IInv

-----------------------------------------------------------------------------
(* What a step must leave alone for each part to be preserved.             *)

\* The journals stay, and so does whoever applies one.
LEMMA JournalFrame ==
    ASSUME IInv, journals' = journals,
           \A a \in Agent : Applying(a)' =>
               Applying(a) /\ plan'[a] = plan[a] /\ jid'[a] = jid[a],
           \A t \in Thread : Applying(t) => Applying(t)',
           \A p \in Process : pc'[p] = pc[p] /\ dir'[p] = dir[p]
    PROVE  OneJournal'
BY Zenon DEF IInv, OneJournal

\* Nobody writes a ref, or moves on in its plan.
LEMMA AppliedFrame ==
    ASSUME IInv, refs' = refs, tmp' = tmp,
           \A a \in Agent : Applying(a)' =>
               /\ Applying(a) /\ pc'[a] = pc[a]
               /\ plan'[a] = plan[a] /\ todo'[a] = todo[a]
    PROVE  AppliedInPlace'
BY DEF IInv, AppliedInPlace, Touched, IsFirst

\* A thread keeps its overlay, drops it, or has published it.
LEMMA OverlayFrame ==
    ASSUME IInv,
           \A t \in Thread :
               \/ /\ pc'[t] = pc[t] /\ plan'[t] = plan[t]
                  /\ k'[t] = k[t] /\ batch'[t] = batch[t]
               \/ pc'[t] \in {"idle", "lock", "resolve"} /\ plan'[t] = EmptyPlan
               \/ pc'[t] \in {"apply", "rename"}
    PROVE  OverlayPassed'
BY EmptyPlanType DEF IInv, OverlayPassed

\* No ref moves under a resolving thread.
LEMMA PreconditionsFrame ==
    ASSUME IInv,
           \A t \in Thread : pc'[t] = "resolve" =>
               /\ pc[t] = "resolve" /\ refs' = refs
               /\ k'[t] = k[t] /\ batch'[t] = batch[t]
    PROVE  PreconditionsHold'
BY DEF IInv, PreconditionsHold, Leads

\* With every thread idle, only the process itself is left to look at.
LEMMA Quiet ==
    ASSUME \A t \in Thread : /\ pc'[t] = "idle" /\ plan'[t] = EmptyPlan
                              /\ lock'[ProcessOf[t]] # t,
           \A p \in Process : pc'[p] \in {"down", "scan", "apply", "rename", "up"}
    PROVE  (Places /\ ThreadsServed /\ LockGuards /\ OverlayPassed /\ PreconditionsHold)'
BY Zenon DEF Places, ThreadsServed, LockGuards, OverlayPassed, PreconditionsHold

-----------------------------------------------------------------------------
\* Every step of a transaction, an apply, a recovery and a crash keeps it.
LEMMA StepInv == SoleProcess /\ IInv /\ [TxNext]_vars => IInv'
<1> SUFFICES ASSUME SoleProcess, IInv, [TxNext]_vars PROVE IInv'
  BY Zenon
<1>0. TypeInv' BY StepType, Zenon DEF IInv, Next
<1> USE RefStoreAssumption
<1>t. TypeOK /\ Process \subseteq Agent
      /\ \A t \in Thread : t \in Agent /\ ProcessOf[t] \in Process /\ t \notin Process
  BY Zenon DEF IInv, TypeInv, Agent
<1>1. ASSUME NEW t \in Thread, NEW b \in Batches, Commit(t, b) PROVE IInv'
  <2>1. pc' = [pc EXCEPT ![t] = "lock"] /\ pc[t] = "idle"
    BY <1>1, Zenon DEF Commit
  <2>2. UNCHANGED <<refs, tmp, journals, lock, k, plan, todo, jid, dir>>
    BY <1>1, Zenon DEF Commit, files
  <2>3. (Places /\ ThreadsServed /\ LockGuards)'
    BY <1>1, <2>1, <2>2, <1>t DEF IInv, Commit, TypeOK, Places, ThreadsServed, LockGuards, Up
  <2>4. OneJournal' BY <2>1, <2>2, <1>t, JournalFrame, Zenon DEF TypeOK, Applying
  <2>5. AppliedInPlace' BY <2>1, <2>2, <1>t, AppliedFrame, Zenon DEF TypeOK, Applying
  <2>6. \A s \in Thread : s # t => pc'[s] = pc[s] /\ batch'[s] = batch[s]
    BY <1>1, <1>t, Zenon DEF Commit, TypeOK
  <2>7. pc'[t] = "lock" /\ plan[t] = EmptyPlan
    BY <2>1, <1>t, Zenon DEF TypeOK, IInv, OverlayPassed
  <2>8. OverlayPassed' BY <2>2, <2>6, <2>7, OverlayFrame, Zenon
  <2>9. PreconditionsHold' BY <2>2, <2>6, <2>7, PreconditionsFrame, Zenon
  <2> QED BY <1>0, <2>3, <2>4, <2>5, <2>8, <2>9, Zenon DEF IInv
<1>2. ASSUME NEW t \in Thread, AcquireLock(t) PROVE IInv'
  <2>1. pc' = [pc EXCEPT ![t] = "resolve"] /\ pc[t] = "lock" /\ k'[t] = 1
    BY <1>2, <1>t, Zenon DEF AcquireLock, TypeOK
  <2>2. UNCHANGED <<refs, tmp, journals, batch, plan, todo, jid, dir>>
    BY <1>2, Zenon DEF AcquireLock, files
  <2>3. (Places /\ ThreadsServed)'
    BY <2>1, <1>t, Zenon DEF IInv, TypeOK, Places, ThreadsServed, Up
  <2>4. LockGuards'
    BY <1>2, <1>t DEF IInv, AcquireLock, TypeOK, LockGuards, SoleProcess
  <2>5. OneJournal' BY <2>1, <2>2, <1>t, JournalFrame, Zenon DEF TypeOK, Applying
  <2>6. AppliedInPlace' BY <2>1, <2>2, <1>t, AppliedFrame, Zenon DEF TypeOK, Applying
  <2>7. \A s \in Thread : s # t => pc'[s] = pc[s] /\ k'[s] = k[s]
    BY <1>2, <1>t, Zenon DEF AcquireLock, TypeOK
  <2>8. pc'[t] = "resolve" /\ plan[t] = EmptyPlan
    BY <2>1, <1>t, Zenon DEF TypeOK, IInv, OverlayPassed
  <2>9. OverlayPassed' BY <2>2, <2>7, <2>8, OverlayFrame, Zenon
  <2>10. PreconditionsHold'
    <3>1. \A i \in DOMAIN batch[t] : ~(i < 1) BY <1>t DEF TypeOK
    <3> QED BY <2>1, <2>2, <2>7, <3>1, SMTT(30) DEF IInv, PreconditionsHold, Leads
  <2> QED BY <1>0, <2>3, <2>4, <2>5, <2>6, <2>9, <2>10, Zenon DEF IInv
<1>3. ASSUME NEW t \in Thread, ResolveOp(t) PROVE IInv'
  <2>1. /\ pc[t] = "resolve" /\ k[t] \in DOMAIN batch[t] /\ k[t] \in Nat
        /\ Op(t) \in RefOp /\ Op(t) = batch[t][k[t]] /\ plan[t] \in Plan
        /\ DOMAIN batch[t] \subseteq Nat \ {0}
    <3>1. pc[t] = "resolve" /\ k[t] \in DOMAIN batch[t] /\ Op(t) = batch[t][k[t]]
      BY <1>3, Zenon DEF ResolveOp, Resolving, Op
    <3>2. Op(t) \in RefOp BY <1>3, ResolvingType, Zenon DEF IInv, ResolveOp
    <3>3. k[t] \in Nat /\ plan[t] \in Plan /\ batch[t] \in Seq(RefOp) BY <1>t, Zenon DEF TypeOK
    <3>4. DOMAIN batch[t] \subseteq Nat \ {0} BY <3>3, Indices, Zenon
    <3> QED BY <3>1, <3>2, <3>3, <3>4, Zenon
  <2>2. /\ UNCHANGED <<refs, tmp, journals, pc, lock, batch, todo, jid, dir>>
        /\ plan'[t] = Layer(plan[t], Op(t)) /\ k'[t] = k[t] + 1
        /\ \A s \in Thread : s # t => k'[s] = k[s]
        /\ \A a \in Agent : a # t => plan'[a] = plan[a]
    BY <1>3, <1>t, Zenon DEF ResolveOp, TypeOK, files
  <2>3. (Places /\ ThreadsServed /\ LockGuards)'
    BY <2>2, <1>t, Zenon DEF IInv, Places, ThreadsServed, LockGuards, Up
  <2>4. OneJournal' BY <2>1, <2>2, JournalFrame, Zenon DEF Applying
  <2>5. AppliedInPlace' BY <2>1, <2>2, AppliedFrame, Zenon DEF Applying
  <2>6. OverlayPassed'
    <3>1. ASSUME NEW n \in Touched(Layer(plan[t], Op(t)))
          PROVE  \E i \in DOMAIN batch[t] : i < k[t] + 1 /\ batch[t][i].name = n
      <4>1. CASE n = Op(t).name BY <2>1, <4>1, SMTT(30)
      <4>2. CASE n # Op(t).name
        <5>1. n \in Touched(plan[t]) BY <2>1, <4>2, LayerType, SMTT(30) DEF Touched
        <5>2. PICK i \in DOMAIN batch[t] : i < k[t] /\ batch[t][i].name = n
          BY <5>1, <2>1, SMTT(30) DEF IInv, OverlayPassed
        <5> QED BY <5>2, <2>1, SMTT(30)
      <4> QED BY <4>1, <4>2, Zenon
    <3> QED BY <2>1, <2>2, <3>1, <1>t, SMTT(30) DEF IInv, OverlayPassed
  <2>7. PreconditionsHold'
    <3>1. ASSUME Leads(t, k[t]) PROVE ~Refused(Op(t), refs[Op(t).name])
      <4>1. Op(t).name \in Name BY <2>1, OpType, Zenon
      <4>2. \A i \in DOMAIN batch[t] : i < k[t] => i \in 1 .. (k[t] - 1)
        BY <2>1
      <4>3. \A i \in DOMAIN batch[t] : i < k[t] => batch[t][i].name # Op(t).name
        BY <2>1, <3>1, <4>2, Zenon DEF Leads
      <4>4. plan[t][Op(t).name] = Skip
        BY <2>1, <4>1, <4>3, SMTT(30) DEF IInv, OverlayPassed, Touched
      <4> QED BY <1>3, <4>4, Zenon DEF ResolveOp, Sees, Current
    <3>2. \A i \in DOMAIN batch[t] : i < k[t] + 1 => i < k[t] \/ i = k[t]
      BY <2>1
    <3>3. ASSUME NEW s \in Thread, pc'[s] = "resolve", NEW i \in DOMAIN batch[s],
                 i < k'[s], Leads(s, i)
          PROVE  ~Refused(batch[s][i], refs[batch[s][i].name])
      <4>1. CASE s # t BY <2>2, <3>3, <4>1, Zenon DEF IInv, PreconditionsHold
      <4>2. CASE s = t /\ i < k[t] BY <2>1, <3>3, <4>2, Zenon DEF IInv, PreconditionsHold
      <4>3. CASE s = t /\ i = k[t] BY <2>1, <3>1, <3>3, <4>3, Zenon
      <4> QED BY <2>2, <3>2, <3>3, <4>1, <4>2, <4>3, Zenon
    <3> QED BY <2>2, <3>3, Zenon DEF PreconditionsHold, Leads
  <2> QED BY <1>0, <2>3, <2>4, <2>5, <2>6, <2>7, Zenon DEF IInv
<1>4. ASSUME NEW t \in Thread, ResolveRefused(t) \/ CommitEmpty(t) PROVE IInv'
  <2>1. pc[t] = "resolve" /\ journals = {}
    BY <1>4, ResolvesClean, Zenon DEF ResolveRefused, CommitEmpty, Resolving, Resolved
  <2>2. PICK r \in {"ok", "err"} : Idle(t, r)
    BY <1>4, Zenon DEF ResolveRefused, CommitEmpty
  <2>3. /\ UNCHANGED <<refs, tmp, journals, batch, k>>
        /\ pc' = [pc EXCEPT ![t] = "idle"] /\ dir' = dir
        /\ plan' = [plan EXCEPT ![t] = EmptyPlan]
        /\ todo' = [todo EXCEPT ![t] = {}] /\ jid' = [jid EXCEPT ![t] = 0]
    BY <1>4, <2>2, <1>t, Zenon DEF ResolveRefused, CommitEmpty, Idle, files
  <2>4. (Places /\ ThreadsServed)'
    BY <2>3, <1>t, SMTT(30) DEF IInv, TypeOK, Places, ThreadsServed, Up
  <2>5. LockGuards'
    BY <2>1, <2>2, <2>3, <1>t, SMTT(30) DEF IInv, Idle, TypeOK, LockGuards
  <2>6. OneJournal' BY <2>1, <2>3, <1>t, JournalFrame, Zenon DEF TypeOK, Applying
  <2>7. AppliedInPlace' BY <2>1, <2>3, <1>t, AppliedFrame, Zenon DEF TypeOK, Applying
  <2>8. OverlayPassed' BY <2>3, <1>t, OverlayFrame, Zenon DEF TypeOK
  <2>9. PreconditionsHold' BY <2>3, <1>t, PreconditionsFrame, Zenon DEF TypeOK
  <2> QED BY <1>0, <2>4, <2>5, <2>6, <2>7, <2>8, <2>9, Zenon DEF IInv
<1>5. ASSUME NEW t \in Thread, WriteJournal(t) PROVE IInv'
  <2>1. pc[t] = "resolve" /\ journals = {}
    BY <1>5, ResolvesClean, Zenon DEF WriteJournal, Resolved
  <2>2. \A a \in Agent : a # t => pc[a] \notin {"resolve", "apply", "rename"}
    BY <2>1, <1>t, Alone, Zenon
  <2>3. /\ pc'[t] = "apply" /\ \A a \in Agent : a # t => pc'[a] = pc[a]
        /\ todo'[t] = Touched(plan[t]) /\ jid'[t] = jseq + 1
        /\ UNCHANGED <<refs, tmp, lock, batch, k, plan, dir>>
        /\ journals' = {[id |-> jseq + 1, plan |-> plan[t]]}
    BY <1>5, <2>1, <1>t, Zenon DEF WriteJournal, TypeOK
  <2>4. (Places /\ ThreadsServed /\ LockGuards)'
    BY <2>1, <2>3, <1>t, SMTT(30) DEF IInv, Places, ThreadsServed, LockGuards, Up
  <2>5. OneJournal'
    <3>1. jseq + 1 # 0 BY <1>t DEF TypeOK
    <3>2. \A p \in Process : pc[p] = "up" /\ pc'[p] = "up"
      BY <2>1, <2>3, <1>t, SMTT(30) DEF IInv, ThreadsServed, Up, SoleProcess
    <3>3. \A a \in Agent : Applying(a)' => a = t BY <2>2, <2>3, Zenon DEF Applying
    <3>4. Applying(t)' BY <2>3, Zenon DEF Applying
    <3> QED BY <2>3, <3>1, <3>2, <3>3, <3>4, Zenon DEF IInv, OneJournal
  <2>6. AppliedInPlace'
    BY <2>2, <2>3, Zenon DEF AppliedInPlace, Applying
  <2>7. OverlayPassed' BY <2>3, <1>t, OverlayFrame, Zenon
  <2>8. PreconditionsHold' BY <2>2, <2>3, <1>t, PreconditionsFrame, Zenon
  <2> QED BY <1>0, <2>4, <2>5, <2>6, <2>7, <2>8, Zenon DEF IInv
<1>6. ASSUME NEW a \in Agent, NEW n \in Name,
             WriteTmp(a, n) \/ Rename(a, n) \/ Remove(a, n)
      PROVE  IInv'
  <2>1. /\ Applying(a) /\ IsFirst(n, todo[a]) /\ n \in Touched(plan[a])
        /\ n \in todo[a] /\ \A m \in Name : IsFirst(m, todo[a]) => m = n
    BY <1>6, RefOpsAssumption, SMTT(30)
       DEF WriteTmp, Rename, Remove, Applying, IsFirst, IInv, TypeInv, TodoPlanned
  <2>2. \A b \in Agent : b # a => pc[b] \notin {"resolve", "apply", "rename"}
    BY <2>1, Alone, Zenon DEF Applying
  <2>3. /\ Applying(a)' /\ \A b \in Agent : b # a => pc'[b] = pc[b]
        /\ UNCHANGED <<journals, lock, batch, k, plan, jid, dir>>
    BY <1>6, <2>1, <1>t, Zenon DEF WriteTmp, Rename, Remove, TypeOK, Applying
  <2>4. \A b \in Agent : b # a => ~Applying(b)'
    BY <2>2, <2>3, Zenon DEF Applying
  <2>5. \A b \in Agent : pc[b] \in {"apply", "rename"} <=> pc'[b] \in {"apply", "rename"}
    BY <2>1, <2>3, Zenon DEF Applying
  <2>6. Places'
    BY <2>1, <2>3, <1>t, Zenon DEF IInv, Places, Applying
  <2>7. (ThreadsServed /\ LockGuards)'
    BY <2>1, <2>2, <2>3, <1>t, Zenon DEF IInv, ThreadsServed, LockGuards, Applying, Up
  <2>8. OneJournal'
    <3>1. \A p \in Process : pc'[p] = "scan" <=> pc[p] = "scan"
      BY <2>1, <2>3, <1>t, Zenon DEF Applying
    <3>2. \A p \in Process : pc'[p] = "up" <=> pc[p] = "up"
      BY <2>1, <2>3, <1>t, Zenon DEF Applying
    <3>3. \A b \in Agent : Applying(b)' <=> Applying(b)
      BY <2>5, Zenon DEF Applying
    <3> QED BY <2>3, <3>1, <3>2, <3>3, <1>t, Zenon DEF IInv, OneJournal
  <2>9. AppliedInPlace'
    <3>1. CASE WriteTmp(a, n)
      BY <3>1, <2>1, <2>4, <1>t, SMTT(30)
         DEF WriteTmp, IInv, AppliedInPlace, Applying, TypeOK, Touched
    <3>2. CASE Rename(a, n)
      <4>1. tmp[n] = plan[a][n] BY <3>2, <2>1, Zenon DEF Rename, IInv, AppliedInPlace
      <4>2. /\ refs'[n] = plan[a][n] /\ todo'[a] = todo[a] \ {n} /\ pc'[a] = "apply"
            /\ \A m \in Name : m # n => refs'[m] = refs[m]
        BY <3>2, <4>1, <1>t, Zenon DEF Rename, TypeOK
      <4>3. \A m \in Touched(plan[a]) \ todo[a] : refs[m] = plan[a][m]
        BY <2>1, Zenon DEF IInv, AppliedInPlace
      <4>4. \A m \in Touched(plan'[a]) \ todo'[a] : refs'[m] = plan'[a][m]
        BY <2>3, <4>2, <4>3, Zenon DEF Touched
      <4> QED BY <2>4, <4>2, <4>4 DEF AppliedInPlace
    <3>3. CASE Remove(a, n)
      <4>1. /\ refs'[n] = plan[a][n] /\ todo'[a] = todo[a] \ {n} /\ pc'[a] = "apply"
            /\ \A m \in Name : m # n => refs'[m] = refs[m]
        BY <3>3, <1>t, Zenon DEF Remove, TypeOK
      <4> QED BY <2>1, <2>3, <2>4, <4>1, SMTT(30) DEF IInv, AppliedInPlace, Touched
    <3> QED BY <1>6, <3>1, <3>2, <3>3, Zenon
  <2>10. OverlayPassed'
    <3>1. \A t \in Thread : pc'[t] = pc[t] \/ pc'[t] \in {"apply", "rename"}
      BY <2>3, <1>t, Zenon DEF Applying
    <3> QED BY <2>3, <3>1, OverlayFrame, Zenon
  <2>11. PreconditionsHold'
    <3>1. \A t \in Thread : pc'[t] # "resolve"
      BY <2>1, <2>2, <2>3, <1>t, Zenon DEF Applying
    <3> QED BY <3>1, PreconditionsFrame, Zenon
  <2> QED BY <1>0, <2>6, <2>7, <2>8, <2>9, <2>10, <2>11, Zenon DEF IInv
<1>7. ASSUME NEW a \in Agent, RemoveJournal(a) PROVE IInv'
  <2>1. Applying(a) /\ pc[a] = "apply"
    BY <1>7, Zenon DEF RemoveJournal, Applied, Applying
  <2>2. \A b \in Agent : b # a => pc[b] \notin {"resolve", "apply", "rename"}
    BY <2>1, Alone, Zenon DEF Applying
  <2>3. /\ pc'[a] = (IF a \in Thread THEN "idle" ELSE "scan") /\ dir' = dir
        /\ \A b \in Agent : b # a => pc'[b] = pc[b] /\ plan'[b] = plan[b]
        /\ plan'[a] = EmptyPlan /\ UNCHANGED <<refs, tmp, batch, k>>
        /\ lock' = [p \in Process |-> IF lock[p] = a THEN Free ELSE lock[p]]
    BY <1>7, <1>t, Zenon DEF RemoveJournal, Idle, TypeOK
  <2>4. journals' = {}
    BY <1>7, <2>1, Zenon DEF RemoveJournal, IInv, OneJournal
  <2>5. \A b \in Agent : ~Applying(b)'
    BY <2>2, <2>3, Zenon DEF Applying
  <2>6. Places'
    BY <2>3, <1>t, SMTT(30) DEF IInv, Places, Agent
  <2>7. ThreadsServed'
    <3>1. CASE a \in Thread BY <3>1, <2>3, <1>t, SMTT(30) DEF IInv, ThreadsServed, Up
    <3>2. CASE a \in Process
      <4>1. \A t \in Thread : pc[t] = "idle" BY <3>2, <2>1, DownIdle, Zenon
      <4> QED BY <3>2, <4>1, <2>3, <1>t DEF ThreadsServed
    <3> QED BY <3>1, <3>2, Zenon DEF Agent
  <2>8. LockGuards'
    <3>1. CASE a \in Thread
      <4> SUFFICES ASSUME NEW s \in Thread
                   PROVE  lock'[ProcessOf[s]] = s <=> pc'[s] \in {"resolve", "apply", "rename"}
        BY Zenon DEF LockGuards
      <4>1. lock'[ProcessOf[s]] = IF lock[ProcessOf[s]] = a THEN Free ELSE lock[ProcessOf[s]]
        BY <2>3, RefStoreAssumption, Zenon
      <4>2. CASE s = a BY <3>1, <2>3, <4>1, <4>2, RefStoreAssumption, Zenon
      <4>3. CASE s # a
        <5>1. pc'[s] = pc[s] BY <2>3, <4>3, <1>t, Zenon
        <5>2. lock[ProcessOf[s]] = s <=> pc[s] \in {"resolve", "apply", "rename"}
          BY Zenon DEF IInv, LockGuards
        <5> QED BY <4>1, <4>3, <5>1, <5>2, RefStoreAssumption, Zenon
      <4> QED BY <4>2, <4>3, Zenon
    <3>2. CASE a \in Process
      <4>1. \A t \in Thread : pc'[t] = pc[t]
        BY <3>2, <2>3, <1>t, RefStoreAssumption, Zenon
      <4>2. \A p \in Process : lock'[p] = lock[p]
        BY <3>2, <2>3, <1>t, RefStoreAssumption, SMTT(30) DEF TypeOK
      <4> QED BY <4>1, <4>2, RefStoreAssumption, Zenon DEF IInv, LockGuards
    <3> QED BY <3>1, <3>2, Zenon DEF Agent
  <2>9. OneJournal'
    <3>1. \A p \in Process : dir[p] = {}
      <4>1. CASE a \in Thread
        BY <4>1, <2>1, <1>t, SMTT(30) DEF IInv, OneJournal, ThreadsServed, Up, SoleProcess
      <4>2. CASE a \in Process
        BY <4>2, <2>1, Zenon DEF IInv, OneJournal, SoleProcess
      <4> QED BY <4>1, <4>2, Zenon DEF Agent
    <3> QED BY <2>3, <2>4, <2>5, <3>1, Zenon DEF OneJournal
  <2>10. AppliedInPlace' BY <2>5, Zenon DEF AppliedInPlace
  <2>11. OverlayPassed'
    <3>1. \A t \in Thread : \/ pc'[t] = pc[t] /\ plan'[t] = plan[t]
                            \/ pc'[t] = "idle" /\ plan'[t] = EmptyPlan
      BY <2>3, <1>t, Zenon
    <3> QED BY <2>3, <3>1, OverlayFrame, Zenon
  <2>12. PreconditionsHold' BY <2>3, <1>t, PreconditionsFrame, Zenon
  <2> QED BY <1>0, <2>6, <2>7, <2>8, <2>9, <2>10, <2>11, <2>12, Zenon DEF IInv
<1>8. ASSUME NEW p \in Process, Open(p) \/ ReadJournal(p) \/ Opened(p) PROVE IInv'
  <2>1. pc[p] \in {"down", "scan"} /\ \A q \in Process : q = p
    BY <1>8, Zenon DEF Open, ReadJournal, Opened, SoleProcess
  <2>2. \A t \in Thread : pc[t] = "idle" /\ plan[t] = EmptyPlan /\ lock[ProcessOf[t]] # t
    BY <2>1, DownIdle, Zenon DEF IInv, OverlayPassed, LockGuards
  <2>3. /\ UNCHANGED <<refs, tmp, journals, lock>>
        /\ pc'[p] \in {"scan", "apply", "up"}
        /\ \A t \in Thread : pc'[t] = "idle" /\ plan'[t] = plan[t]
    <3>1. UNCHANGED <<refs, tmp, journals, lock>>
      BY <1>8, Zenon DEF Open, ReadJournal, Opened, files
    <3>2. pc' = [pc EXCEPT ![p] = pc'[p]] /\ pc'[p] \in {"scan", "apply", "up"}
      BY <1>8, <1>t, Zenon DEF Open, ReadJournal, Opened, TypeOK
    <3>3. plan' = plan \/ \E j \in journals : plan' = [plan EXCEPT ![p] = j.plan]
      BY <1>8, Zenon DEF Open, ReadJournal, Opened
    <3>4. \A t \in Thread : t # p /\ t \in Agent
      BY RefStoreAssumption DEF Agent
    <3>5. /\ DOMAIN pc = Agent /\ pc = [a \in Agent |-> pc[a]]
          /\ DOMAIN plan = Agent /\ plan = [a \in Agent |-> plan[a]]
      BY <1>t DEF TypeOK
    <3>6. \A t \in Thread : pc'[t] = pc[t] /\ plan'[t] = plan[t]
      BY <3>2, <3>3, <3>4, <3>5
    <3> QED BY <2>2, <3>1, <3>2, <3>6, Zenon
  <2>4. (Places /\ ThreadsServed /\ LockGuards /\ OverlayPassed /\ PreconditionsHold)'
    BY <2>1, <2>2, <2>3, Quiet, Zenon
  <2>5. \A a \in Agent : Applying(a)' => a = p
    BY <2>1, <2>3, Zenon DEF Applying, Agent
  <2>6. (OneJournal /\ AppliedInPlace)'
    <3>1. CASE Open(p)
      <4>1. pc'[p] = "scan" /\ dir'[p] = {j.id : j \in journals}
        BY <3>1, <1>t, Zenon DEF Open, TypeOK
      <4>2. \A a \in Agent : ~Applying(a)' BY <4>1, <2>5, Zenon DEF Applying
      <4> QED BY <4>1, <4>2, <2>1, <2>3, Zenon DEF IInv, OneJournal, AppliedInPlace
    <3>2. CASE ReadJournal(p)
      <4>1. PICK j \in journals :
              /\ j.id \in dir[p]
              /\ plan' = [plan EXCEPT ![p] = j.plan]
              /\ todo' = [todo EXCEPT ![p] = Touched(j.plan)]
              /\ jid' = [jid EXCEPT ![p] = j.id]
              /\ dir' = [dir EXCEPT ![p] = @ \ {j.id}]
        BY <3>2, Zenon DEF ReadJournal
      <4>2. /\ pc'[p] = "apply" /\ plan'[p] = j.plan /\ todo'[p] = Touched(j.plan)
            /\ jid'[p] = j.id /\ dir'[p] = dir[p] \ {j.id} /\ pc[p] = "scan"
        BY <3>2, <4>1, <1>t, Zenon DEF ReadJournal, TypeOK
      <4>3. journals = {j} BY Zenon DEF IInv, OneJournal
      <4>4. j = [id |-> j.id, plan |-> j.plan] /\ j.id # 0
        BY <1>t, Zenon DEF TypeOK, Journal
      <4>5. dir'[p] = {}
        <5>1. dir[p] = {i.id : i \in journals} BY <4>2, Zenon DEF IInv, OneJournal
        <5> QED BY <4>2, <4>3, <5>1, Zenon
      <4>6. OneJournal'
        BY <2>1, <2>3, <2>5, <4>2, <4>3, <4>4, <4>5, Zenon DEF OneJournal
      <4>7. AppliedInPlace'
        BY <2>5, <4>2, Zenon DEF AppliedInPlace
      <4> QED BY <4>6, <4>7, Zenon
    <3>3. CASE Opened(p)
      <4>1. pc'[p] = "up" /\ pc[p] = "scan" /\ dir[p] = {} /\ dir' = dir
        BY <3>3, <1>t, Zenon DEF Opened, TypeOK
      <4>2. journals = {}
        <5>1. dir[p] = {i.id : i \in journals} BY <4>1, Zenon DEF IInv, OneJournal
        <5> QED BY <4>1, <5>1
      <4>3. \A a \in Agent : ~Applying(a)' BY <4>1, <2>5, Zenon DEF Applying
      <4> QED BY <2>1, <2>3, <4>1, <4>2, <4>3, Zenon DEF OneJournal, AppliedInPlace
    <3> QED BY <1>8, <3>1, <3>2, <3>3, Zenon
  <2> QED BY <1>0, <2>4, <2>6, Zenon DEF IInv
<1>9. ASSUME NEW p \in Process, Crash(p) PROVE IInv'
  <2>1. \A q \in Process : q = p BY Zenon DEF SoleProcess
  <2>2. /\ \A t \in Thread : pc'[t] = "idle" /\ plan'[t] = EmptyPlan
        /\ pc'[p] = "down" /\ dir'[p] = {} /\ lock'[p] = Free
        /\ UNCHANGED <<refs, tmp, journals>>
    BY <1>9, <2>1, <1>t, Zenon DEF Crash, TypeOK, files
  <2>3. (Places /\ ThreadsServed /\ LockGuards /\ OverlayPassed /\ PreconditionsHold)'
    BY <2>1, <2>2, <1>t, Quiet, SMTT(30)
  <2>4. \A a \in Agent : ~Applying(a)'
    BY <2>1, <2>2, Zenon DEF Applying, Agent
  <2>5. (OneJournal /\ AppliedInPlace)'
    BY <2>1, <2>2, <2>4, Zenon DEF IInv, OneJournal, AppliedInPlace
  <2> QED BY <1>0, <2>3, <2>5, Zenon DEF IInv
<1>10. CASE UNCHANGED vars
  <2>1. UNCHANGED <<refs, tmp, journals, lock, pc, batch, k, plan, todo, jid, dir>>
    BY <1>10, Zenon DEF vars, files
  <2>2. (Places /\ ThreadsServed /\ LockGuards)'
    BY <2>1, Zenon DEF IInv, Places, ThreadsServed, LockGuards, Up
  <2>3. (OneJournal /\ AppliedInPlace)'
    BY <2>1, JournalFrame, AppliedFrame, Zenon DEF Applying
  <2>4. (OverlayPassed /\ PreconditionsHold)'
    BY <2>1, OverlayFrame, PreconditionsFrame, Zenon
  <2> QED BY <1>0, <2>2, <2>3, <2>4, Zenon DEF IInv
<1> QED
  BY <1>1, <1>2, <1>3, <1>4, <1>5, <1>6, <1>7, <1>8, <1>9, <1>10, Zenon
     DEF TxNext, Transaction, Apply, Recover

-----------------------------------------------------------------------------
\* Compare-and-swap is atomic in a repository that one process uses through
\* transactions: from the time resolve() validates an operation to the time
\* the journal is published nobody moves the ref under it, for any number of
\* threads, any batches and any crashes.
THEOREM SwapsAreAtomic == ASSUME SoleProcess PROVE TxSpec => []PreconditionsHold
<1>1. TxSpec => []IInv BY InitInv, StepInv, PTL DEF TxSpec
<1> QED BY <1>1, PTL DEF IInv

\* The refs that recovery makes of the files, with the one journal there can be.
LEMMA ReplayOne ==
    ASSUME NEW js, NEW rs, NEW j, js = {j}
    PROVE  \A n \in Name :
               (IF \E i \in js : i.plan[n] # Skip
                THEN (CHOOSE i \in js : i.plan[n] # Skip).plan[n] ELSE rs[n])
               = (IF j.plan[n] # Skip THEN j.plan[n] ELSE rs[n])
BY Zenon

\* Publishing a journal lays its whole plan over the recovered refs.
LEMMA JournalTakesEffect ==
    ASSUME SoleProcess, IInv, NEW t \in Thread, WriteJournal(t)
    PROVE  View' = Patch(View, plan[t]) /\ pc'[t] = "apply" /\ Resolved(t)
<1>1. pc[t] = "resolve" /\ journals = {}
  BY ResolvesClean, Zenon DEF WriteJournal, Resolved
<1>2. /\ journals' = {[id |-> jseq + 1, plan |-> plan[t]]} /\ refs' = refs
      /\ pc'[t] = "apply" /\ Resolved(t)
  BY <1>1, Zenon DEF WriteJournal, IInv, TypeInv, TypeOK, Agent
<1>3. View = [n \in Name |-> refs[n]] BY <1>1, Zenon DEF View
<1>4. View' = [n \in Name |-> IF plan[t][n] # Skip THEN plan[t][n] ELSE refs[n]]
  <2>1. PICK j : j = [id |-> jseq + 1, plan |-> plan[t]] BY Zenon
  <2>2. journals' = {j} /\ j.plan = plan[t] BY <1>2, <2>1, Zenon
  <2>3. \A n \in Name :
            (IF \E i \in journals' : i.plan[n] # Skip
             THEN (CHOOSE i \in journals' : i.plan[n] # Skip).plan[n] ELSE refs'[n])
            = (IF j.plan[n] # Skip THEN j.plan[n] ELSE refs'[n])
    BY <2>2, ReplayOne, Zenon
  <2>4. View' = [n \in Name |-> IF j.plan[n] # Skip THEN j.plan[n] ELSE refs'[n]]
    BY <2>3, Zenon DEF View
  <2> QED BY <1>2, <2>2, <2>4, Zenon
<1>5. View' = Patch(View, plan[t]) BY <1>3, <1>4, Zenon DEF Patch
<1> QED BY <1>2, <1>5, Zenon

\* Writing a ref of the plan changes no recovered ref: the journal covers it.
LEMMA ApplyKeepsView ==
    ASSUME IInv, NEW a \in Agent, NEW n \in Name, Rename(a, n) \/ Remove(a, n)
    PROVE  View' = View
<1>1. Applying(a) /\ IsFirst(n, todo[a]) /\ n \in Touched(plan[a])
  BY Zenon DEF Rename, Remove, Applying, IsFirst, IInv, TypeInv, TodoPlanned
<1>2. journals = {[id |-> jid[a], plan |-> plan[a]]} /\ journals' = journals
  BY <1>1, Zenon DEF Rename, Remove, IInv, OneJournal
<1>3. \A m \in Name : m # n => refs'[m] = refs[m]
  BY Zenon DEF Rename, Remove, IInv, TypeInv, TypeOK
<1>4. plan[a][n] # Skip BY <1>1, Zenon DEF Touched
<1> QED BY <1>2, <1>3, <1>4, Zenon DEF View

\* Removing the journal changes no recovered ref: all of them are in place.
LEMMA RemovalKeepsView ==
    ASSUME IInv, NEW a \in Agent, RemoveJournal(a)
    PROVE  View' = View
<1>1. Applying(a) /\ todo[a] = {} /\ refs' = refs
  BY Zenon DEF RemoveJournal, Applied, Applying
<1>2. journals = {[id |-> jid[a], plan |-> plan[a]]}
  BY <1>1, Zenon DEF IInv, OneJournal
<1>3. journals' = {} BY <1>2, Zenon DEF RemoveJournal
<1>4. \A n \in Name : plan[a][n] # Skip => refs[n] = plan[a][n]
  BY <1>1, Zenon DEF IInv, AppliedInPlace, Touched
<1>5. PICK j : j = [id |-> jid[a], plan |-> plan[a]] BY Zenon
<1>6. View = [n \in Name |-> IF plan[a][n] # Skip THEN plan[a][n] ELSE refs[n]]
  <2>1. journals = {j} /\ j.plan = plan[a] BY <1>2, <1>5, Zenon
  <2>2. \A n \in Name :
            (IF \E i \in journals : i.plan[n] # Skip
             THEN (CHOOSE i \in journals : i.plan[n] # Skip).plan[n] ELSE refs[n])
            = (IF j.plan[n] # Skip THEN j.plan[n] ELSE refs[n])
    BY <2>1, ReplayOne, Zenon
  <2>3. View = [n \in Name |-> IF j.plan[n] # Skip THEN j.plan[n] ELSE refs[n]]
    BY <2>2, Zenon DEF View
  <2> QED BY <2>1, <2>3, Zenon
<1>7. View' = [n \in Name |-> refs[n]] BY <1>1, <1>3, Zenon DEF View
<1> QED BY <1>4, <1>6, <1>7, Zenon

\* Transactions are all-or-nothing in such a repository: the refs, as
\* recovery would leave them, change only when apply_atomic renames its
\* journal into place, and then by the whole plan, whatever the crashes.
THEOREM AllOrNothing == ASSUME SoleProcess PROVE TxSpec => CommitPoint
<1>1. ASSUME IInv, [TxNext]_vars PROVE View' # View => Publishes
  <2>1. ASSUME NEW t \in Thread, WriteJournal(t) PROVE Publishes
    BY <1>1, <2>1, JournalTakesEffect, Zenon DEF Publishes
  <2>2. ASSUME NEW a \in Agent, NEW n \in Name, Rename(a, n) \/ Remove(a, n)
        PROVE  View' = View
    BY <1>1, <2>2, ApplyKeepsView, Zenon
  <2>3. ASSUME NEW a \in Agent, RemoveJournal(a) PROVE View' = View
    BY <1>1, <2>3, RemovalKeepsView, Zenon
  <2>4. ASSUME UNCHANGED <<refs, journals>> PROVE View' = View
    BY <2>4, Zenon DEF View
  <2> QED
    BY <1>1, <2>1, <2>2, <2>3, <2>4, Zenon
       DEF TxNext, Transaction, Apply, Recover, Commit, AcquireLock, ResolveOp,
           ResolveRefused, CommitEmpty, WriteTmp, Open, ReadJournal, Opened, Crash,
           vars, files
<1>2. TxSpec => []IInv BY InitInv, StepInv, PTL DEF TxSpec
<1>3. IInv /\ [TxNext]_vars => [View' # View => Publishes]_vars BY <1>1, Zenon
<1> QED BY <1>2, <1>3, PTL DEF TxSpec, CommitPoint

-----------------------------------------------------------------------------
(***************************************************************************)
(* The store implements AtomicRefs.  What IInv does not yet say is what    *)
(* resolve() has done so far.                                              *)
(***************************************************************************)
\* AtomicRefs speaks of operations and plans as RefStore does.
LEMMA SameOps ==
    /\ \A op : Atomic!Value(op) = Value(op)
    /\ \A op, cur : Atomic!Refused(op, cur) <=> Refused(op, cur)
    /\ \A rs, overlay, n : Atomic!Current(rs, overlay, n) = Current(rs, overlay, n)
    /\ \A rs, overlay : Atomic!Patch(rs, overlay) = Patch(rs, overlay)
    /\ Atomic!EmptyPlan = EmptyPlan
<1>1. \A op : Atomic!Value(op) = Value(op) BY Zenon DEF Value, Atomic!Value
<1>2. \A slot, kind : Atomic!Is(slot, kind) <=> Is(slot, kind) BY Zenon DEF Is, Atomic!Is
<1>3. \A op, cur : Atomic!Refused(op, cur) <=> Refused(op, cur)
  BY <1>2, Zenon DEF Refused, Atomic!Refused, Is, Atomic!Is
<1> QED BY <1>1, <1>3, Zenon
           DEF Current, Atomic!Current, Patch, Atomic!Patch, EmptyPlan, Atomic!EmptyPlan

\* The overlay is that of the operations passed, and each of them is allowed
\* where it stands in the batch.
Passed(t) ==
    /\ k[t] <= Len(batch[t]) + 1
    /\ plan[t] = Atomic!Overlay(batch[t], k[t] - 1)
    /\ \A i \in DOMAIN batch[t] : i < k[t] =>
          ~Refused(batch[t][i],
                   Current(refs, Atomic!Overlay(batch[t], i - 1), batch[t][i].name))

Resolves == \A t \in Thread : pc[t] = "resolve" => Passed(t)

\* No operation leaves an empty overlay.
LEMMA OverlayEmpty == \A ops : Atomic!Overlay(ops, 0) = EmptyPlan
BY DEF Atomic!Overlay, Atomic!Entered, EmptyPlan

\* One more operation is one more layer.
LEMMA OverlayStep ==
    ASSUME NEW ops \in Seq(RefOp), NEW i \in DOMAIN ops
    PROVE  Atomic!Overlay(ops, i) = Layer(Atomic!Overlay(ops, i - 1), ops[i])
<1> DEFINE entered(h, n) == Atomic!Entered(ops, h, n)
           last(S) == Atomic!Last(S)
<1>1. i \in Nat /\ i - 1 \in Nat /\ ops[i] \in RefOp /\ ops[i].name \in Name
  BY OpType, SMTT(30)
<1>2. \A h, n : n \in Name => Atomic!Overlay(ops, h)[n] =
          IF entered(h, n) = {} THEN Skip ELSE Value(ops[last(entered(h, n))])
  BY SameOps, Zenon DEF Atomic!Overlay
<1>3. \A h : Atomic!Overlay(ops, h) = [n \in Name |-> Atomic!Overlay(ops, h)[n]]
  BY Zenon DEF Atomic!Overlay
<1>4. \A n : ~(ops[i].name = n /\ Value(ops[i]) # Skip) => entered(i, n) = entered(i - 1, n)
  BY <1>1, SameOps, SMTT(30) DEF Atomic!Entered
<1>5. \A n : ops[i].name = n /\ Value(ops[i]) # Skip => i \in entered(i, n) /\ last(entered(i, n)) = i
  <2> SUFFICES ASSUME NEW n, ops[i].name = n, Value(ops[i]) # Skip
               PROVE  i \in entered(i, n) /\ last(entered(i, n)) = i
    BY Zenon
  <2>1. i \in entered(i, n) /\ \A h \in entered(i, n) : h <= i /\ h \in Nat
    BY <1>1, SameOps, SMTT(30) DEF Atomic!Entered
  <2>2. \A j \in entered(i, n) : (\A h \in entered(i, n) : h <= j) => j = i BY <1>1, <2>1
  <2> QED BY <2>1, <2>2, Zenon DEF Atomic!Last
<1> HIDE DEF entered, last
<1>6. \A n \in Name : Atomic!Overlay(ops, i)[n] =
          IF ops[i].name = n /\ Value(ops[i]) # Skip THEN Value(ops[i])
          ELSE Atomic!Overlay(ops, i - 1)[n]
  BY <1>2, <1>4, <1>5, SMTT(30)
<1> QED BY <1>1, <1>3, <1>6, Zenon DEF Layer

\* A step that keeps the refs under every resolving thread keeps what it did.
LEMMA ResolvesFrame ==
    ASSUME Resolves,
           \A t \in Thread : pc'[t] = "resolve" =>
               /\ pc[t] = "resolve" /\ refs' = refs /\ plan'[t] = plan[t]
               /\ k'[t] = k[t] /\ batch'[t] = batch[t]
    PROVE  Resolves'
BY Zenon DEF Resolves, Passed

\* Every step preserves what resolve() has done so far.
LEMMA StepResolves == SoleProcess /\ IInv /\ Resolves /\ [TxNext]_vars => Resolves'
<1> SUFFICES ASSUME SoleProcess, IInv, Resolves, [TxNext]_vars PROVE Resolves'
  BY Zenon
<1>t. TypeOK /\ (\A t \in Thread : t \in Agent) /\ \A p \in Process : p \in Agent
  BY Zenon DEF IInv, TypeInv, Agent
<1>1. ASSUME NEW t \in Thread, NEW b \in Batches, Commit(t, b) PROVE Resolves'
  BY <1>1, <1>t, ResolvesFrame, Zenon DEF Commit, TypeOK, files
<1>2. ASSUME NEW t \in Thread, AcquireLock(t) PROVE Resolves'
  <2>1. /\ k'[t] = 1 /\ plan'[t] = EmptyPlan /\ batch' = batch /\ batch[t] \in Seq(RefOp)
        /\ \A s \in Thread : s # t => pc'[s] = pc[s] /\ k'[s] = k[s]
        /\ UNCHANGED <<refs, plan>>
    BY <1>2, <1>t, Zenon DEF AcquireLock, TypeOK, files, IInv, OverlayPassed
  <2>2. Passed(t)'
    <3>0. batch[t] \in Seq(RefOp) BY <2>1, Zenon
    <3>1. Len(batch[t]) \in Nat /\ \A i \in DOMAIN batch[t] : ~(i < 1)
      <4>1. Len(batch[t]) \in Nat /\ \A i \in DOMAIN batch[t] : i \in Nat \ {0}
        BY ONLY <3>0, Indices, Zenon
      <4> QED BY ONLY <4>1
    <3>2. k'[t] <= Len(batch[t]) + 1 /\ k'[t] - 1 = 0
      BY <2>1, <3>1
    <3> QED BY <2>1, <3>1, <3>2, OverlayEmpty, Zenon DEF Passed
  <2> QED BY <2>1, <2>2, Zenon DEF Resolves, Passed
<1>3. ASSUME NEW t \in Thread, ResolveOp(t) PROVE Resolves'
  <2>1. /\ k'[t] = k[t] + 1 /\ plan'[t] = Layer(plan[t], Op(t)) /\ batch' = batch /\ refs' = refs
        /\ pc' = pc /\ \A s \in Thread : s # t => plan'[s] = plan[s] /\ k'[s] = k[s]
    BY <1>3, <1>t, Zenon DEF ResolveOp, TypeOK, files
  <2>2. /\ pc[t] = "resolve" /\ k[t] \in DOMAIN batch[t] /\ Op(t) = batch[t][k[t]]
        /\ ~Refused(Op(t), Current(refs, plan[t], Op(t).name))
        /\ batch[t] \in Seq(RefOp) /\ k[t] \in Nat
    BY <1>3, <1>t, Zenon DEF ResolveOp, Resolving, Op, Sees, TypeOK
  <2>3. Passed(t) BY <2>2, Zenon DEF Resolves
  <2>4. Passed(t)'
    <3>1. plan'[t] = Atomic!Overlay(batch[t], k[t])
      BY <2>1, <2>2, <2>3, OverlayStep, Zenon DEF Passed
    <3>2. \A i \in DOMAIN batch[t] : i < k[t] + 1 =>
             ~Refused(batch[t][i],
                      Current(refs, Atomic!Overlay(batch[t], i - 1), batch[t][i].name))
      <4> SUFFICES ASSUME NEW i \in DOMAIN batch[t], i < k[t] + 1
                   PROVE  ~Refused(batch[t][i],
                             Current(refs, Atomic!Overlay(batch[t], i - 1), batch[t][i].name))
        BY Zenon
      <4>1. i \in Nat /\ k[t] \in Nat
        <5>1. batch[t] \in Seq(RefOp) /\ k[t] \in Nat BY <2>2, Zenon
        <5> QED BY <5>1, Indices, Zenon
      <4>2. i < k[t] \/ i = k[t] BY <4>1
      <4> QED BY <4>2, <2>2, <2>3, Zenon DEF Passed
    <3>3. k'[t] <= Len(batch[t]) + 1 /\ k'[t] - 1 = k[t]
      <4>1. k[t] \in Nat /\ Len(batch[t]) \in Nat /\ k[t] <= Len(batch[t])
        <5>1. batch[t] \in Seq(RefOp) /\ k[t] \in DOMAIN batch[t] BY <2>2, Zenon
        <5> QED BY ONLY <5>1, Indices, Zenon
      <4> QED BY <2>1, <4>1, SMTT(30)
    <3> QED BY <2>1, <3>1, <3>2, <3>3, Zenon DEF Passed
  <2> QED BY <2>1, <2>4, Zenon DEF Resolves, Passed
<1>4. ASSUME NEW t \in Thread, ResolveRefused(t) \/ CommitEmpty(t) \/ WriteJournal(t)
      PROVE  Resolves'
  <2>1. /\ pc'[t] # "resolve" /\ UNCHANGED <<refs, batch, k>>
        /\ \A s \in Thread : s # t => pc'[s] = pc[s] /\ plan'[s] = plan[s]
    BY <1>4, <1>t, Zenon DEF ResolveRefused, CommitEmpty, WriteJournal, Idle, TypeOK, files
  <2> QED BY <2>1, ResolvesFrame, Zenon
<1>5. ASSUME NEW a \in Agent, Apply(a) PROVE Resolves'
  <2>1. pc[a] \in {"apply", "rename"} /\ pc'[a] # "resolve"
        /\ \A s \in Agent : s # a => pc'[s] = pc[s]
    BY <1>5, <1>t, Zenon DEF Apply, WriteTmp, Rename, Remove, RemoveJournal, Applied, Idle, TypeOK
  <2>2. \A t \in Thread : pc'[t] # "resolve" BY <2>1, <1>t, Alone, Zenon
  <2> QED BY <2>2, ResolvesFrame, Zenon
<1>6. ASSUME NEW p \in Process, Recover(p) \/ Crash(p) PROVE Resolves'
  <2>1. \A t \in Thread : pc'[t] # "resolve"
    <3>1. CASE Crash(p)
      BY <3>1, RefStoreAssumption, Zenon DEF Crash, SoleProcess, Agent
    <3>2. CASE Recover(p)
      <4>1. \A t \in Thread : pc[t] = "idle"
        BY <3>2, DownIdle, Zenon DEF Recover, Open, ReadJournal, Opened
      <4>2. pc'[p] # "resolve" /\ \A t \in Thread : t # p => pc'[t] = pc[t]
        BY <3>2, <1>t, Zenon DEF Recover, Open, ReadJournal, Opened, TypeOK
      <4> QED BY <4>1, <4>2, Zenon
    <3> QED BY <1>6, <3>1, <3>2, Zenon
  <2> QED BY <2>1, ResolvesFrame, Zenon
<1>7. CASE UNCHANGED vars
  BY <1>7, ResolvesFrame, Zenon DEF vars, files
<1> QED BY <1>1, <1>2, <1>3, <1>4, <1>5, <1>6, <1>7, Zenon DEF TxNext, Transaction

\* What a caller sees of a thread...
LEMMA Stages ==
    /\ Stage("idle") = "none"
    /\ Stage("lock") = "called" /\ Stage("resolve") = "called"
    /\ Stage("apply") = "committed" /\ Stage("rename") = "committed"
BY Zenon DEF Stage

\* ... and of a step that moves only this thread.
LEMMA PhaseMoves ==
    ASSUME NEW t \in Thread, \A s \in Thread : s # t => pc'[s] = pc[s]
    PROVE  Phase[t] = Stage(pc[t]) /\ Phase' = [Phase EXCEPT ![t] = Stage(pc'[t])]
BY Zenon DEF Phase

\* While a thread resolves, the recovered refs are those on disk, and the
\* batch is allowed when its operations have all been passed.
LEMMA ResolvedAllowed ==
    ASSUME SoleProcess, IInv, Resolves, NEW t \in Thread, pc[t] = "resolve"
    PROVE  /\ View = refs
           /\ Resolved(t) => Atomic!Allowed(batch[t]) /\ plan[t] = Atomic!Whole(batch[t])
           /\ Resolving(t) /\ Refused(Op(t), Sees(t)) => ~Atomic!Allowed(batch[t])
<1>1. /\ Passed(t) /\ k[t] \in Nat \ {0} /\ batch[t] \in Seq(RefOp)
      /\ refs = [n \in Name |-> refs[n]]
  BY Zenon DEF Resolves, IInv, TypeInv, TypeOK
<1>2. View = refs
  BY <1>1, ResolvesClean, Zenon DEF View
<1>3. ASSUME Resolved(t) PROVE Atomic!Allowed(batch[t]) /\ plan[t] = Atomic!Whole(batch[t])
  <2>1. Len(batch[t]) \in Nat BY <1>1
  <2>2. k[t] <= Len(batch[t]) + 1 /\ k[t] > Len(batch[t]) BY <1>1, <1>3, Zenon DEF Resolved, Passed
  <2>3. k[t] = Len(batch[t]) + 1 BY <1>1, <2>1, <2>2
  <2>4. \A i \in DOMAIN batch[t] : i < k[t] BY <1>1, <2>3
  <2>5. k[t] - 1 = Len(batch[t]) BY <2>1, <2>3
  <2> QED BY <1>1, <1>2, <2>4, <2>5, SameOps, Zenon DEF Passed, Atomic!Allowed, Atomic!Whole
<1>4. ASSUME Resolving(t), Refused(Op(t), Sees(t)) PROVE ~Atomic!Allowed(batch[t])
  BY <1>1, <1>2, <1>4, SameOps, Zenon DEF Resolving, Op, Sees, Passed, Atomic!Allowed
<1> QED BY <1>2, <1>3, <1>4, Zenon

\* Every step of the store is a step of AtomicRefs or changes nothing in it.
LEMMA StepRefines ==
    SoleProcess /\ IInv /\ Resolves /\ [TxNext]_vars => [Atomic!Next]_(Atomic!vars)
<1> SUFFICES ASSUME SoleProcess, IInv, Resolves, [TxNext]_vars
             PROVE  Atomic!Next \/ UNCHANGED <<View, Phase, batch, out>>
  BY Zenon DEF Atomic!vars
<1>t. TypeOK /\ (\A t \in Thread : t \in Agent) /\ \A p \in Process : p \in Agent
  BY Zenon DEF IInv, TypeInv, Agent
<1>v. UNCHANGED <<refs, journals>> => View' = View
  BY Zenon DEF View
<1>1. ASSUME NEW t \in Thread, NEW b \in Batches, Commit(t, b) PROVE Atomic!Next
  <2>1. pc'[t] = "lock" /\ \A s \in Thread : s # t => pc'[s] = pc[s]
    BY <1>1, <1>t, Zenon DEF Commit, TypeOK
  <2>2. Phase[t] = "none" /\ Phase' = [Phase EXCEPT ![t] = "called"]
    BY <1>1, <2>1, PhaseMoves, Stages DEF Commit
  <2>3. Atomic!Invoke(t, b)
    BY <1>1, <1>v, <2>2, Zenon DEF Commit, files, Atomic!Invoke
  <2> QED BY <2>3, Zenon DEF Atomic!Next
<1>2. ASSUME NEW t \in Thread, AcquireLock(t) \/ ResolveOp(t)
      PROVE  UNCHANGED <<View, Phase, batch, out>>
  <2>1. /\ pc[t] \in {"lock", "resolve"} /\ pc'[t] \in {"lock", "resolve"}
        /\ \A s \in Thread : s # t => pc'[s] = pc[s]
    BY <1>2, <1>t, Zenon DEF AcquireLock, ResolveOp, Resolving, TypeOK
  <2>2. Phase' = Phase BY <2>1, Stages, Zenon DEF Phase
  <2> QED BY <1>2, <1>v, <2>2, Zenon DEF AcquireLock, ResolveOp, files
<1>3. ASSUME NEW t \in Thread, ResolveRefused(t) \/ CommitEmpty(t) PROVE Atomic!Next
  <2>1. pc[t] = "resolve" /\ pc'[t] = "idle" /\ \A s \in Thread : s # t => pc'[s] = pc[s]
    BY <1>3, <1>t, Zenon DEF ResolveRefused, CommitEmpty, Resolving, Resolved, Idle, TypeOK
  <2>2. Phase[t] = "called" /\ Phase' = [Phase EXCEPT ![t] = "none"]
    BY <2>1, PhaseMoves, Stages, SMTT(30)
  <2>3. View' = View /\ batch' = batch
    BY <1>3, <1>v, Zenon DEF ResolveRefused, CommitEmpty, files
  <2>4. CASE ResolveRefused(t)
    <3>1. Atomic!Refuse(t)
      BY <2>1, <2>2, <2>3, <2>4, ResolvedAllowed, Zenon DEF ResolveRefused, Idle, Atomic!Refuse
    <3> QED BY <3>1, Zenon DEF Atomic!Next
  <2>5. CASE CommitEmpty(t)
    <3>1. Atomic!Allowed(batch[t]) /\ plan[t] = Atomic!Whole(batch[t])
      BY <2>1, <2>5, ResolvedAllowed, Zenon DEF CommitEmpty
    <3>2. plan[t] = EmptyPlan
      BY <2>5, <1>t, Zenon DEF CommitEmpty, Touched, TypeOK, Plan, EmptyPlan
    <3>3. Atomic!ReturnEmpty(t)
      BY <2>2, <2>3, <2>5, <3>1, <3>2, SameOps, Zenon DEF CommitEmpty, Idle, Atomic!ReturnEmpty
    <3> QED BY <3>3, Zenon DEF Atomic!Next
  <2> QED BY <1>3, <2>4, <2>5, Zenon
<1>4. ASSUME NEW t \in Thread, WriteJournal(t) PROVE Atomic!Next
  <2>1. pc[t] = "resolve" /\ pc'[t] = "apply" /\ \A s \in Thread : s # t => pc'[s] = pc[s]
    BY <1>4, <1>t, Zenon DEF WriteJournal, Resolved, TypeOK
  <2>2. Phase[t] = "called" /\ Phase' = [Phase EXCEPT ![t] = "committed"]
    BY <2>1, PhaseMoves, Stages, SMTT(30)
  <2>3. Atomic!Allowed(batch[t]) /\ View' = Atomic!Patch(View, Atomic!Whole(batch[t]))
    BY <1>4, <2>1, ResolvedAllowed, JournalTakesEffect, SameOps, Zenon
  <2>4. Atomic!TakeEffect(t)
    BY <1>4, <2>2, <2>3, Zenon DEF WriteJournal, Atomic!TakeEffect
  <2> QED BY <2>4, Zenon DEF Atomic!Next
<1>5. ASSUME NEW a \in Agent, NEW n \in Name, WriteTmp(a, n) \/ Rename(a, n) \/ Remove(a, n)
      PROVE  UNCHANGED <<View, Phase, batch, out>>
  <2>1. View' = View
    BY <1>5, <1>v, ApplyKeepsView, Zenon DEF WriteTmp
  <2>2. /\ pc[a] \in {"apply", "rename"} /\ pc'[a] \in {"apply", "rename"}
        /\ \A s \in Thread : s # a => pc'[s] = pc[s]
    BY <1>5, <1>t, Zenon DEF WriteTmp, Rename, Remove, TypeOK
  <2>3. Phase' = Phase BY <2>2, Stages, Zenon DEF Phase
  <2> QED BY <1>5, <2>1, <2>3, Zenon DEF WriteTmp, Rename, Remove
<1>6. ASSUME NEW a \in Agent, RemoveJournal(a)
      PROVE  Atomic!Next \/ UNCHANGED <<View, Phase, batch, out>>
  <2>1. View' = View /\ batch' = batch
    BY <1>6, RemovalKeepsView, Zenon DEF RemoveJournal
  <2>2. \A s \in Thread : s # a => pc'[s] = pc[s]
    BY <1>6, <1>t, Zenon DEF RemoveJournal, Idle, TypeOK
  <2>3. CASE a \in Thread
    <3>1. pc[a] = "apply" /\ pc'[a] = "idle"
      BY <1>6, <2>3, <1>t, Zenon DEF RemoveJournal, Applied, Idle, TypeOK
    <3>2. Phase[a] = "committed" /\ Phase' = [Phase EXCEPT ![a] = "none"]
      BY <2>2, <2>3, <3>1, PhaseMoves, Stages, SMTT(30)
    <3>3. Atomic!Return(a)
      BY <1>6, <2>1, <2>3, <3>2, Zenon DEF RemoveJournal, Idle, Atomic!Return
    <3> QED BY <2>3, <3>3, Zenon DEF Atomic!Next
  <2>4. CASE a \notin Thread
    <3>1. Phase' = Phase BY <2>2, <2>4, Zenon DEF Phase
    <3> QED BY <1>6, <2>1, <2>4, <3>1, Zenon DEF RemoveJournal, Idle
  <2> QED BY <2>3, <2>4, Zenon
<1>7. ASSUME NEW p \in Process, Open(p) \/ ReadJournal(p) \/ Opened(p)
      PROVE  UNCHANGED <<View, Phase, batch, out>>
  <2>1. \A s \in Thread : pc'[s] = pc[s]
    BY <1>7, <1>t, RefStoreAssumption, ZenonT(30) DEF Open, ReadJournal, Opened, TypeOK
  <2>2. Phase' = Phase BY <2>1, Stages, Zenon DEF Phase
  <2> QED BY <1>7, <1>v, <2>2, Zenon DEF Open, ReadJournal, Opened, files
<1>8. ASSUME NEW p \in Process, Crash(p) PROVE Atomic!Next
  <2>1. \A s \in Thread : pc'[s] = IF ProcessOf[s] = p THEN "idle" ELSE pc[s]
    BY <1>8, RefStoreAssumption, Zenon DEF Crash, Agent
  <2>2. Phase' = [s \in Thread |-> IF ProcessOf[s] = p THEN "none" ELSE Phase[s]]
    BY <2>1, Stages, Zenon DEF Phase
  <2>3. out' = [s \in Thread |-> IF ProcessOf[s] = p THEN "none" ELSE out[s]]
    BY <1>8, RefStoreAssumption, Zenon DEF Crash
  <2>4. Atomic!Die(p)
    BY <1>8, <1>v, <2>2, <2>3, Zenon DEF Crash, files, Atomic!Die
  <2> QED BY <2>4, Zenon DEF Atomic!Next
<1>9. CASE UNCHANGED vars
  BY <1>9, <1>v, Zenon DEF vars, files, Phase
<1> QED
  BY <1>1, <1>2, <1>3, <1>4, <1>5, <1>6, <1>7, <1>8, <1>9, Zenon
     DEF TxNext, Transaction, Apply, Recover

\* For callers, the store of one process is an atomic ref store: every
\* transaction takes effect at one instant, the rename of its journal, as a
\* whole and only if each of its operations is allowed there; one that is
\* refused has an operation that was not; and a crash at any step, also of
\* a recovery, ends a call before or after its effect and never inside it.
THEOREM ImplementsAtomicRefs == ASSUME SoleProcess PROVE TxSpec => AtomicRefsSpec
<1>1. Init => Resolves /\ Atomic!Init
  <2> SUFFICES ASSUME Init PROVE Resolves /\ Atomic!Init
    BY Zenon
  <2>1. \A t \in Thread : pc[t] = "idle"
    BY RefStoreAssumption, Zenon DEF Init, Agent
  <2>2. View = [n \in Name |-> Null] BY Zenon DEF Init, View
  <2>3. Phase = [t \in Thread |-> "none"] BY <2>1, Stages, Zenon DEF Phase
  <2> QED BY <2>1, <2>2, <2>3, Zenon DEF Init, Resolves, Atomic!Init
<1>2. TxSpec => [](IInv /\ Resolves)
  BY <1>1, InitInv, StepInv, StepResolves, PTL DEF TxSpec
<1> QED BY <1>1, <1>2, StepRefines, PTL DEF TxSpec, AtomicRefsSpec, Atomic!Spec
=============================================================================
