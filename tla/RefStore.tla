------------------------------ MODULE RefStore ------------------------------
(***************************************************************************)
(* RefStore over DiskRefBackend: transactions behind the commit lock and   *)
(* the write-ahead journal, the single-ref calls that use neither, the     *)
(* recovery that runs when a repository is opened, crashes and failed      *)
(* writes.  Every file-system effect is a step of its own.                 *)
(***************************************************************************)
EXTENDS RefOps

CONSTANTS
    Process,      \* operating-system processes that open the repository
    Thread,       \* threads that call the ref store
    ProcessOf,    \* the process of each thread
    Free,         \* the commit lock is not held
    Batches,      \* the transactions clients commit
    Calls,        \* the single-ref operations clients call
    MaxCalls,     \* bound on the number of calls
    MaxCrashes,   \* bound on the number of crashes
    MaxIoErrors   \* bound on the number of failed file writes

ASSUME RefStoreAssumption ==
    /\ ProcessOf \in [Thread -> Process]
    /\ Process \cap Thread = {}
    /\ Free \notin Thread
    /\ Batches \subseteq Seq(RefOp)
    /\ Calls \subseteq {op \in RefOp : op.type \notin {"Expect", "AdvanceHeadIf"}}
    /\ MaxCalls \in Nat /\ MaxCrashes \in Nat /\ MaxIoErrors \in Nat

VARIABLES
    refs,      \* the ref files
    tmp,       \* the temporary file of each ref, `.{name}.tmp`
    journals,  \* the `*.journal` files under refs/.txn
    jseq,      \* how many journals were ever written: names are unique
    lock,      \* commit_lock of each process
    pc,        \* where each thread, and each process's open(), stands
    batch,     \* the operations a thread is committing
    k,         \* the next operation to resolve
    plan,      \* overlay of resolve, then the plan being applied
    todo,      \* names of the plan still to be written
    jid,       \* the journal that covers the plan; 0 when there is none
    dir,       \* the journals an open() has listed and not yet replayed
    out,       \* what a thread's last call returned
    calls, crashes, ioErrors

files == <<refs, tmp, journals, jseq>>
bounds == <<calls, crashes, ioErrors>>
vars == <<files, lock, pc, batch, k, plan, todo, jid, dir, out, bounds>>

Agent == Thread \cup Process
Journal == [id : Nat \ {0}, plan : Plan]

TypeOK ==
    /\ refs \in [Name -> Slot]
    /\ tmp \in [Name -> Slot]
    /\ journals \subseteq Journal
    /\ jseq \in Nat
    /\ lock \in [Process -> Thread \cup {Free}]
    /\ pc \in [Agent -> {"idle", "lock", "resolve", "apply", "rename",
                         "down", "scan", "up"}]
    /\ batch \in [Thread -> Seq(RefOp)]
    /\ k \in [Thread -> Nat \ {0}]
    /\ plan \in [Agent -> Plan]
    /\ todo \in [Agent -> SUBSET Name]
    /\ jid \in [Agent -> Nat]
    /\ dir \in [Process -> SUBSET Nat]
    /\ out \in [Thread -> {"none", "ok", "err"}]
    /\ calls \in Nat /\ crashes \in Nat /\ ioErrors \in Nat

\* A fresh repository, not yet opened.
Init ==
    /\ refs = [n \in Name |-> Null]
    /\ tmp = [n \in Name |-> Null]
    /\ journals = {}
    /\ jseq = 0
    /\ lock = [p \in Process |-> Free]
    /\ pc = [a \in Agent |-> IF a \in Process THEN "down" ELSE "idle"]
    /\ batch = [t \in Thread |-> <<>>]
    /\ k = [t \in Thread |-> 1]
    /\ plan = [a \in Agent |-> EmptyPlan]
    /\ todo = [a \in Agent |-> {}]
    /\ jid = [a \in Agent |-> 0]
    /\ dir = [p \in Process |-> {}]
    /\ out = [t \in Thread |-> "none"]
    /\ calls = 0 /\ crashes = 0 /\ ioErrors = 0

Up(t) == pc[ProcessOf[t]] = "up"
IsFirst(n, names) == n \in names /\ \A m \in names : n <= m

-----------------------------------------------------------------------------
(* How a call ends.  A thread returns its result and drops the lock guard; *)
(* an open() leaves the process up, or down when it returns an error.      *)

\* Mutant: the guard is leaked, so the lock stays held.
IdleLeaksLock(a, result) ==
    /\ pc' = [pc EXCEPT ![a] = IF a \in Thread THEN "idle"
                               ELSE IF result = "ok" THEN "scan" ELSE "down"]
    /\ out' = IF a \in Thread THEN [out EXCEPT ![a] = result] ELSE out
    /\ plan' = [plan EXCEPT ![a] = EmptyPlan]
    /\ todo' = [todo EXCEPT ![a] = {}]
    /\ jid' = [jid EXCEPT ![a] = 0]
    /\ dir' = IF a \in Process /\ result # "ok" THEN [dir EXCEPT ![a] = {}] ELSE dir
    /\ UNCHANGED lock

Idle(a, result) ==
    /\ pc' = [pc EXCEPT ![a] = IF a \in Thread THEN "idle"
                               ELSE IF result = "ok" THEN "scan" ELSE "down"]
    /\ out' = IF a \in Thread THEN [out EXCEPT ![a] = result] ELSE out
    /\ lock' = [p \in Process |-> IF lock[p] = a THEN Free ELSE lock[p]]
    /\ plan' = [plan EXCEPT ![a] = EmptyPlan]
    /\ todo' = [todo EXCEPT ![a] = {}]
    /\ jid' = [jid EXCEPT ![a] = 0]
    /\ dir' = IF a \in Process /\ result # "ok" THEN [dir EXCEPT ![a] = {}] ELSE dir

-----------------------------------------------------------------------------
(* RefStore::commit_transaction.                                           *)

\* A thread calls commit() on a transaction it has built.
Commit(t, b) ==
    /\ Up(t) /\ pc[t] = "idle" /\ calls < MaxCalls
    /\ pc' = [pc EXCEPT ![t] = "lock"]
    /\ batch' = [batch EXCEPT ![t] = b]
    /\ out' = [out EXCEPT ![t] = "none"]
    /\ calls' = calls + 1
    /\ UNCHANGED <<files, lock, k, plan, todo, jid, dir, crashes, ioErrors>>

\* Mutant: commit_transaction does not wait for the lock.
AcquireHeldLock(t) ==
    /\ pc[t] = "lock"
    /\ lock' = [lock EXCEPT ![ProcessOf[t]] = t]
    /\ pc' = [pc EXCEPT ![t] = "resolve"]
    /\ k' = [k EXCEPT ![t] = 1]
    /\ UNCHANGED <<files, batch, plan, todo, jid, dir, out, bounds>>

AcquireLock(t) ==
    /\ pc[t] = "lock" /\ lock[ProcessOf[t]] = Free
    /\ lock' = [lock EXCEPT ![ProcessOf[t]] = t]
    /\ pc' = [pc EXCEPT ![t] = "resolve"]
    /\ k' = [k EXCEPT ![t] = 1]
    /\ UNCHANGED <<files, batch, plan, todo, jid, dir, out, bounds>>

Resolving(t) == pc[t] = "resolve" /\ k[t] \in DOMAIN batch[t]
Op(t) == batch[t][k[t]]
\* Mutant: resolve ignores the operations before it in the batch.
SeesBackendOnly(t) == refs[Op(t).name]
Sees(t) == Current(refs, plan[t], Op(t).name)

\* One iteration of resolve(): validate against what the operation sees.
ResolveOp(t) ==
    /\ Resolving(t) /\ ~Refused(Op(t), Sees(t))
    /\ plan' = [plan EXCEPT ![t] = Layer(@, Op(t))]
    /\ k' = [k EXCEPT ![t] = @ + 1]
    /\ UNCHANGED <<files, lock, pc, batch, todo, jid, dir, out, bounds>>

\* A violated rule or precondition aborts the transaction.
ResolveRefused(t) ==
    /\ Resolving(t) /\ Refused(Op(t), Sees(t))
    /\ Idle(t, "err")
    /\ UNCHANGED <<files, batch, k, bounds>>

Resolved(t) == pc[t] = "resolve" /\ k[t] > Len(batch[t])

\* apply_atomic of an empty plan.
CommitEmpty(t) ==
    /\ Resolved(t) /\ Touched(plan[t]) = {}
    /\ Idle(t, "ok")
    /\ UNCHANGED <<files, batch, k, bounds>>

\* apply_atomic up to the rename that publishes the fsynced journal.
WriteJournal(t) ==
    /\ Resolved(t) /\ Touched(plan[t]) # {}
    /\ jseq' = jseq + 1
    /\ journals' = journals \cup {[id |-> jseq + 1, plan |-> plan[t]]}
    /\ jid' = [jid EXCEPT ![t] = jseq + 1]
    /\ todo' = [todo EXCEPT ![t] = Touched(plan[t])]
    /\ pc' = [pc EXCEPT ![t] = "apply"]
    /\ UNCHANGED <<refs, tmp, lock, batch, k, plan, dir, out, bounds>>

-----------------------------------------------------------------------------
(* apply_plan, for a committing thread, for a single-ref call (a plan of   *)
(* one ref with no journal) and for recovery.                              *)

\* DiskRefBackend::set writes the temporary file, whose name is shared...
WriteTmp(a, n) ==
    /\ pc[a] = "apply" /\ IsFirst(n, todo[a]) /\ plan[a][n] # Null
    /\ tmp' = [tmp EXCEPT ![n] = plan[a][n]]
    /\ pc' = [pc EXCEPT ![a] = "rename"]
    /\ UNCHANGED <<refs, journals, jseq, lock, batch, k, plan, todo, jid, dir, out, bounds>>

\* ... and renames it over the ref file.
Rename(a, n) ==
    /\ pc[a] = "rename" /\ IsFirst(n, todo[a]) /\ tmp[n] # Null
    /\ refs' = [refs EXCEPT ![n] = tmp[n]]
    /\ tmp' = [tmp EXCEPT ![n] = Null]
    /\ todo' = [todo EXCEPT ![a] = @ \ {n}]
    /\ pc' = [pc EXCEPT ![a] = "apply"]
    /\ UNCHANGED <<journals, jseq, lock, batch, k, plan, jid, dir, out, bounds>>

\* Another writer renamed the shared temporary file away: NotFound.
RenameMissing(a, n) ==
    /\ pc[a] = "rename" /\ IsFirst(n, todo[a]) /\ tmp[n] = Null
    /\ Idle(a, "err")
    /\ UNCHANGED <<files, batch, k, bounds>>

\* DiskRefBackend::delete; a missing file is not an error.
Remove(a, n) ==
    /\ pc[a] = "apply" /\ IsFirst(n, todo[a]) /\ plan[a][n] = Null
    /\ refs' = [refs EXCEPT ![n] = Null]
    /\ todo' = [todo EXCEPT ![a] = @ \ {n}]
    /\ UNCHANGED <<tmp, journals, jseq, lock, pc, batch, k, plan, jid, dir, out, bounds>>

\* A write fails (no space left), of the journal or of a ref: `?` abandons
\* the commit where it stands.
WriteFails(a) ==
    /\ ioErrors < MaxIoErrors
    /\ \/ a \in Thread /\ Resolved(a) /\ Touched(plan[a]) # {}
       \/ pc[a] = "apply" /\ \E n \in Name : IsFirst(n, todo[a]) /\ plan[a][n] # Null
    /\ Idle(a, "err")
    /\ ioErrors' = ioErrors + 1
    /\ UNCHANGED <<files, batch, k, calls, crashes>>

\* Mutant: the journal goes before the last ref is in place.
AppliedEarly(a) == pc[a] = "apply" /\ jid[a] # 0

Applied(a) == pc[a] = "apply" /\ todo[a] = {} /\ jid[a] # 0

\* Mutant: nobody removes the journal.
RemoveNoJournal(a) ==
    /\ Applied(a) /\ \E j \in journals : j.id = jid[a]
    /\ Idle(a, "ok")
    /\ UNCHANGED <<files, batch, k, bounds>>

\* The journal is removed once every ref is in place.
RemoveJournal(a) ==
    /\ Applied(a) /\ \E j \in journals : j.id = jid[a]
    /\ journals' = {j \in journals : j.id # jid[a]}
    /\ Idle(a, "ok")
    /\ UNCHANGED <<refs, tmp, jseq, batch, k, bounds>>

\* It is gone already: the `?` on remove_file turns that into an error.
JournalMissing(a) ==
    /\ Applied(a) /\ ~\E j \in journals : j.id = jid[a]
    /\ Idle(a, "err")
    /\ UNCHANGED <<files, batch, k, bounds>>

-----------------------------------------------------------------------------
(* The single-ref calls: create_tag, create_timeline, move_tag,            *)
(* advance_head, set_raw and delete_ref read, decide and write without the *)
(* commit lock and without a journal.                                      *)

\* The read and the check (set_raw and delete_ref check nothing).
Call(t, op) ==
    /\ Up(t) /\ pc[t] = "idle" /\ calls < MaxCalls
    /\ ~Refused(op, refs[op.name])
    /\ plan' = [plan EXCEPT ![t] = Layer(EmptyPlan, op)]
    /\ todo' = [todo EXCEPT ![t] = {op.name}]
    /\ pc' = [pc EXCEPT ![t] = "apply"]
    /\ batch' = [batch EXCEPT ![t] = <<op>>]
    /\ out' = [out EXCEPT ![t] = "none"]
    /\ calls' = calls + 1
    /\ UNCHANGED <<files, lock, k, jid, dir, crashes, ioErrors>>

CallRefused(t, op) ==
    /\ Up(t) /\ pc[t] = "idle" /\ calls < MaxCalls
    /\ Refused(op, refs[op.name])
    /\ out' = [out EXCEPT ![t] = "err"]
    /\ calls' = calls + 1
    /\ UNCHANGED <<files, lock, pc, batch, k, plan, todo, jid, dir, crashes, ioErrors>>

CallReturns(t) ==
    /\ pc[t] = "apply" /\ todo[t] = {} /\ jid[t] = 0
    /\ Idle(t, "ok")
    /\ UNCHANGED <<files, batch, k, bounds>>

-----------------------------------------------------------------------------
(* DiskRefBackend::open and recover.                                       *)

\* Opening lists the transaction directory.
Open(p) ==
    /\ pc[p] = "down"
    /\ pc' = [pc EXCEPT ![p] = "scan"]
    /\ dir' = [dir EXCEPT ![p] = {j.id : j \in journals}]
    /\ UNCHANGED <<files, lock, batch, k, plan, todo, jid, out, bounds>>

\* Recovery reads a listed journal, in directory order, and replays it.
ReadJournal(p) ==
    /\ pc[p] = "scan"
    /\ \E j \in journals :
          /\ j.id \in dir[p]
          /\ plan' = [plan EXCEPT ![p] = j.plan]
          /\ todo' = [todo EXCEPT ![p] = Touched(j.plan)]
          /\ jid' = [jid EXCEPT ![p] = j.id]
          /\ dir' = [dir EXCEPT ![p] = @ \ {j.id}]
    /\ pc' = [pc EXCEPT ![p] = "apply"]
    /\ UNCHANGED <<files, lock, batch, k, out, bounds>>

\* A listed journal was removed by its writer: the read fails, and open.
ReadMissing(p) ==
    /\ pc[p] = "scan"
    /\ \E i \in dir[p] : \A j \in journals : j.id # i
    /\ pc' = [pc EXCEPT ![p] = "down"]
    /\ dir' = [dir EXCEPT ![p] = {}]
    /\ UNCHANGED <<files, lock, batch, k, plan, todo, jid, out, bounds>>

\* Every listed journal is replayed: the process may serve its threads.
Opened(p) ==
    /\ pc[p] = "scan" /\ dir[p] = {}
    /\ pc' = [pc EXCEPT ![p] = "up"]
    /\ UNCHANGED <<files, lock, batch, k, plan, todo, jid, dir, out, bounds>>

\* A process dies; what it wrote to files stays, all the rest is lost.
Crash(p) ==
    /\ pc[p] # "down" /\ crashes < MaxCrashes
    /\ LET dead == {p} \cup {t \in Thread : ProcessOf[t] = p}
       IN /\ pc' = [a \in Agent |-> IF a = p THEN "down"
                                    ELSE IF a \in dead THEN "idle" ELSE pc[a]]
          /\ plan' = [a \in Agent |-> IF a \in dead THEN EmptyPlan ELSE plan[a]]
          /\ todo' = [a \in Agent |-> IF a \in dead THEN {} ELSE todo[a]]
          /\ jid' = [a \in Agent |-> IF a \in dead THEN 0 ELSE jid[a]]
          /\ out' = [t \in Thread |-> IF t \in dead THEN "none" ELSE out[t]]
    /\ lock' = [lock EXCEPT ![p] = Free]
    /\ dir' = [dir EXCEPT ![p] = {}]
    /\ crashes' = crashes + 1
    /\ UNCHANGED <<files, batch, k, calls, ioErrors>>

-----------------------------------------------------------------------------
Transaction(t) ==
    \/ \E b \in Batches : Commit(t, b)
    \/ AcquireLock(t) \/ ResolveOp(t) \/ ResolveRefused(t)
    \/ CommitEmpty(t) \/ WriteJournal(t)

Apply(a) ==
    \/ \E n \in Name : WriteTmp(a, n) \/ Rename(a, n) \/ Remove(a, n)
    \/ RemoveJournal(a)

Recover(p) == Open(p) \/ ReadJournal(p) \/ Opened(p)

\* Threads that use transactions only, in processes that may crash.
TxNext ==
    \/ \E t \in Thread : Transaction(t)
    \/ \E a \in Agent : Apply(a)
    \/ \E p \in Process : Recover(p) \/ Crash(p)

\* Every caller, and every failure one can run into.
Next ==
    \/ TxNext
    \/ \E t \in Thread : CallReturns(t) \/ \E op \in Calls : Call(t, op) \/ CallRefused(t, op)
    \/ \E a \in Agent : WriteFails(a) \/ JournalMissing(a) \/ \E n \in Name : RenameMissing(a, n)
    \/ \E p \in Process : ReadMissing(p)

TxSpec == Init /\ [][TxNext]_vars
Spec == Init /\ [][Next]_vars

\* A running thread keeps executing, a commit lock that stays free is taken,
\* and someone opens a repository that is down.  Clients need not call and
\* processes need not crash.
TxFairSpec ==
    /\ TxSpec
    /\ \A t \in Thread : WF_vars(AcquireLock(t) \/ ResolveOp(t) \/ ResolveRefused(t)
                                  \/ CommitEmpty(t) \/ WriteJournal(t))
    /\ \A a \in Agent : WF_vars(Apply(a))
    /\ \A p \in Process : WF_vars(Recover(p))

FairSpec ==
    /\ Spec
    /\ \A t \in Thread : WF_vars(AcquireLock(t) \/ ResolveOp(t) \/ ResolveRefused(t)
                                  \/ CommitEmpty(t) \/ WriteJournal(t) \/ CallReturns(t))
    /\ \A x \in Agent : WF_vars(Apply(x) \/ JournalMissing(x) \/ \E n \in Name : RenameMissing(x, n))
    /\ \A p \in Process : WF_vars(Recover(p) \/ ReadMissing(p))

-----------------------------------------------------------------------------
(* Properties.                                                             *)

\* What the refs are once every journal on disk has been replayed: the
\* state a crash at this instant recovers to.
View ==
    [n \in Name |-> IF \E j \in journals : j.plan[n] # Skip
                    THEN (CHOOSE j \in journals : j.plan[n] # Skip).plan[n]
                    ELSE refs[n]]

\* A transaction publishes its journal, and the view takes its whole plan.
Publishes ==
    \E t \in Thread : Resolved(t) /\ pc'[t] = "apply" /\ View' = Patch(View, plan[t])

\* All-or-nothing: the recovered view of the refs changes only when a
\* transaction publishes its journal, and then by its whole plan at once.
\* No partial apply, crash, replay or journal removal is ever visible in it.
CommitPoint == [][View' # View => Publishes]_vars

\* The batch's first operation on each name, among those already resolved.
Leads(t, i) == \A h \in 1 .. (i - 1) : batch[t][h].name # batch[t][i].name

\* Compare-and-swap is atomic: until a transaction publishes its journal,
\* every rule and precondition resolve() has validated against the backend
\* still holds of the refs on disk.
PreconditionsHold ==
    \A t \in Thread : pc[t] = "resolve" =>
        \A i \in DOMAIN batch[t] : i < k[t] /\ Leads(t, i) =>
            ~Refused(batch[t][i], refs[batch[t][i].name])

\* Each single-ref call is equivalent to a one-op transaction: the check it
\* made still holds when it writes.
CallIsOneOpTransaction ==
    \A t \in Thread : pc[t] \in {"apply", "rename"} /\ jid[t] = 0 /\ todo[t] # {} =>
        ~Refused(batch[t][1], refs[batch[t][1].name])

\* Every call returns or dies with its process.
CallsReturn == \A t \in Thread : pc[t] # "idle" ~> pc[t] = "idle"

\* A journal left by a crash is eventually replayed and removed.
JournalsDrain == journals # {} ~> journals = {}

-----------------------------------------------------------------------------
\* Where a caller of commit_transaction sees its call stand.
Stage(at) ==
    CASE at = "idle" -> "none"
      [] at \in {"lock", "resolve"} -> "called"
      [] at \in {"apply", "rename"} -> "committed"

Phase == [t \in Thread |-> Stage(pc[t])]

Atomic == INSTANCE AtomicRefs WITH store <- View, call <- Phase

\* RefStore's recovered view is an atomic ref store: a transaction takes
\* effect when its journal is published, a refusal is always justified.
AtomicRefsSpec == Atomic!Spec
=============================================================================
