----------------------------- MODULE Worktrees -----------------------------
(***************************************************************************)
(* Linked worktrees of the command line (bole-cli context.rs,              *)
(* worktrees.rs, commands/workspace.rs).  A linked worktree is a directory *)
(* whose `.bole' file points at the primary store and names an id; the     *)
(* store keeps the id's path in worktrees.json and its binding in          *)
(* worktrees/<id>/state.json.  Users move and delete directories, pointer  *)
(* files and the store behind the commands' back.  Workspace commands run  *)
(* one at a time here.  A command changes files one after the other and    *)
(* may be killed between any two of them, or inside a write: a file is     *)
(* truncated before it is written, so that one is left unreadable.         *)
(***************************************************************************)
EXTENDS Naturals, Sequences, FiniteSets, SequencesExt

CONSTANTS
    Dir,         \* places a worktree directory can be
    BaseOf,      \* [Dir -> file name of the place, as an id base]
    Ids,         \* the ids <<base, n>> in the registry's (sorted) order
    Place,       \* places the primary store can be
    Home,        \* where it is at first
    Timeline,    \* the timelines there are
    MaxWsCommands, \* bound: commands
    MaxTouches   \* bound: what users do to files

VARIABLES
    dirs,      \* [Dir -> [here |-> a directory exists, ptr |-> its `.bole' file]]
    home,      \* where the primary store is
    strays,    \* places where opening a stale pointer made an empty store
    wreg,      \* worktrees.json: [ok |-> it parses, map |-> id -> path]
    meta,      \* worktrees/<id>/state.json: id -> binding (timeline and actor)
    primary,   \* cli-state.json: the primary worktree's bound timeline
    job,       \* the command in progress: the directory it is for, if it is for
               \* one, and the changes to files it has left
    wscommands, touches

wvars == <<dirs, home, strays, wreg, meta, primary, job, wscommands, touches>>

Unbound == "none"
Unreadable == "unreadable"
NoPointer == [kind |-> "none"]
NoJob == [dir |-> "", todo |-> <<>>]
BadPointer == [kind |-> "bad"]
Pointer(place, id) == [kind |-> "pointer", store |-> place, id |-> id]
Nothing == [here |-> FALSE, ptr |-> NoPointer]

-----------------------------------------------------------------------------
\* worktrees::classify: directory, pointer file, its id, then its store.
Classify(ds, id, path) ==
    LET d == ds[path]
    IN  CASE ~d.here              -> "missing-directory"
          [] d.ptr.kind = "none"  -> "missing-pointer"
          [] d.ptr.kind = "bad"   -> "bad-pointer"
          [] d.ptr.id # id        -> "wrong-id"
          [] d.ptr.store # home   -> "wrong-store"
          [] OTHER                -> "ok"

IsPrunable(s) == s \in {"missing-directory", "missing-pointer", "bad-pointer", "wrong-id"}
IsRecoverable(s) == s = "wrong-store"

\* A slip in which the registry is not consulted for ids in use.
AllocateBase(reg, path) == <<BaseOf[path], 1>>

\* worktrees::allocate_id: the base name, else base-2, base-3, ...
AllocateId(reg, path) ==
    LET free == {n \in 1..Cardinality(DOMAIN reg) + 1 : <<BaseOf[path], n>> \notin DOMAIN reg}
    IN  <<BaseOf[path], CHOOSE n \in free : \A m \in free : n <= m>>

Put(map, k, x) == [j \in DOMAIN map \cup {k} |-> IF j = k THEN x ELSE map[j]]
Drop(map, k) == [j \in DOMAIN map \ {k} |-> map[j]]
NoneKept == [i \in {} |-> i]

\* RepoContext::load_state and read_binding: no file is the default state.
BindingOf(id) == IF id \in DOMAIN meta THEN meta[id] ELSE Unbound

\* RepoContext::discover in a linked worktree: the pointer must name the store;
\* opening a store creates it, so a stale pointer makes an empty one instead.
Discovers(d) == dirs[d].here /\ dirs[d].ptr.kind = "pointer" /\ dirs[d].ptr.store = home

-----------------------------------------------------------------------------
(* The files a command changes.                                             *)

SetPointer(d, ptr) == [file |-> "pointer", at |-> d, to |-> ptr]
SetBinding(id, tl) == [file |-> "binding", at |-> id, to |-> tl]
DropBinding(id) == [file |-> "no binding", at |-> id]
SetPrimary(tl) == [file |-> "primary", to |-> tl]
\* worktrees::save.
Save(map) == [file |-> "registry", to |-> [ok |-> TRUE, map |-> map]]
NoChange == [file |-> "none"]

Effect(c) ==
    /\ dirs' = IF c.file = "pointer" THEN [dirs EXCEPT ![c.at].ptr = c.to] ELSE dirs
    /\ meta' = CASE c.file = "binding"    -> Put(meta, c.at, c.to)
                 [] c.file = "no binding" -> Drop(meta, c.at)
                 [] OTHER                 -> meta
    /\ primary' = IF c.file = "primary" THEN c.to ELSE primary
    /\ wreg' = IF c.file = "registry" THEN c.to ELSE wreg
    /\ UNCHANGED <<home, strays, wscommands, touches>>

Change ==
    /\ job # NoJob
    /\ Effect(Head(job.todo))
    /\ job' = IF Len(job.todo) = 1 THEN NoJob ELSE [job EXCEPT !.todo = Tail(@)]

\* What std::fs::write leaves when it is cut short; a removal leaves nothing.
CutShort(c) ==
    CASE c.file = "pointer" /\ c.to # NoPointer -> [c EXCEPT !.to = BadPointer]
      [] c.file \in {"binding", "primary"}      -> [c EXCEPT !.to = Unreadable]
      [] c.file = "registry" -> [c EXCEPT !.to = [ok |-> FALSE, map |-> NoneKept]]
      [] OTHER               -> NoChange

Killed ==
    /\ job # NoJob
    /\ \E c \in {NoChange, CutShort(Head(job.todo))} : Effect(c)
    /\ job' = NoJob

\* A command begins: it is for directory d and will make the changes cs.
Command(d, cs) ==
    /\ job = NoJob
    /\ wscommands < MaxWsCommands
    /\ wscommands' = wscommands + 1
    /\ job' = IF cs = <<>> THEN NoJob ELSE [dir |-> d, todo |-> cs]
    /\ UNCHANGED <<home, wreg, meta, primary, touches>>

-----------------------------------------------------------------------------
\* existing_bindings: the primary's and every registered worktree's must parse.
BindingsRead ==
    /\ wreg.ok /\ primary # Unreadable
    /\ \A id \in DOMAIN wreg.map : BindingOf(id) # Unreadable

\* workspace add: refused when the place has a `.bole' entry; the directory is
\* made before the registry is read; binding, pointer and registry are written
\* in this order, then the head is materialised.
WorkspaceAdd(d, tl) ==
    LET id == AllocateId(wreg.map, d)
    IN  /\ dirs[d].ptr.kind = "none"
        /\ dirs' = [dirs EXCEPT ![d].here = TRUE]
        /\ Command(d,
              IF BindingsRead
              THEN <<SetBinding(id, tl), SetPointer(d, Pointer(home, id)), Save(Put(wreg.map, id, d))>>
              ELSE <<>>)
        /\ UNCHANGED strays

\* workspace remove: the first entry with the path; its pointer, binding and
\* registration go, the user's files stay.
WorkspaceRemove(d) ==
    LET found == SelectSeq(Ids, LAMBDA i : i \in DOMAIN wreg.map /\ wreg.map[i] = d)
    IN  /\ wreg.ok /\ found # <<>>
        /\ Command(d,
              <<SetPointer(d, NoPointer), DropBinding(Head(found)), Save(Drop(wreg.map, Head(found)))>>)
        /\ UNCHANGED <<dirs, strays>>

\* workspace prune, one entry: the changes that precede it, the directories
\* and the registry as they are after them.
PruneOne(s, id, recoverable) ==
    LET path == s.reg[id]
        status == Classify(s.dirs, id, path)
        unlinks == status \in {"bad-pointer", "wrong-id"}
    IN  IF IsPrunable(status) \/ (recoverable /\ IsRecoverable(status))
        THEN [dirs |-> IF unlinks THEN [s.dirs EXCEPT ![path].ptr = NoPointer] ELSE s.dirs,
              reg  |-> Drop(s.reg, id),
              todo |-> s.todo \o <<DropBinding(id)>>
                         \o IF unlinks THEN <<SetPointer(path, NoPointer)>> ELSE <<>>]
        ELSE s

\* workspace prune: the entries in registry order, each against what the ones
\* before it left; the registry is saved once, at the end.
WorkspacePrune(recoverable) ==
    LET end == FoldLeft(LAMBDA s, id : PruneOne(s, id, recoverable),
                        [dirs |-> dirs, reg |-> wreg.map, todo |-> <<>>],
                        SelectSeq(Ids, LAMBDA i : i \in DOMAIN wreg.map))
    IN  /\ wreg.ok
        /\ Command("", Append(end.todo, Save(end.reg)))
        /\ UNCHANGED <<dirs, strays>>

\* workspace repair: every pointer that only has the store wrong is rewritten.
RepairStoreMoved ==
    LET stale == SelectSeq(Ids, LAMBDA i : /\ i \in DOMAIN wreg.map
                                           /\ IsRecoverable(Classify(dirs, i, wreg.map[i])))
    IN  /\ wreg.ok
        /\ Command("",
              [k \in DOMAIN stale |-> SetPointer(wreg.map[stale[k]], Pointer(home, stale[k]))])
        /\ UNCHANGED <<dirs, strays>>

\* A pointer in d that repair accepts: readable, and for this store.
PointsHere(d) == Discovers(d)

\* workspace repair --moved-to d id.
RepairMoved(d, id) ==
    /\ wreg.ok /\ id \in DOMAIN wreg.map
    /\ PointsHere(d)
    /\ dirs[d].ptr.id = id
    /\ Command(d, <<Save([wreg.map EXCEPT ![id] = d])>>)
    /\ UNCHANGED <<dirs, strays>>

\* workspace repair --adopt d: only an id that is not registered; a binding
\* that survived is kept.
RepairAdopt(d) ==
    LET id == dirs[d].ptr.id
    IN  /\ PointsHere(d)
        /\ wreg.ok /\ id \notin DOMAIN wreg.map
        /\ Command(d,
              <<Save(Put(wreg.map, id, d))>>
                \o IF id \in DOMAIN meta THEN <<>> ELSE <<SetBinding(id, Unbound)>>)
        /\ UNCHANGED <<dirs, strays>>

\* workspace open and clear, in the primary and in a linked worktree: the
\* state of the context they run in is read, changed and saved.
BindPrimary(tl) ==
    /\ primary # Unreadable
    /\ Command("", <<SetPrimary(tl)>>)
    /\ UNCHANGED <<dirs, strays>>

BindLinked(d, tl) ==
    /\ Discovers(d)
    /\ BindingOf(dirs[d].ptr.id) # Unreadable
    /\ Command(d, <<SetBinding(dirs[d].ptr.id, tl)>>)
    /\ UNCHANGED <<dirs, strays>>

\* Any command in a worktree whose pointer is stale: Repository::disk creates
\* an empty store where the pointer says, and the command works on that.
StrayStore(d) ==
    /\ Command(d, <<>>)
    /\ dirs[d].here /\ dirs[d].ptr.kind = "pointer" /\ dirs[d].ptr.store # home
    /\ strays' = strays \cup {dirs[d].ptr.store}
    /\ UNCHANGED dirs

-----------------------------------------------------------------------------
(* What users do between commands.                                          *)

Touch ==
    /\ job = NoJob
    /\ touches < MaxTouches
    /\ touches' = touches + 1
    /\ UNCHANGED <<strays, meta, primary, job, wscommands>>

MoveDirectory(a, b) ==
    /\ Touch
    /\ dirs[a].here /\ ~dirs[b].here
    /\ dirs' = [dirs EXCEPT ![a] = Nothing, ![b] = dirs[a]]
    /\ UNCHANGED <<home, wreg>>

DeleteDirectory(d) ==
    /\ Touch
    /\ dirs[d].here
    /\ dirs' = [dirs EXCEPT ![d] = Nothing]
    /\ UNCHANGED <<home, wreg>>

DamagePointer(d, ptr) ==
    /\ Touch
    /\ dirs[d].ptr.kind = "pointer"
    /\ dirs' = [dirs EXCEPT ![d].ptr = ptr]
    /\ UNCHANGED <<home, wreg>>

MoveStore(place) ==
    /\ Touch
    /\ place # home /\ place \notin strays
    /\ home' = place
    /\ UNCHANGED <<dirs, wreg>>

\* No command works on a registry that does not parse; without the file, all do.
DeleteRegistry ==
    /\ Touch
    /\ ~wreg.ok
    /\ wreg' = [ok |-> TRUE, map |-> NoneKept]
    /\ UNCHANGED <<dirs, home>>

-----------------------------------------------------------------------------
WInit ==
    /\ dirs = [d \in Dir |-> Nothing]
    /\ home = Home /\ strays = {}
    /\ wreg = [ok |-> TRUE, map |-> NoneKept] /\ meta = NoneKept
    /\ primary = Unbound
    /\ job = NoJob
    /\ wscommands = 0 /\ touches = 0

WNext ==
    \/ \E d \in Dir, tl \in Timeline : WorkspaceAdd(d, tl)
    \/ \E d \in Dir : WorkspaceRemove(d)
    \/ \E r \in BOOLEAN : WorkspacePrune(r)
    \/ RepairStoreMoved
    \/ \E d \in Dir, id \in ToSet(Ids) : RepairMoved(d, id)
    \/ \E d \in Dir : RepairAdopt(d)
    \/ \E tl \in Timeline \cup {Unbound} : BindPrimary(tl)
    \/ \E d \in Dir, tl \in Timeline \cup {Unbound} : BindLinked(d, tl)
    \/ Change
    \/ Killed
    \/ \E d \in Dir : StrayStore(d)
    \/ \E a, b \in Dir : MoveDirectory(a, b)
    \/ \E d \in Dir : DeleteDirectory(d)
    \/ \E d \in Dir, ptr \in {NoPointer, BadPointer} : DamagePointer(d, ptr)
    \/ \E p \in Place : MoveStore(p)
    \/ DeleteRegistry

-----------------------------------------------------------------------------
Consistent(id) == Classify(dirs, id, wreg.map[id]) = "ok"

\* The directory of id is registered once, and its id is on no other pointer.
Unshared(id) ==
    /\ \A j \in DOMAIN wreg.map : wreg.map[j] = wreg.map[id] => j = id
    /\ \A d \in Dir : dirs[d].ptr.kind = "pointer" /\ dirs[d].ptr.id = id => d = wreg.map[id]

(* A workspace command leaves alone the worktrees it is not about.  One     *)
(* that is consistent (worktrees::classify ok) keeps its directory, its     *)
(* pointer and its binding through every add, remove, prune, repair, open   *)
(* and clear for another directory, wherever that command is killed; and it *)
(* stays registered where it was as long as worktrees.json can be read.  A  *)
(* kill inside worktrees::save leaves a registry that nobody can read, for  *)
(* every worktree; the property allows that.  It says nothing of a          *)
(* directory that is registered twice, whose pointer prune may delete, nor  *)
(* of an id that is on two pointers: an id that was pruned, or that a       *)
(* killed add left unregistered, is given out again, and then two           *)
(* directories have one binding.                                            *)
OthersUntouched == [][
    \A id \in DOMAIN wreg.map :
        LET d == wreg.map[id] IN
        Consistent(id) /\ Unshared(id) /\ touches' = touches /\ d \notin {job.dir, job'.dir}
        => /\ dirs'[d] = dirs[d]
           /\ BindingOf(id)' = BindingOf(id)
           /\ wreg'.ok => id \in DOMAIN wreg'.map /\ wreg'.map[id] = d
    ]_wvars
=============================================================================
