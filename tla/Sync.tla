-------------------------------- MODULE Sync --------------------------------
(***************************************************************************)
(* Replication between repositories: fetch, push and clone over the wire   *)
(* session (sync/session.rs), over one HTTP round trip (sync/http.rs), to  *)
(* a hub (sync/hub.rs) and in process (sync/mod.rs).  Clients talk to one  *)
(* server; a session is a sequence of messages, one half of which each     *)
(* side computes from what it stores at that moment, and objects are put   *)
(* one at a time.  A connection may break, and either side may stop,       *)
(* between any two steps.  Ref transactions are single steps, as RefStore  *)
(* implements AtomicRefs.                                                  *)
(***************************************************************************)
EXTENDS Naturals, FiniteSets, Walks

CONSTANTS
    Client, Server, Name,
    Object, Snapshot,   \* the objects that can exist, and which are snapshots
    Edges,              \* child_edges: what each object embeds the id of
    Reserved,           \* names under refs/policy/ or refs/collab/
    Namespace,          \* the owner of a name under refs/users/<fingerprint>/
    HubName,            \* the hub name that a client's local timeline is pushed to
    Readable,           \* the names that the accessor of each client covers
    Writable,           \* and for writing, by the transport that identifies it
    PushSets,           \* the sets of timelines that one push names
    Starts,             \* the repositories that a behaviour may start from
    Transports, Breaks, \* the transports used, and those whose sessions may break
    None,
    MaxCalls, MaxCommits, MaxBreaks, MaxPolicies

Repo == Client \cup {Server}
Transport == {"wire", "http", "hub", "local"}
Parents(s) == Edges[s] \cap Snapshot

\* What an object reaches.
Closure == Walk(Object, Edges)

ASSUME SyncAssumption ==
    /\ Server \notin Client /\ None \notin Object /\ None \notin Client
    /\ Snapshot \subseteq Object /\ Edges \in [Object -> SUBSET Object]
    /\ \A S \in (SUBSET Object) \ {{}} : \E o \in S : Edges[o] \cap S = {}
    /\ Reserved \subseteq Name /\ Namespace \in [Name -> Client \cup {None}]
    /\ HubName \in [Client -> [Name -> Name]]
    /\ Readable \in [Client -> SUBSET Name] /\ Writable \in [Client -> [Transport -> SUBSET Name]]
    /\ PushSets \subseteq SUBSET Name /\ Breaks \subseteq Transports
    /\ Transports \subseteq Transport
    /\ \A s \in Starts : /\ s.store \in [Repo -> SUBSET Object]
                         /\ s.head \in [Repo -> [Name -> Snapshot \cup {None}]]
                         /\ s.tracking \in [Client -> [Name -> Snapshot \cup {None}]]
                         /\ \A n \in Name : s.head[Server][n] # None =>
                              Closure[s.head[Server][n]] \subseteq s.store[Server]
                         /\ \A c \in Client, n \in Name :
                              s.tracking[c][n] \in {None, s.head[Server][n]}

VARIABLES
    store,    \* the objects in each repository
    head,     \* its timelines
    free,     \* its timelines whose policy is Unrestricted
    tracking, \* each client's tags refs/remotes/origin/<name>
    ses,      \* the session of each client
    strict,   \* whether the server's pinned policy binds a non-deterministic hook
    seen,     \* every head that each server timeline has had
    moved,    \* what each client's pushes have moved: transport, name and new head
    landed,   \* the owners whose account has landed on the hub
    calls, commits, breaks, policies

counters == <<calls, commits, breaks, policies>>
vars == <<store, head, free, tracking, ses, strict, seen, moved, landed, counters>>

Idle == [pc |-> "idle"]
\* Which message, or step of its own, a session is waiting for.
PC == {"prove", "advertise", "want", "pack", "plan", "receive", "land", "gate",
       "commit", "reply", "identity"}
Op == [name : Name, local : Name, old : Snapshot \cup {None}, new : Snapshot]
Session ==
    [verb : {"fetch", "push", "clone"}, via : Transport, names : SUBSET Name,
     owner : Client \cup {None}, adverts : UNION {[names -> Snapshot] : names \in SUBSET Name},
     have : SUBSET Object, pack : SUBSET Object, ops : SUBSET Op, ok : SUBSET Op, pc : PC]

TypeOK ==
    /\ store \in [Repo -> SUBSET Object]
    /\ head \in [Repo -> [Name -> Snapshot \cup {None}]]
    /\ free \subseteq Repo \X Name
    /\ tracking \in [Client -> [Name -> Snapshot \cup {None}]]
    /\ ses \in [Client -> Session \cup {Idle}]
    /\ seen \in [Name -> SUBSET Snapshot]
    /\ moved \in [Client -> SUBSET (Transport \X Name \X Snapshot)]
    /\ landed \subseteq Client /\ strict \in BOOLEAN

Init ==
    /\ \E s \in Starts : store = s.store /\ head = s.head /\ tracking = s.tracking
    /\ free \in SUBSET {<<Server, n>> : n \in {m \in Name : head[Server][m] # None}}
    /\ ses = [c \in Client |-> Idle] /\ strict = FALSE
    /\ seen = [n \in Name |-> {head[Server][n]} \ {None}]
    /\ moved = [c \in Client |-> {}] /\ landed = {}
    /\ calls = 0 /\ commits = 0 /\ breaks = 0 /\ policies = 0

----------------------------------------------------------------------------
(* The object graph *)

\* missing_closure: the walk from the wanted objects stops at an object that
\* the receiver has, and skips one that the sender lacks.
MissingClosure(r, wants, have) ==
    LET sent == store[r] \ have
        visited == Walk(Object, [o \in Object |-> Edges[o] \cap sent])
    IN  UNION {visited[w] : w \in wants \cap sent}

\* The ancestors that a walk over the snapshots stored by r can reach.
Reached(r, s) ==
    Walk(Object, [o \in Object |-> IF o \in store[r] \cap Snapshot THEN Parents(o) ELSE {}])[s]

\* find_common_ancestor returns some common ancestor (Ancestry), and a move is
\* a fast-forward when that is the old head: never for a head that does not
\* descend from it, but it may also miss the old head below a merge.
FastForward(r, op) == op.old \in Reached(r, op.new)
MayMiss(r, op) ==
    op.old \notin {None, op.new} /\ (Reached(r, op.old) \cap Reached(r, op.new)) \ {op.old} # {}

\* TimelinePolicyHook, the hook of a repository that binds no other.
HookAllows(op) ==
    LET cur == head[Server][op.name]
    IN  cur = None \/ <<Server, op.name>> \in free \/ cur \in Reached(Server, op.new)

----------------------------------------------------------------------------
(* What every session does *)

At(c, pc) == ses[c].pc = pc
Goes(c, pc) == ses' = [ses EXCEPT ![c].pc = pc]
Ends(c) == ses' = [ses EXCEPT ![c] = Idle]
Receiver(c) == IF ses[c].verb = "push" THEN Server ELSE c
Targets(adverts) == {adverts[n] : n \in DOMAIN adverts} \ {None}

Begin(c, verb, via, names, owner) ==
    /\ At(c, "idle") /\ calls < MaxCalls /\ via \in Transports
    /\ calls' = calls + 1
    /\ ses' = [ses EXCEPT ![c] =
         [verb |-> verb, via |-> via, names |-> names, owner |-> owner, adverts |-> <<>>,
          have |-> IF via = "http" THEN store[c] ELSE {}, pack |-> {}, ops |-> {}, ok |-> {},
          pc |-> IF verb = "push" /\ via = "hub" THEN "prove"
                 ELSE IF verb = "push" /\ via \in {"http", "local"} THEN "plan"
                 ELSE "advertise"]]
    /\ UNCHANGED <<store, head, free, tracking, strict, seen, moved, landed, commits, breaks, policies>>

\* The namespace that an owner may write on a hub.
OwnNames(owner) == {n \in Name : Namespace[n] = owner}

\* The names that the accessor of a connection may write.
Writes(c) == IF ses[c].via = "hub" THEN OwnNames(ses[c].owner) ELSE Writable[c][ses[c].via]

\* list_refs_served, for the accessor of the connection; a hub is read by
\* everybody, and shows a pusher only what is their own.
Served(c) ==
    {n \in Name : head[Server][n] # None /\
        IF ses[c].via # "hub" THEN n \in Readable[c] ELSE ses[c].verb = "push" => n \in OwnNames(ses[c].owner)}

Adverts(c) == [n \in Served(c) |-> head[Server][n]]

\* The server's heads are sent.
Advertise(c) ==
    /\ At(c, "advertise") /\ ses[c].via # "http"
    /\ ses' = [ses EXCEPT ![c].adverts = Adverts(c),
                          ![c].pc = IF ses[c].verb = "push" THEN "plan" ELSE "want"]
    /\ UNCHANGED <<store, head, free, tracking, strict, seen, moved, landed, counters>>

\* An accessor without any write clearance is answered before anything lands.
AfterReceive(c) == IF ses[c].via # "hub" /\ Writes(c) = {} THEN "reply" ELSE "land"

\* One HTTP request: a fetch gets the adverts and the pack at once, computed
\* from what the client said it has; a push brings the pack and the operations.
ServeHttp(c) ==
    /\ ses[c].pc \in {"advertise", "receive"} /\ ses[c].via = "http"
    /\ IF ses[c].verb = "fetch"
       THEN ses' = [ses EXCEPT ![c].adverts = Adverts(c), ![c].pc = "land",
                      ![c].pack = MissingClosure(Server, Targets(Adverts(c)), ses[c].have)]
       ELSE Goes(c, AfterReceive(c))
    /\ UNCHANGED <<store, head, free, tracking, strict, seen, moved, landed, counters>>

\* put_raw, one object of the decoded pack after another.
Land(c, o) ==
    /\ At(c, "land") /\ o \in ses[c].pack
    /\ store' = [store EXCEPT ![Receiver(c)] = @ \cup {o}]
    /\ ses' = [ses EXCEPT ![c].pack = @ \ {o}]
    /\ UNCHANGED <<head, free, tracking, strict, seen, moved, landed, counters>>

\* The connection is lost, or one side stops: what has been put stays.
Break(c) ==
    /\ ~At(c, "idle") /\ ses[c].via \in Breaks /\ breaks < MaxBreaks
    /\ breaks' = breaks + 1 /\ Ends(c)
    /\ UNCHANGED <<store, head, free, tracking, strict, seen, moved, landed, calls, commits, policies>>

----------------------------------------------------------------------------
(* fetch *)

ClientFetch(c) == Begin(c, "fetch", "wire", {}, None)
HttpFetch(c) == Begin(c, "fetch", "http", {}, None)
HubFetch(c, owner) == Begin(c, "fetch", "hub", {}, owner)
LocalFetch(c) == Begin(c, "fetch", "local", {}, None)

\* The client answers with the ids that it stores; hub_fetch keeps the adverts
\* of the repository it is about, and fails without one.
Want(c) ==
    /\ At(c, "want")
    /\ LET names == {n \in DOMAIN ses[c].adverts : ses[c].via = "hub" => Namespace[n] = ses[c].owner}
       IN  IF ses[c].via = "hub" /\ names = {} THEN Ends(c)
           ELSE ses' = [ses EXCEPT ![c].adverts = [n \in names |-> ses[c].adverts[n]],
                                   ![c].have = store[c], ![c].pc = "pack"]
    /\ UNCHANGED <<store, head, free, tracking, strict, seen, moved, landed, counters>>

Pack(c) ==
    /\ At(c, "pack")
    /\ ses' = [ses EXCEPT ![c].pack = MissingClosure(Server, Targets(ses[c].adverts), ses[c].have),
                          ![c].pc = "land"]
    /\ UNCHANGED <<store, head, free, tracking, strict, seen, moved, landed, counters>>

\* One transaction moves the tracking refs of all adverts.  A clone goes on to
\* mirror the timelines of the server.
Fetched(c) ==
    /\ At(c, "land") /\ ses[c].verb # "push" /\ ses[c].pack = {}
    /\ tracking' = [tracking EXCEPT ![c] =
         [n \in Name |-> IF n \in DOMAIN ses[c].adverts THEN ses[c].adverts[n] ELSE @[n]]]
    /\ IF ses[c].verb = "clone" THEN Goes(c, "commit") ELSE Ends(c)
    /\ UNCHANGED <<store, head, free, strict, seen, moved, landed, counters>>

\* clone_from: into a fresh repository, whose timelines are created at the
\* heads that the server has by then.
Clone(c) ==
    /\ store[c] = {} /\ Begin(c, "clone", "local", {}, None)

Mirror(c) ==
    /\ At(c, "commit") /\ ses[c].verb = "clone"
    /\ head' = [head EXCEPT ![c] = [n \in Name |-> IF n \in Readable[c] THEN head[Server][n] ELSE @[n]]]
    /\ free' = free \cup {<<c, n>> : n \in {m \in Readable[c] : <<Server, m>> \in free}}
    /\ Ends(c)
    /\ UNCHANGED <<store, tracking, strict, seen, moved, landed, counters>>

----------------------------------------------------------------------------
(* push *)

ClientPush(c, names) == Begin(c, "push", "wire", names, None)
HttpPush(c, names) == Begin(c, "push", "http", names, None)
HubPush(c, names, owner) == Begin(c, "push", "hub", names, owner)
LocalPush(c, names) == Begin(c, "push", "local", names, None)

\* The commands bole push, bole fetch and bole pull.
CliPush(c, names, owner) ==
    names # {} /\ IF owner = None THEN ClientPush(c, names) ELSE HubPush(c, names, owner)
CliFetch(c) == ClientFetch(c)
CliPull(c, owner) == HubFetch(c, owner)

\* Only the holder of the owner's seed can sign the hub's nonce.
VerifyProof(c, owner) == owner = c

\* HubHello, HubChallenge, HubProof.
Prove(c) ==
    /\ At(c, "prove")
    /\ IF VerifyProof(c, ses[c].owner) THEN Goes(c, "advertise") ELSE Ends(c)
    /\ UNCHANGED <<store, head, free, tracking, strict, seen, moved, landed, counters>>

RemoteName(c, n) == IF ses[c].via = "hub" THEN HubName[c][n] ELSE n

\* Each timeline is pushed against the head last seen of the peer.
Ops(c) ==
    {[name |-> RemoteName(c, n), local |-> n, old |-> tracking[c][RemoteName(c, n)], new |-> head[c][n]] :
        n \in {m \in ses[c].names : head[c][m] # None}}

\* The client packs what it takes the server to lack: everything not below an
\* advertised head, or, over HTTP, not below a tracking ref.
Plan(c) ==
    /\ At(c, "plan") /\ ses[c].via # "local"
    /\ LET ops == Ops(c)
           have == IF ses[c].via = "http" THEN {op.old : op \in ops} \ {None}
                   ELSE Targets(ses[c].adverts)
       IN  ses' = [ses EXCEPT ![c].ops = ops, ![c].pc = "receive",
                              ![c].pack = MissingClosure(c, {op.new : op \in ops}, have)]
    /\ UNCHANGED <<store, head, free, tracking, strict, seen, moved, landed, counters>>

\* The fast-forward gate reads the policy of the timeline that is there now.
\* missed holds the operations whose old head the search does not return.
LineageAllows(op, missed) ==
    \/ op.old = None \/ head[Server][op.name] = None
    \/ <<Server, op.name>> \in free
    \/ FastForward(Server, op) /\ op \notin missed

\* The in-process push is gated before the objects are transferred.
PlanLocal(c) ==
    /\ At(c, "plan") /\ ses[c].via = "local"
    /\ \E missed \in SUBSET {op \in Ops(c) : MayMiss(Server, op)} :
         LET plan == {op \in Ops(c) : /\ op.name \notin Reserved /\ op.name \in Writes(c)
                                      /\ ~strict /\ LineageAllows(op, missed)}
         IN  IF plan = {} THEN Ends(c)
             ELSE ses' = [ses EXCEPT ![c].ops = plan, ![c].pc = "land",
                            ![c].pack = MissingClosure(c, {op.new : op \in plan}, store[Server])]
    /\ UNCHANGED <<store, head, free, tracking, strict, seen, moved, landed, counters>>

Receive(c) ==
    /\ At(c, "receive") /\ ses[c].via # "http" /\ Goes(c, AfterReceive(c))
    /\ UNCHANGED <<store, head, free, tracking, strict, seen, moved, landed, counters>>

\* A mutant: the head of a push need only be stored itself.
HeadPresent(op) == op.new \in store[Server]

\* closure_present: everything that the new head reaches is stored.
ClosurePresent(op) == Closure[op.new] \subseteq store[Server]

\* A mutant: the reserved namespaces are open to pushes.
AdmitsReserved(c, op, missed) ==
    /\ ~strict /\ op.name \in Writes(c) /\ op.new \in Snapshot
    /\ ClosurePresent(op) /\ LineageAllows(op, missed) /\ HookAllows(op)

\* apply_push_ops, the checks of one operation.
Admits(c, op, missed) ==
    /\ ~strict /\ op.name \notin Reserved /\ op.name \in Writes(c) /\ op.new \in Snapshot
    /\ ClosurePresent(op) /\ LineageAllows(op, missed) /\ HookAllows(op)

\* A mutant: a push of which nothing is accepted is not answered.
Unanswered(accepted) == IF accepted = {} THEN "gate" ELSE "commit"

AfterGate(accepted) == IF accepted = {} THEN "reply" ELSE "commit"

\* Once all objects are there every operation is checked by itself; a refused
\* one does not stop the others.  The checks of all of them are one step: the
\* swap compares each head with the one its check saw.  In process only the hooks
\* are left to ask.
Gate(c) ==
    /\ At(c, "land") /\ ses[c].verb = "push" /\ ses[c].pack = {}
    /\ \E missed \in SUBSET {op \in ses[c].ops : MayMiss(Server, op)} :
         LET local == ses[c].via = "local"
             accepted == {op \in ses[c].ops : IF local THEN HookAllows(op) ELSE Admits(c, op, missed)}
         IN  IF accepted = {} /\ local THEN Ends(c)
             ELSE ses' = [ses EXCEPT ![c].ok = accepted, ![c].pc = AfterGate(accepted)]
    /\ UNCHANGED <<store, head, free, tracking, strict, seen, moved, landed, counters>>

\* A mutant: the head is moved without comparing it.
SwapsBlindly(op) == op.old # None \/ head[Server][op.name] = None

\* advance_head_if, and create_timeline for a head never seen.
Swaps(op) == head[Server][op.name] = op.old

\* One transaction for all accepted operations: a head that moved refuses all.
\* A created timeline is fast-forward only; in process it has the policy of the
\* local one.
Commit(c) ==
    /\ At(c, "commit") /\ ses[c].verb = "push"
    /\ IF \A op \in ses[c].ok : Swaps(op)
       THEN LET names == {op.name : op \in ses[c].ok}
                new == [n \in names |-> (CHOOSE op \in ses[c].ok : op.name = n).new]
                created == {op \in ses[c].ok : op.old = None}
            IN  /\ head' = [head EXCEPT ![Server] = [n \in Name |-> IF n \in names THEN new[n] ELSE @[n]]]
                /\ seen' = [n \in Name |-> IF n \in names THEN seen[n] \cup {new[n]} ELSE seen[n]]
                /\ free' = free \cup {<<Server, op.name>> : op \in {x \in created :
                                        ses[c].via = "local" /\ <<c, x.local>> \in free}}
                /\ moved' = [moved EXCEPT ![c] = @ \cup {<<ses[c].via, n, new[n]>> : n \in names}]
                /\ Goes(c, "reply")
       ELSE /\ ses' = [ses EXCEPT ![c].ok = {}, ![c].pc = "reply"]
            /\ UNCHANGED <<head, seen, free, moved>>
    /\ UNCHANGED <<store, tracking, strict, landed, counters>>

\* A mutant: the tracking refs follow every operation sent.
Confirmed(c) == ses[c].ops

\* The operations that the reply reports as applied.
Applied(c) == ses[c].ok

\* The client learns the outcome, and moves its tracking refs for what was
\* applied.  A hub push goes on to publish the account.
Reply(c) ==
    /\ At(c, "reply")
    /\ tracking' = [tracking EXCEPT ![c] =
         [n \in Name |-> IF \E op \in Applied(c) : op.name = n
                         THEN (CHOOSE op \in Applied(c) : op.name = n).new ELSE @[n]]]
    /\ IF ses[c].via = "hub" THEN Goes(c, "identity") ELSE Ends(c)
    /\ UNCHANGED <<store, head, free, strict, seen, moved, landed, counters>>

\* HubIdentity: the profile and the records of the authenticated owner, and of
\* nobody else, are published on the hub (Collab models publishing).
Identity(c) ==
    /\ At(c, "identity") /\ landed' = landed \cup {c} /\ Ends(c)
    /\ UNCHANGED <<store, head, free, tracking, strict, seen, moved, counters>>

----------------------------------------------------------------------------
(* What happens besides *)

Own(s) == {s} \cup UNION {Closure[e] : e \in Edges[s] \ Snapshot}

\* The snapshots that a merge in r may have read as the head of a timeline.
Mergeable(r) == IF r = Server THEN UNION {seen[n] : n \in Name} ELSE store[r]

\* A snapshot is committed to a repository, on top of what a timeline holds; a
\* merge has a second parent.
CommitSnapshot(r, n, s) ==
    /\ commits < MaxCommits /\ \A q \in Repo : s \notin store[q]
    /\ IF head[r][n] = None THEN Parents(s) = {}
       ELSE head[r][n] \in Parents(s) /\ Parents(s) \subseteq Mergeable(r)
    /\ commits' = commits + 1
    /\ store' = [store EXCEPT ![r] = @ \cup Own(s)]
    /\ head' = [head EXCEPT ![r][n] = s]
    /\ seen' = IF r = Server THEN [seen EXCEPT ![n] = @ \cup {s}] ELSE seen
    /\ UNCHANGED <<free, tracking, ses, strict, moved, landed, calls, breaks, policies>>

\* A client moves its own timeline to what it last saw of the server.
Adopt(c, n) ==
    /\ At(c, "idle") /\ tracking[c][n] # None /\ head[c][n] # tracking[c][n]
    /\ commits < MaxCommits /\ commits' = commits + 1
    /\ head' = [head EXCEPT ![c][n] = tracking[c][n]]
    /\ UNCHANGED <<store, free, tracking, ses, strict, seen, moved, landed, calls, breaks, policies>>

\* The server's pinned policy comes or ceases to bind a non-deterministic hook.
PinPolicy ==
    /\ policies < MaxPolicies /\ policies' = policies + 1 /\ strict' = ~strict
    /\ UNCHANGED <<store, head, free, tracking, ses, seen, moved, landed, calls, commits, breaks>>

Step(c) ==
    \/ Advertise(c) \/ ServeHttp(c) \/ Want(c) \/ Pack(c) \/ Fetched(c) \/ Mirror(c) \/ Prove(c)
    \/ Plan(c) \/ PlanLocal(c) \/ Receive(c) \/ Gate(c) \/ Commit(c) \/ Reply(c) \/ Identity(c)
    \/ \E o \in Object : Land(c, o)

Next ==
    \/ \E c \in Client : \/ Step(c) \/ Break(c) \/ Clone(c) \/ LocalFetch(c) \/ HttpFetch(c) \/ CliFetch(c)
                         \/ \E o \in Client : CliPull(c, o)
                         \/ \E names \in PushSets : \/ LocalPush(c, names) \/ HttpPush(c, names)
                                                   \/ \E o \in Client \cup {None} : CliPush(c, names, o)
    \/ \E c \in Client, n \in Name : Adopt(c, n)
    \/ \E r \in Repo, n \in Name, s \in Snapshot : CommitSnapshot(r, n, s)
    \/ PinPolicy

\* The tasks of a session are scheduled; nothing makes anybody begin one.
Fairness == \A c \in Client : WF_vars(Step(c))

Spec == Init /\ [][Next]_vars /\ Fairness

----------------------------------------------------------------------------
(* Properties *)

Complete(s) == Closure[s] \subseteq store[Server]

\* The history of a snapshot has a head that was pushed in process.
Unchecked(s) == \E c \in Client : \E m \in moved[c] : m[1] = "local" /\ m[3] \in Closure[s]

\* However sessions interleave and wherever a transfer broke off before, every
\* head that the server has had can be checked out: all the objects it reaches
\* are stored (closure_present).  Only the in-process push moves a head without
\* that check.
HeadsComplete == \A n \in Name : \A s \in seen[n] : Unchecked(s) \/ Complete(s)

\* The comment on negotiation, "having object X means having X's entire
\* reachable closure": what is pushed in process on that ground is complete.
ClosurePrefix == \A n \in Name : \A s \in seen[n] : Complete(s)

\* A push moves a timeline that is not Unrestricted only to a descendant of
\* the head it replaces, although three reads precede the swap.
LineageKept ==
    [][\A n \in Name : head[Server][n] # None /\ <<Server, n>> \notin free =>
         head[Server][n] \in Closure[head'[Server][n]]]_vars

\* A tracking ref names a head that the server's timeline has had, whichever
\* replies were lost; the next push compares with it.
TrackingSeen ==
    \A c \in Client, n \in Name : tracking[c][n] # None => tracking[c][n] \in seen[n]

\* Pushes move no reserved name.  On a hub they move names of the client whose
\* push it was, whichever owner the client claimed to be; elsewhere names that
\* the client may write over that transport.
Fenced ==
    \A c \in Client : \A m \in moved[c] :
        /\ m[2] \notin Reserved
        /\ IF m[1] = "hub" THEN Namespace[m[2]] = c ELSE m[2] \in Writable[c][m[1]]

\* Neither side waits for ever for the other.
SessionsEnd == \A c \in Client : ~At(c, "idle") ~> At(c, "idle")
=============================================================================
