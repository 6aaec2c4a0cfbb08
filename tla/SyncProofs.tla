----------------------------- MODULE SyncProofs -----------------------------
(***************************************************************************)
(* Proofs about Sync, for any number of clients, timelines and objects and *)
(* every acyclic object graph: what pushes leave on the server is          *)
(* complete, fenced and of the right lineage, and tracking refs are true.  *)
(***************************************************************************)
EXTENDS Sync, WalkProofs, TLAPS

-----------------------------------------------------------------------------
(* The object graph *)

\* A walk along some of the edges visits part of the closure; else the acyclic
\* graph has a lowest object from where it does not.
LEMMA WalkInClosure ==
    ASSUME NEW edges \in [Object -> SUBSET Object], \A o \in Object : edges[o] \subseteq Edges[o],
           NEW s \in Object
    PROVE  Walk(Object, edges)[s] \subseteq Closure[s]
<1> DEFINE Bad == {o \in Object : ~(Walk(Object, edges)[o] \subseteq Closure[o])}
<1>1. Edges \in [Object -> SUBSET Object]
    BY SyncAssumption, Zenon
<1>2. ASSUME Bad # {} PROVE FALSE
  <2>1. PICK o \in Bad : Edges[o] \cap Bad = {}
    BY <1>2, SyncAssumption, Zenon
  <2>2. o \in Object /\ Edges[o] \subseteq Object
    BY <1>1, Zenon
  <2>3. \A e \in edges[o] : e \in Edges[o] /\ Walk(Object, edges)[e] \subseteq Closure[e]
    BY <2>1, <2>2, Zenon
  <2>4. Walk(Object, edges)[o] = {o} \cup UNION {Walk(Object, edges)[e] : e \in edges[o]}
    BY <2>2, WalkStep
  <2>5. Closure[o] = {o} \cup UNION {Closure[e] : e \in Edges[o]}
    BY <1>1, <2>2, WalkStep DEF Closure
  <2> HIDE DEF Bad
  <2>6. Walk(Object, edges)[o] \subseteq Closure[o]
    BY <2>3, <2>4, <2>5, Zenon
  <2> QED BY <2>1, <2>6, Zenon DEF Bad
<1> QED BY <1>2, Zenon

\* What an object reaches consists of objects.
LEMMA ClosureType == \A o \in Object : Closure[o] \subseteq Object
<1> DEFINE Bad == {o \in Object : ~(Closure[o] \subseteq Object)}
<1>1. Edges \in [Object -> SUBSET Object]
    BY SyncAssumption, Zenon
<1>2. ASSUME Bad # {} PROVE FALSE
  <2>1. PICK o \in Bad : Edges[o] \cap Bad = {}
    BY <1>2, SyncAssumption, Zenon
  <2>2. o \in Object /\ Edges[o] \subseteq Object
    BY <1>1, Zenon
  <2>3. \A e \in Edges[o] : Closure[e] \subseteq Object
    BY <2>1, <2>2, Zenon
  <2>4. Closure[o] = {o} \cup UNION {Closure[e] : e \in Edges[o]}
    BY <1>1, <2>2, WalkStep DEF Closure
  <2> QED BY <2>1, <2>2, <2>3, <2>4, Zenon
<1> QED BY <1>2, Zenon

\* The closure of an object is itself and the closures of what it embeds.
LEMMA ClosureStep ==
    ASSUME NEW o \in Object
    PROVE  /\ Edges[o] \subseteq Object
           /\ Closure[o] = {o} \cup UNION {Closure[e] : e \in Edges[o]}
<1>1. Edges \in [Object -> SUBSET Object]
    BY SyncAssumption, Zenon
<1> QED BY <1>1, WalkStep DEF Closure

\* What the proofs use of the repositories, the snapshots and the names.
LEMMA Kinds ==
    /\ Server \notin Client /\ Server \in Repo /\ Client \subseteq Repo
    /\ Snapshot \subseteq Object /\ None \notin Object
    /\ \A c \in Client : Readable[c] \subseteq Name
BY SyncAssumption, Zenon DEF Repo

-----------------------------------------------------------------------------
(* The inductive invariant *)

\* The operations of a session that have passed their checks: those accepted,
\* and in process all that are planned.
Checked(c) == ses[c].ok \cup IF ses[c].via = "local" THEN ses[c].ops ELSE {}

\* What a session says about the server's heads was once true, and names the
\* server may be asked to move were never without a head since.
Informed(c) ==
    /\ \A n \in DOMAIN ses[c].adverts : ses[c].adverts[n] \in seen[n]
    /\ \A op \in ses[c].ops : op.old # None => op.old \in seen[op.name]

\* Nothing is accepted before the gate; what the reply confirms has been
\* the head.
Confirmable(c) ==
    /\ ses[c].ok \subseteq ses[c].ops
    /\ ses[c].pc \notin {"commit", "reply", "identity"} => ses[c].ok = {}
    /\ ses[c].pc = "reply" => \A op \in ses[c].ok :
         (CHOOSE x \in ses[c].ok : x.name = op.name).new \in seen[op.name]

\* A checked operation moves its timeline forward from the head it expects.
Forward(op) ==
    op.old = None \/ <<Server, op.name>> \in free \/ op.old \in Closure[op.new]

Sound(c) ==
    /\ \A op \in Checked(c) : Forward(op) /\ op.name \notin Reserved /\ op.name \in Writes(c)
    /\ ses[c].via # "local" => \A op \in ses[c].ok : Complete(op.new)
    /\ ses[c].verb = "push" /\ ses[c].via = "hub" /\ ses[c].pc # "prove" => ses[c].owner = c

SessionsGood ==
    \A c \in Client : ses[c] # Idle => Informed(c) /\ Confirmable(c) /\ Sound(c)

\* The head of a timeline is among those it has had, and it has one from the
\* first on.
HeadsSeen ==
    \A n \in Name : /\ head[Server][n] # None => head[Server][n] \in seen[n]
                    /\ seen[n] # {} => head[Server][n] # None

IInv == TypeOK /\ HeadsSeen /\ TrackingSeen /\ SessionsGood /\ HeadsComplete /\ Fenced

-----------------------------------------------------------------------------
(* Types *)

\* A pack holds objects.
LEMMA MissingType ==
    ASSUME NEW r, NEW wants, NEW have, store[r] \subseteq Object
    PROVE  MissingClosure(r, wants, have) \subseteq Object
<1> DEFINE sent == store[r] \ have
           edges == [o \in Object |-> Edges[o] \cap sent]
<1>1. edges \in [Object -> SUBSET Object] /\ \A o \in Object : edges[o] \subseteq Edges[o]
    BY SyncAssumption, Zenon
<1>2. \A w \in sent : Walk(Object, edges)[w] \subseteq Object
  <2> HIDE DEF edges
  <2> QED BY <1>1, WalkInClosure, ClosureType, Zenon
<1>3. MissingClosure(r, wants, have) = UNION {Walk(Object, edges)[w] : w \in wants \cap sent}
    BY Zenon DEF MissingClosure
<1> HIDE DEF edges
<1> QED BY <1>2, <1>3, Zenon

\* The walk over the snapshots that a repository holds stays in the closure.
LEMMA ReachedInClosure ==
    ASSUME NEW r, NEW s \in Snapshot
    PROVE  Reached(r, s) \subseteq Closure[s]
<1> DEFINE edges == [o \in Object |-> IF o \in store[r] \cap Snapshot THEN Parents(o) ELSE {}]
<1>1. edges \in [Object -> SUBSET Object] /\ \A o \in Object : edges[o] \subseteq Edges[o]
    BY SyncAssumption, Zenon DEF Parents
<1>2. s \in Object
    BY SyncAssumption, Zenon
<1>3. Reached(r, s) = Walk(Object, edges)[s]
    BY Zenon DEF Reached
<1> HIDE DEF edges
<1> QED BY <1>1, <1>2, <1>3, WalkInClosure, Zenon

\* A session that is under way is a session.
LEMMA Running ==
    ASSUME TypeOK, NEW c \in Client
    PROVE  /\ ses[c].pc # "idle" => ses[c] \in Session /\ ses[c] # Idle
           /\ ses[c] # Idle => ses[c] \in Session /\ ses[c].pc # "idle"
BY DEF TypeOK, Idle, Session, PC

\* The operations of a push are operations.
LEMMA OpsType ==
    ASSUME TypeOK, NEW c \in Client, ses[c] \in Session
    PROVE  /\ Ops(c) \subseteq Op
           /\ \A op \in Ops(c) : op.old = tracking[c][op.name]
<1>1. \A n \in ses[c].names : n \in Name /\ RemoteName(c, n) \in Name
    BY SyncAssumption DEF Session, RemoteName
<1>2. /\ \A n \in Name : tracking[c][n] \in Snapshot \cup {None}
      /\ \A n \in Name : head[c][n] \in Snapshot \cup {None}
    BY DEF TypeOK, Repo
<1> QED BY <1>1, <1>2 DEF Ops, Op

\* The heads that are advertised are snapshots that the server has had.
LEMMA AdvertsType ==
    ASSUME TypeOK, NEW c \in Client
    PROVE  /\ Adverts(c) \in UNION {[names -> Snapshot] : names \in SUBSET Name}
           /\ DOMAIN Adverts(c) \subseteq Name
           /\ \A n \in DOMAIN Adverts(c) : Adverts(c)[n] = head[Server][n] /\ head[Server][n] # None
<1>1. Served(c) \in SUBSET Name /\ \A n \in Served(c) : head[Server][n] # None
    BY Zenon DEF Served
<1>2. \A n \in Served(c) : head[Server][n] \in Snapshot
    BY <1>1 DEF TypeOK, Repo
<1>3. Adverts(c) \in [Served(c) -> Snapshot]
    BY <1>2, Zenon DEF Adverts
<1> QED BY <1>1, <1>3, Zenon DEF Adverts

\* Somebody begins a session.
Begins(c) ==
    \E verb \in {"fetch", "push", "clone"}, via \in Transport, names \in SUBSET Name,
       owner \in Client \cup {None} : Begin(c, verb, via, names, owner)

\* Every step is one of a session, a client or the server, or a change of policy.
LEMMA Cases ==
    ASSUME Next
    PROVE  \/ \E c \in Client : Begins(c) \/ Step(c) \/ Break(c)
           \/ \E c \in Client, n \in Name : Adopt(c, n)
           \/ \E r \in Repo, n \in Name, s \in Snapshot : CommitSnapshot(r, n, s)
           \/ PinPolicy
<1>1. ASSUME NEW c \in Client, Clone(c) \/ LocalFetch(c) \/ HttpFetch(c) \/ CliFetch(c)
      PROVE  Begins(c)
    BY <1>1, Zenon DEF Begins, Clone, LocalFetch, HttpFetch, CliFetch, ClientFetch, Transport
<1>2. ASSUME NEW c \in Client, NEW o \in Client, CliPull(c, o) PROVE Begins(c)
    BY <1>2, Zenon DEF Begins, CliPull, HubFetch, Transport
<1>3. ASSUME NEW c \in Client, NEW names \in PushSets,
             \/ LocalPush(c, names) \/ HttpPush(c, names)
             \/ \E o \in Client \cup {None} : CliPush(c, names, o)
      PROVE  Begins(c)
  <2>1. names \in SUBSET Name
    BY SyncAssumption, Zenon
  <2> QED BY <1>3, <2>1, Zenon
             DEF Begins, LocalPush, HttpPush, CliPush, ClientPush, HubPush, Transport
<1> QED BY <1>1, <1>2, <1>3, Zenon DEF Next

\* A step of one session that ends it or leaves a session keeps the types, if
\* it touches nothing else that is typed.
LEMMA SessionType ==
    ASSUME TypeOK, NEW c \in Client, NEW x \in Session \cup {Idle}, ses' = [ses EXCEPT ![c] = x]
    PROVE  ses' \in [Client -> Session \cup {Idle}]
BY Zenon DEF TypeOK

\* The steps that choose what a session goes on with.
LEMMA WantForm ==
    ASSUME NEW c, Want(c)
    PROVE  \/ Ends(c)
           \/ \E names \in SUBSET (DOMAIN ses[c].adverts) :
                ses' = [ses EXCEPT ![c].adverts = [n \in names |-> ses[c].adverts[n]],
                                   ![c].have = store[c], ![c].pc = "pack"]
<1> DEFINE names == {n \in DOMAIN ses[c].adverts : ses[c].via = "hub" => Namespace[n] = ses[c].owner}
<1>1. \/ Ends(c)
      \/ ses' = [ses EXCEPT ![c].adverts = [n \in names |-> ses[c].adverts[n]],
                            ![c].have = store[c], ![c].pc = "pack"]
    BY Zenon DEF Want
<1>2. names \in SUBSET (DOMAIN ses[c].adverts)
    BY Zenon
<1> HIDE DEF names
<1> QED BY <1>1, <1>2, Zenon

\* An in-process push plans operations that passed its checks, or ends.
LEMMA PlanLocalForm ==
    ASSUME NEW c, PlanLocal(c)
    PROVE  \/ Ends(c)
           \/ \E missed, plan \in SUBSET Ops(c) :
                /\ \A op \in plan : /\ op.name \notin Reserved /\ op.name \in Writes(c)
                                    /\ LineageAllows(op, missed)
                /\ ses' = [ses EXCEPT ![c].ops = plan, ![c].pc = "land",
                              ![c].pack = MissingClosure(c, {op.new : op \in plan}, store[Server])]
<1>1. PICK missed \in SUBSET {op \in Ops(c) : MayMiss(Server, op)} :
         LET plan == {op \in Ops(c) : /\ op.name \notin Reserved /\ op.name \in Writes(c)
                                      /\ ~strict /\ LineageAllows(op, missed)}
         IN  IF plan = {} THEN Ends(c)
             ELSE ses' = [ses EXCEPT ![c].ops = plan, ![c].pc = "land",
                            ![c].pack = MissingClosure(c, {op.new : op \in plan}, store[Server])]
    BY Zenon DEF PlanLocal
<1> DEFINE plan == {op \in Ops(c) : /\ op.name \notin Reserved /\ op.name \in Writes(c)
                                    /\ ~strict /\ LineageAllows(op, missed)}
<1>2. \/ Ends(c)
      \/ ses' = [ses EXCEPT ![c].ops = plan, ![c].pc = "land",
                    ![c].pack = MissingClosure(c, {op.new : op \in plan}, store[Server])]
    BY <1>1, Zenon
<1>3. /\ plan \in SUBSET Ops(c) /\ missed \in SUBSET Ops(c)
      /\ \A op \in plan : /\ op.name \notin Reserved /\ op.name \in Writes(c)
                          /\ LineageAllows(op, missed)
    BY <1>1, Zenon
<1> HIDE DEF plan
<1> QED BY <1>2, <1>3, Zenon

\* The gate accepts operations that passed the checks of the transport, or ends.
LEMMA GateForm ==
    ASSUME NEW c, Gate(c)
    PROVE  \/ Ends(c)
           \/ \E missed, accepted \in SUBSET ses[c].ops :
                /\ ses[c].via # "local" => \A op \in accepted : Admits(c, op, missed)
                /\ ses' = [ses EXCEPT ![c].ok = accepted, ![c].pc = AfterGate(accepted)]
<1>1. PICK missed \in SUBSET {op \in ses[c].ops : MayMiss(Server, op)} :
         LET local == ses[c].via = "local"
             accepted == {op \in ses[c].ops : IF local THEN HookAllows(op) ELSE Admits(c, op, missed)}
         IN  IF accepted = {} /\ local THEN Ends(c)
             ELSE ses' = [ses EXCEPT ![c].ok = accepted, ![c].pc = AfterGate(accepted)]
    BY Zenon DEF Gate
<1> DEFINE accepted == {op \in ses[c].ops :
                          IF ses[c].via = "local" THEN HookAllows(op) ELSE Admits(c, op, missed)}
<1>2. \/ Ends(c)
      \/ ses' = [ses EXCEPT ![c].ok = accepted, ![c].pc = AfterGate(accepted)]
    BY <1>1, Zenon
<1>3. /\ accepted \in SUBSET ses[c].ops /\ missed \in SUBSET ses[c].ops
      /\ ses[c].via # "local" => \A op \in accepted : Admits(c, op, missed)
    BY <1>1, Zenon
<1> HIDE DEF accepted
<1> QED BY <1>2, <1>3, Zenon

\* The operation that one transaction, and the reply to it, takes for a name.
Chosen(ok, n) == CHOOSE op \in ok : op.name = n

\* The operation chosen for a name is one for that name.
LEMMA ChosenOne ==
    ASSUME NEW ok, NEW n, \E op \in ok : op.name = n
    PROVE  Chosen(ok, n) \in ok /\ Chosen(ok, n).name = n
BY Zenon DEF Chosen

\* What a transaction that swaps does.
LEMMA CommitForm ==
    ASSUME TypeOK, NEW c \in Client, Commit(c)
    PROVE  \/ /\ \A op \in ses[c].ok : Swaps(op)
              /\ \A n \in Name : \/ /\ \E op \in ses[c].ok : op.name = n
                                    /\ head'[Server][n] = Chosen(ses[c].ok, n).new
                                    /\ seen'[n] = seen[n] \cup {Chosen(ses[c].ok, n).new}
                                    /\ <<ses[c].via, n, Chosen(ses[c].ok, n).new>> \in moved'[c]
                                 \/ /\ \A op \in ses[c].ok : op.name # n
                                    /\ head'[Server][n] = head[Server][n] /\ seen'[n] = seen[n]
              /\ moved' = [moved EXCEPT ![c] = @ \cup
                    {<<ses[c].via, n, Chosen(ses[c].ok, n).new>> : n \in {op.name : op \in ses[c].ok}}]
              /\ free \subseteq free' /\ free' \subseteq Repo \X Name
              /\ \A r \in Client : head'[r] = head[r]
              /\ ses' = [ses EXCEPT ![c].pc = "reply"]
           \/ /\ ses' = [ses EXCEPT ![c].ok = {}, ![c].pc = "reply"]
              /\ UNCHANGED <<head, seen, free, moved>>
<1>1. ses[c] \in Session
    BY Running, Zenon DEF Commit, At
<1>2. \A op \in ses[c].ok : op \in Op
    BY <1>1, Zenon DEF Session
<1>3. CASE \A op \in ses[c].ok : Swaps(op)
  <2> DEFINE names == {op.name : op \in ses[c].ok}
             new == [n \in names |-> (CHOOSE op \in ses[c].ok : op.name = n).new]
             created == {op \in ses[c].ok : op.old = None}
  <2>1. /\ head' = [head EXCEPT ![Server] = [n \in Name |-> IF n \in names THEN new[n] ELSE @[n]]]
        /\ seen' = [n \in Name |-> IF n \in names THEN seen[n] \cup {new[n]} ELSE seen[n]]
        /\ free' = free \cup {<<Server, op.name>> : op \in {x \in created :
                                  ses[c].via = "local" /\ <<c, x.local>> \in free}}
        /\ moved' = [moved EXCEPT ![c] = @ \cup {<<ses[c].via, n, new[n]>> : n \in names}]
        /\ ses' = [ses EXCEPT ![c].pc = "reply"]
    BY <1>3, Zenon DEF Commit, Goes
  <2>2. \A n \in names : new[n] = Chosen(ses[c].ok, n).new
    BY Zenon DEF Chosen
  <2>3. names \subseteq Name
    BY <1>2, Zenon DEF Op
  <2>4. free \subseteq free' /\ free' \subseteq Repo \X Name
    <3>1. \A op \in created : <<Server, op.name>> \in Repo \X Name
        BY <1>2, Zenon DEF Op, Repo
    <3>2. free' = free \cup {<<Server, op.name>> : op \in {x \in created :
                                  ses[c].via = "local" /\ <<c, x.local>> \in free}}
        BY <2>1, Zenon
    <3>3. free \subseteq Repo \X Name
        BY Zenon DEF TypeOK
    <3> HIDE DEF created
    <3> QED BY <3>1, <3>2, <3>3, Zenon
  <2>5. {<<ses[c].via, n, new[n]>> : n \in names}
          = {<<ses[c].via, n, Chosen(ses[c].ok, n).new>> : n \in names}
    <3> HIDE DEF names, new
    <3> QED BY <2>2, Zenon
  <2>6. \A n \in names : \E op \in ses[c].ok : op.name = n
    BY Zenon
  <2>7. \A n \in Name \ names : \A op \in ses[c].ok : op.name # n
    BY Zenon
  <2>8. \A r \in Client : head'[r] = head[r]
    BY <2>1, SyncAssumption, ZenonT(30) DEF TypeOK, Repo
  <2>9. \A n \in Name : head'[Server][n] = IF n \in names THEN new[n] ELSE head[Server][n]
    BY <2>1, Zenon DEF TypeOK, Repo
  <2>10. \A n \in names : <<ses[c].via, n, new[n]>> \in moved'[c]
    <3> HIDE DEF names, new
    <3> QED BY <2>1, Zenon DEF TypeOK
  <2>11. moved' = [moved EXCEPT ![c] = @ \cup
             {<<ses[c].via, n, Chosen(ses[c].ok, n).new>> : n \in names}]
    BY <2>1, <2>5, Zenon
  <2>12. \A n \in Name : seen'[n] = IF n \in names THEN seen[n] \cup {new[n]} ELSE seen[n]
    BY <2>1, Zenon
  <2>13. ses' = [ses EXCEPT ![c].pc = "reply"]
    BY <2>1, Zenon
  <2>14. \A n \in Name : \/ /\ \E op \in ses[c].ok : op.name = n
                            /\ head'[Server][n] = Chosen(ses[c].ok, n).new
                            /\ seen'[n] = seen[n] \cup {Chosen(ses[c].ok, n).new}
                            /\ <<ses[c].via, n, Chosen(ses[c].ok, n).new>> \in moved'[c]
                         \/ /\ \A op \in ses[c].ok : op.name # n
                            /\ head'[Server][n] = head[Server][n] /\ seen'[n] = seen[n]
    <3> HIDE DEF names, new
    <3> QED BY <2>2, <2>6, <2>7, <2>9, <2>10, <2>12, Zenon
  <2> HIDE DEF new, created
  <2> QED BY <1>3, <2>4, <2>8, <2>11, <2>13, <2>14, Zenon
<1>4. CASE ~\A op \in ses[c].ok : Swaps(op)
    BY <1>4, Zenon DEF Commit
<1> QED BY <1>3, <1>4, Zenon

\* Every step keeps the types.
LEMMA TypeStep == TypeOK /\ [Next]_vars => TypeOK'
<1> SUFFICES ASSUME TypeOK, [Next]_vars PROVE TypeOK'
    BY Zenon
<1>1. ASSUME NEW c \in Client, Begins(c) PROVE TypeOK'
  <2>1. PICK verb \in {"fetch", "push", "clone"}, via \in Transport, names \in SUBSET Name,
             owner \in Client \cup {None} : Begin(c, verb, via, names, owner)
    BY <1>1, Zenon DEF Begins
  <2> DEFINE x == [verb |-> verb, via |-> via, names |-> names, owner |-> owner, adverts |-> <<>>,
          have |-> IF via = "http" THEN store[c] ELSE {}, pack |-> {}, ops |-> {}, ok |-> {},
          pc |-> IF verb = "push" /\ via = "hub" THEN "prove"
                 ELSE IF verb = "push" /\ via \in {"http", "local"} THEN "plan"
                 ELSE "advertise"]
  <2>2. <<>> \in UNION {[ns -> Snapshot] : ns \in SUBSET Name}
    <3>1. <<>> \in [{} -> Snapshot]
        OBVIOUS
    <3> QED BY <3>1, Zenon
  <2>3. x \in Session
    BY <2>2, Zenon DEF Session, PC, TypeOK, Repo
  <2>4. ses' = [ses EXCEPT ![c] = x]
    BY <2>1, Zenon DEF Begin
  <2>5. ses' \in [Client -> Session \cup {Idle}]
    BY <2>3, <2>4, SessionType, Zenon
  <2> QED BY <2>1, <2>5, Zenon DEF Begin, TypeOK
<1>2. ASSUME NEW c \in Client, Step(c) PROVE TypeOK'
  <2>1. CASE Advertise(c)
    <3>1. ses[c] \in Session
        BY <2>1, Running, Zenon DEF Advertise, At
    <3>2. [ses[c] EXCEPT !.adverts = Adverts(c),
                         !.pc = IF ses[c].verb = "push" THEN "plan" ELSE "want"] \in Session
        BY <3>1, AdvertsType, Zenon DEF Session, PC
    <3> QED BY <2>1, <3>2, SessionType, Zenon DEF Advertise, TypeOK
  <2>2. CASE ServeHttp(c)
    <3>1. ses[c] \in Session
        BY <2>2, Running, Zenon DEF ServeHttp
    <3>2. store[Server] \subseteq Object
        BY Zenon DEF TypeOK, Repo
    <3>3. [ses[c] EXCEPT !.adverts = Adverts(c), !.pc = "land",
             !.pack = MissingClosure(Server, Targets(Adverts(c)), ses[c].have)] \in Session
        BY <3>1, <3>2, AdvertsType, MissingType, Zenon DEF Session, PC
    <3>4. [ses[c] EXCEPT !.pc = AfterReceive(c)] \in Session
        BY <3>1, Zenon DEF Session, PC, AfterReceive
    <3>5. ses' \in [Client -> Session \cup {Idle}]
        BY <2>2, <3>3, <3>4, Zenon DEF ServeHttp, Goes, TypeOK
    <3> QED BY <2>2, <3>5, Zenon DEF ServeHttp, TypeOK
  <2>3. CASE Want(c)
    <3>1. ses[c] \in Session
        BY <2>3, Running, Zenon DEF Want, At
    <3>2. ASSUME NEW names \in SUBSET (DOMAIN ses[c].adverts)
          PROVE  [ses[c] EXCEPT !.adverts = [n \in names |-> ses[c].adverts[n]],
                                !.have = store[c], !.pc = "pack"] \in Session
      <4>1. PICK ns \in SUBSET Name : ses[c].adverts \in [ns -> Snapshot]
        BY <3>1, Zenon DEF Session
      <4>2. [n \in names |-> ses[c].adverts[n]] \in [names -> Snapshot] /\ names \in SUBSET Name
        BY <4>1, Zenon
      <4>3. [n \in names |-> ses[c].adverts[n]] \in UNION {[m -> Snapshot] : m \in SUBSET Name}
        BY <4>2, Zenon
      <4> QED BY <3>1, <4>3, Zenon DEF Session, PC, TypeOK, Repo
    <3>3. ses' \in [Client -> Session \cup {Idle}]
      <4>1. CASE Ends(c)
        BY <4>1, Zenon DEF Ends, TypeOK
      <4>2. CASE ~Ends(c)
        <5>1. PICK names \in SUBSET (DOMAIN ses[c].adverts) :
                ses' = [ses EXCEPT ![c].adverts = [n \in names |-> ses[c].adverts[n]],
                                   ![c].have = store[c], ![c].pc = "pack"]
            BY <2>3, <4>2, WantForm, Zenon
        <5> QED BY <5>1, <3>2, Zenon DEF TypeOK
      <4> QED BY <4>1, <4>2, Zenon
    <3> QED BY <2>3, <3>3, Zenon DEF Want, TypeOK
  <2>4. CASE Pack(c)
    <3>1. ses[c] \in Session
        BY <2>4, Running, Zenon DEF Pack, At
    <3>2. store[Server] \subseteq Object
        BY Zenon DEF TypeOK, Repo
    <3>3. [ses[c] EXCEPT !.pack = MissingClosure(Server, Targets(ses[c].adverts), ses[c].have),
                         !.pc = "land"] \in Session
        BY <3>1, <3>2, MissingType, Zenon DEF Session, PC
    <3> QED BY <2>4, <3>3, SessionType, Zenon DEF Pack, TypeOK
  <2>5. CASE Fetched(c)
    <3>1. ses[c] \in Session
        BY <2>5, Running, Zenon DEF Fetched, At
    <3>2. [ses[c] EXCEPT !.pc = "commit"] \in Session
        BY <3>1, Zenon DEF Session, PC
    <3>3. ses' \in [Client -> Session \cup {Idle}]
        BY <2>5, <3>2, Zenon DEF Fetched, Goes, Ends, TypeOK
    <3>4. \A n \in DOMAIN ses[c].adverts : ses[c].adverts[n] \in Snapshot
        BY <3>1 DEF Session
    <3>5. tracking' \in [Client -> [Name -> Snapshot \cup {None}]]
        BY <2>5, <3>4, Zenon DEF Fetched, TypeOK
    <3> QED BY <2>5, <3>3, <3>5, Zenon DEF Fetched, TypeOK
  <2>6. CASE Mirror(c)
    <3>1. ses' \in [Client -> Session \cup {Idle}]
        BY <2>6, Zenon DEF Mirror, Ends, TypeOK
    <3>2. head' \in [Repo -> [Name -> Snapshot \cup {None}]]
        BY <2>6 DEF Mirror, TypeOK, Repo
    <3>3. free' \subseteq Repo \X Name
      <4>1. c \in Repo /\ Readable[c] \subseteq Name /\ free \subseteq Repo \X Name
        BY Kinds, Zenon DEF TypeOK
      <4>2. \A x \in free' : x \in free \/ \E m \in Readable[c] : x = <<c, m>>
        BY <2>6, Zenon DEF Mirror
      <4> QED BY <4>1, <4>2
    <3> QED BY <2>6, <3>1, <3>2, <3>3, Zenon DEF Mirror, TypeOK
  <2>7. CASE Prove(c)
    <3>1. ses[c] \in Session
        BY <2>7, Running, Zenon DEF Prove, At
    <3>2. [ses[c] EXCEPT !.pc = "advertise"] \in Session
        BY <3>1, Zenon DEF Session, PC
    <3> QED BY <2>7, <3>2, Zenon DEF Prove, Goes, Ends, TypeOK
  <2>8. CASE Plan(c)
    <3>1. ses[c] \in Session
        BY <2>8, Running, Zenon DEF Plan, At
    <3>2. store[c] \subseteq Object
        BY Zenon DEF TypeOK, Repo
    <3>3. ASSUME NEW have
          PROVE  [ses[c] EXCEPT !.ops = Ops(c), !.pc = "receive",
                    !.pack = MissingClosure(c, {op.new : op \in Ops(c)}, have)] \in Session
        BY <3>1, <3>2, MissingType, OpsType, Zenon DEF Session, PC
    <3>4. ses' \in [Client -> Session \cup {Idle}]
        BY <2>8, <3>3, Zenon DEF Plan, TypeOK
    <3> QED BY <2>8, <3>4, Zenon DEF Plan, TypeOK
  <2>9. CASE PlanLocal(c)
    <3>1. ses[c] \in Session
        BY <2>9, Running, Zenon DEF PlanLocal, At
    <3>2. store[c] \subseteq Object
        BY Zenon DEF TypeOK, Repo
    <3>3. ASSUME NEW plan \in SUBSET Ops(c)
          PROVE  [ses[c] EXCEPT !.ops = plan, !.pc = "land",
                    !.pack = MissingClosure(c, {op.new : op \in plan}, store[Server])] \in Session
        BY <3>1, <3>2, MissingType, OpsType, Zenon DEF Session, PC
    <3>4. ses' \in [Client -> Session \cup {Idle}]
      <4>1. CASE Ends(c)
        BY <4>1, Zenon DEF Ends, TypeOK
      <4>2. CASE ~Ends(c)
        <5>1. PICK plan \in SUBSET Ops(c) :
                ses' = [ses EXCEPT ![c].ops = plan, ![c].pc = "land",
                           ![c].pack = MissingClosure(c, {op.new : op \in plan}, store[Server])]
            BY <2>9, <4>2, PlanLocalForm, Zenon
        <5> QED BY <5>1, <3>3, Zenon DEF TypeOK
      <4> QED BY <4>1, <4>2, Zenon
    <3> QED BY <2>9, <3>4, Zenon DEF PlanLocal, TypeOK
  <2>10. CASE Receive(c)
    <3>1. ses[c] \in Session
        BY <2>10, Running, Zenon DEF Receive, At
    <3>2. [ses[c] EXCEPT !.pc = AfterReceive(c)] \in Session
        BY <3>1, Zenon DEF Session, PC, AfterReceive
    <3> QED BY <2>10, <3>2, Zenon DEF Receive, Goes, TypeOK
  <2>11. CASE Gate(c)
    <3>1. ses[c] \in Session
        BY <2>11, Running, Zenon DEF Gate, At
    <3>2. ASSUME NEW accepted \in SUBSET ses[c].ops
          PROVE  [ses[c] EXCEPT !.ok = accepted, !.pc = AfterGate(accepted)] \in Session
        BY <3>1, Zenon DEF Session, PC, AfterGate
    <3>3. ses' \in [Client -> Session \cup {Idle}]
      <4>1. CASE Ends(c)
        BY <4>1, Zenon DEF Ends, TypeOK
      <4>2. CASE ~Ends(c)
        <5>1. PICK accepted \in SUBSET ses[c].ops :
                ses' = [ses EXCEPT ![c].ok = accepted, ![c].pc = AfterGate(accepted)]
            BY <2>11, <4>2, GateForm, Zenon
        <5> QED BY <5>1, <3>2, Zenon DEF TypeOK
      <4> QED BY <4>1, <4>2, Zenon
    <3> QED BY <2>11, <3>3, Zenon DEF Gate, TypeOK
  <2>12. CASE Commit(c)
    <3>1. ses[c] \in Session
        BY <2>12, Running, Zenon DEF Commit, At
    <3>2. /\ [ses[c] EXCEPT !.pc = "reply"] \in Session
          /\ [ses[c] EXCEPT !.ok = {}, !.pc = "reply"] \in Session
        BY <3>1, Zenon DEF Session, PC
    <3>3. ses' \in [Client -> Session \cup {Idle}]
        BY <2>12, <3>2, CommitForm, ZenonT(40) DEF TypeOK
    <3>4. \A op \in ses[c].ok : op \in Op
        BY <3>1, Zenon DEF Session
    <3>5. \A n : (\E op \in ses[c].ok : op.name = n) =>
            n \in Name /\ Chosen(ses[c].ok, n).new \in Snapshot
        BY <3>4, ChosenOne DEF Op
    <3>6. moved' \in [Client -> SUBSET (Transport \X Name \X Snapshot)]
      <4>1. ses[c].via \in Transport
        BY <3>1, Zenon DEF Session
      <4> DEFINE more == {<<ses[c].via, n, Chosen(ses[c].ok, n).new>> :
                            n \in {op.name : op \in ses[c].ok}}
      <4>2. more \subseteq Transport \X Name \X Snapshot
        BY <3>5, <4>1
      <4>3. moved' = moved \/ moved' = [moved EXCEPT ![c] = @ \cup more]
        BY <2>12, CommitForm, Zenon
      <4> HIDE DEF more
      <4> QED BY <4>2, <4>3 DEF TypeOK
    <3>7. seen' \in [Name -> SUBSET Snapshot]
      <4>1. \A n \in Name : seen'[n] \subseteq Snapshot
        <5> SUFFICES ASSUME NEW n \in Name PROVE seen'[n] \subseteq Snapshot
            BY Zenon
        <5>1. \/ seen'[n] = seen[n]
              \/ /\ \E op \in ses[c].ok : op.name = n
                 /\ seen'[n] = seen[n] \cup {Chosen(ses[c].ok, n).new}
            BY <2>12, CommitForm, Zenon
        <5> QED BY <5>1, <3>5, SMTT(30) DEF TypeOK
      <4>2. seen' = seen \/ seen' = [n \in Name |-> seen'[n]]
        BY <2>12, Zenon DEF Commit
      <4> QED BY <4>1, <4>2, Zenon DEF TypeOK
    <3>8. head' \in [Repo -> [Name -> Snapshot \cup {None}]]
      <4>1. \A n \in Name : head'[Server][n] \in Snapshot \cup {None}
        <5> SUFFICES ASSUME NEW n \in Name PROVE head'[Server][n] \in Snapshot \cup {None}
            BY Zenon
        <5>1. \/ head'[Server][n] = head[Server][n]
              \/ /\ \E op \in ses[c].ok : op.name = n
                 /\ head'[Server][n] = Chosen(ses[c].ok, n).new
            BY <2>12, CommitForm, Zenon
        <5> QED BY <5>1, <3>5 DEF TypeOK, Repo
      <4>2. head' = head \/ head' = [head EXCEPT ![Server] = [n \in Name |-> head'[Server][n]]]
        BY <2>12, Zenon DEF Commit, TypeOK, Repo
      <4> QED BY <4>1, <4>2, Zenon DEF TypeOK, Repo
    <3>9. free' \subseteq Repo \X Name
        BY <2>12, CommitForm, Zenon DEF TypeOK
    <3> QED BY <2>12, <3>3, <3>6, <3>7, <3>8, <3>9, Zenon DEF Commit, TypeOK
  <2>13. CASE Reply(c)
    <3>1. ses[c] \in Session
        BY <2>13, Running, Zenon DEF Reply, At
    <3>2. [ses[c] EXCEPT !.pc = "identity"] \in Session
        BY <3>1, Zenon DEF Session, PC
    <3>3. ses' \in [Client -> Session \cup {Idle}]
        BY <2>13, <3>2, Zenon DEF Reply, Goes, Ends, TypeOK
    <3>4. \A op \in Applied(c) : op \in Op
        BY <3>1, Zenon DEF Session, Applied
    <3>5. \A n : (\E op \in Applied(c) : op.name = n) =>
            (CHOOSE op \in Applied(c) : op.name = n).new \in Snapshot
        BY <3>4, ChosenOne, Zenon DEF Op, Chosen
    <3>6. tracking' \in [Client -> [Name -> Snapshot \cup {None}]]
        BY <2>13, <3>5, Zenon DEF Reply, TypeOK
    <3> QED BY <2>13, <3>3, <3>6, Zenon DEF Reply, TypeOK
  <2>14. CASE Identity(c)
    BY <2>14, Zenon DEF Identity, Ends, TypeOK
  <2>15. ASSUME NEW o \in Object, Land(c, o) PROVE TypeOK'
    <3>1. ses[c] \in Session
        BY <2>15, Running, Zenon DEF Land, At
    <3>2. [ses[c] EXCEPT !.pack = @ \ {o}] \in Session
        BY <3>1, Zenon DEF Session
    <3>3. ses' \in [Client -> Session \cup {Idle}]
        BY <2>15, <3>2, Zenon DEF Land, TypeOK
    <3> QED BY <2>15, <3>3, Zenon DEF Land, Receiver, TypeOK, Repo
  <2> QED BY <1>2, <2>1, <2>2, <2>3, <2>4, <2>5, <2>6, <2>7, <2>8, <2>9, <2>10, <2>11, <2>12,
             <2>13, <2>14, <2>15, Zenon DEF Step
<1>3. ASSUME NEW c \in Client, Break(c) PROVE TypeOK'
    BY <1>3, Zenon DEF Break, Ends, TypeOK
<1>4. ASSUME NEW c \in Client, NEW n \in Name, Adopt(c, n) PROVE TypeOK'
    BY <1>4, Zenon DEF Adopt, TypeOK, Repo
<1>5. ASSUME NEW r \in Repo, NEW n \in Name, NEW s \in Snapshot, CommitSnapshot(r, n, s)
      PROVE  TypeOK'
  <2>1. Own(s) \subseteq Object
    <3>1. s \in Object /\ Edges[s] \subseteq Object
        BY SyncAssumption, Zenon
    <3> QED BY <3>1, ClosureType, Zenon DEF Own
  <2>2. store' \in [Repo -> SUBSET Object]
    BY <1>5, <2>1, Zenon DEF CommitSnapshot, TypeOK
  <2>3. seen' \in [Name -> SUBSET Snapshot]
    BY <1>5, Zenon DEF CommitSnapshot, TypeOK
  <2>4. head' \in [Repo -> [Name -> Snapshot \cup {None}]]
    BY <1>5, Zenon DEF CommitSnapshot, TypeOK
  <2> QED BY <1>5, <2>2, <2>3, <2>4, Zenon DEF CommitSnapshot, TypeOK
<1>6. CASE PinPolicy
    BY <1>6, Zenon DEF PinPolicy, TypeOK
<1>7. CASE UNCHANGED vars
    BY <1>7, Zenon DEF vars, TypeOK
<1> QED BY <1>1, <1>2, <1>3, <1>4, <1>5, <1>6, <1>7, Cases, Zenon

-----------------------------------------------------------------------------
(* What a step keeps *)

\* The server forgets nothing: the heads it has had, the policies it has
\* given, the objects it has stored.
Grows ==
    /\ \A n \in Name : seen[n] \subseteq seen'[n]
    /\ free \subseteq free'
    /\ store[Server] \subseteq store'[Server]

\* The server forgets no head, no policy and no object.
LEMMA Growth == TypeOK /\ [Next]_vars => Grows
<1> SUFFICES ASSUME TypeOK, [Next]_vars PROVE Grows
    BY Zenon
<1>1. CASE UNCHANGED <<store, free, seen>>
    BY <1>1, Zenon DEF Grows
<1>2. ASSUME NEW c \in Client, Begins(c) PROVE UNCHANGED <<store, free, seen>>
    BY <1>2, Zenon DEF Begins, Begin
<1>3. ASSUME NEW c \in Client, Break(c) PROVE UNCHANGED <<store, free, seen>>
    BY <1>3, Zenon DEF Break
<1>4. ASSUME NEW c \in Client, Step(c) PROVE Grows
  <2>1. CASE Mirror(c)
    BY <2>1, Zenon DEF Mirror, Grows
  <2>2. CASE Commit(c)
    <3>1. \A n \in Name : seen[n] \subseteq seen'[n]
        BY <2>2, CommitForm, Zenon
    <3>2. free \subseteq free' /\ store' = store
        BY <2>2, CommitForm, Zenon DEF Commit
    <3> QED BY <3>1, <3>2, Zenon DEF Grows
  <2>3. ASSUME NEW o \in Object, Land(c, o) PROVE Grows
    BY <2>3, Zenon DEF Land, Receiver, Grows, TypeOK, Repo
  <2>4. CASE ~Mirror(c) /\ ~Commit(c) /\ ~\E o \in Object : Land(c, o)
    <3>1. UNCHANGED <<store, free, seen>>
        BY <1>4, <2>4, Zenon
           DEF Step, Advertise, ServeHttp, Want, Pack, Fetched, Prove, Plan, PlanLocal,
                          Receive, Gate, Reply, Identity
    <3> QED BY <1>1, <3>1, Zenon
  <2> QED BY <2>1, <2>2, <2>3, <2>4, Zenon
<1>5. ASSUME NEW c \in Client, NEW n \in Name, Adopt(c, n) PROVE UNCHANGED <<store, free, seen>>
    BY <1>5, Zenon DEF Adopt
<1>6. ASSUME NEW r \in Repo, NEW n \in Name, NEW s \in Snapshot, CommitSnapshot(r, n, s)
      PROVE  Grows
    BY <1>6, Zenon DEF CommitSnapshot, Grows, TypeOK, Repo
<1>7. CASE PinPolicy
    BY <1>7, <1>1, Zenon DEF PinPolicy
<1>8. CASE UNCHANGED vars
    BY <1>8, <1>1, Zenon DEF vars
<1> QED BY <1>1, <1>2, <1>3, <1>4, <1>5, <1>6, <1>7, <1>8, Cases, Zenon

Good(c) == Informed(c) /\ Confirmable(c) /\ Sound(c)

\* A session that keeps its operations stays good while the server grows,
\* whatever heads that the server has had it is told of.
LEMMA Carry ==
    ASSUME TypeOK, Grows, NEW c \in Client, ses[c] \in Session, Good(c),
           /\ ses'[c].verb = ses[c].verb /\ ses'[c].via = ses[c].via
           /\ ses'[c].owner = ses[c].owner /\ ses'[c].ops = ses[c].ops /\ ses'[c].ok = ses[c].ok,
           \A n \in DOMAIN ses'[c].adverts : n \in Name /\ ses'[c].adverts[n] \in seen[n],
           ses[c].ok = {} \/ ses'[c].pc \in {ses[c].pc, "identity"},
           ses[c].pc # "prove" \/ ses'[c].pc = "prove" \/ ses[c].owner = c
    PROVE  Good(c)'
<1>1. ses[c].ops \subseteq Op /\ ses[c].ok \subseteq Op
    BY Zenon DEF Session
<1>2. Informed(c)'
  <2>1. \A n \in DOMAIN ses'[c].adverts : ses'[c].adverts[n] \in seen'[n]
    BY Zenon DEF Grows
  <2>2. \A op \in ses[c].ops : op.name \in Name
    BY <1>1, Zenon DEF Op
  <2>3. \A op \in ses[c].ops : op.old # None => op.old \in seen'[op.name]
    BY <2>2, Zenon DEF Good, Informed, Grows
  <2> QED BY <2>1, <2>3, Zenon DEF Informed
<1>3. Confirmable(c)'
    BY <1>1, SMTT(30) DEF Good, Confirmable, Grows, Op
<1>4. Sound(c)'
  <2>1. Checked(c)' = Checked(c) /\ Writes(c)' = Writes(c)
    BY Zenon DEF Checked, Writes
  <2>2. \A op \in Checked(c) : Forward(op)'
    BY Zenon DEF Good, Sound, Forward, Grows
  <2>3. ses[c].via # "local" => \A op \in ses[c].ok : Complete(op.new)'
    BY Zenon DEF Good, Sound, Complete, Grows
  <2> QED BY <2>1, <2>2, <2>3, Zenon DEF Good, Sound
<1> QED BY <1>2, <1>3, <1>4, Zenon DEF Good

\* In particular one that takes no part in a step.
LEMMA Others ==
    ASSUME IInv, Grows, NEW c \in Client, ses'[c] = ses[c], ses[c] # Idle
    PROVE  Good(c)'
<1>1. ses[c] \in Session /\ TypeOK
    BY Running, Zenon DEF IInv
<1>2. Good(c)
    BY Zenon DEF IInv, SessionsGood, Good
<1>3. \A n \in DOMAIN ses[c].adverts : n \in Name
    BY <1>1, Zenon DEF Session
<1> QED BY <1>1, <1>2, <1>3, Carry, Zenon DEF Good, Informed

\* So a step of one session keeps all good that leaves it ended or good.
LEMMA OneSession ==
    ASSUME IInv, Grows, NEW c \in Client, \A d \in Client \ {c} : ses'[d] = ses[d],
           ses'[c] = Idle \/ Good(c)'
    PROVE  SessionsGood'
<1> SUFFICES ASSUME NEW d \in Client, ses'[d] # Idle PROVE Good(d)'
    BY Zenon DEF SessionsGood, Good
<1> QED BY Others, Zenon

\* What holds of the server's heads holds as long as they do not move.
LEMMA HeadsStay ==
    ASSUME IInv, Grows, seen' = seen, moved' = moved,
           \A n \in Name : head'[Server][n] = head[Server][n]
    PROVE  HeadsSeen' /\ HeadsComplete' /\ Fenced'
<1>1. HeadsSeen'
    BY Zenon DEF IInv, HeadsSeen
<1>2. HeadsComplete'
    BY Zenon DEF IInv, HeadsComplete, Unchecked, Complete, Grows
<1>3. Fenced'
    BY Zenon DEF IInv, Fenced
<1> QED BY <1>1, <1>2, <1>3, Zenon

\* The fast-forward gate: an operation it lets pass goes forward from the head
\* it expects.  A head once seen is never gone, so the gate has compared.
LEMMA GateForward ==
    ASSUME IInv, NEW op \in Op, NEW missed, LineageAllows(op, missed),
           op.old # None => op.old \in seen[op.name]
    PROVE  Forward(op)
<1>1. op.old # None => head[Server][op.name] # None
    BY Zenon DEF IInv, HeadsSeen, Op
<1>2. Reached(Server, op.new) \subseteq Closure[op.new]
    BY ReachedInClosure, Zenon DEF Op
<1> QED BY <1>1, <1>2, Zenon DEF LineageAllows, FastForward, Forward

\* A push plans with the heads it last saw.
LEMMA OpsInformed ==
    ASSUME IInv, NEW c \in Client, ses[c] \in Session, NEW op \in Ops(c)
    PROVE  op \in Op /\ (op.old # None => op.old \in seen[op.name])
<1>1. op \in Op /\ op.old = tracking[c][op.name]
    BY OpsType, Zenon DEF IInv
<1> QED BY <1>1, Zenon DEF IInv, TrackingSeen, Op

\* The steps that give a session its operations.
LEMMA PlanGood ==
    ASSUME IInv, NEW c \in Client, Plan(c)
    PROVE  Good(c)'
<1>1. ses[c] \in Session /\ Good(c) /\ TypeOK /\ ses[c].pc = "plan" /\ ses[c].via # "local"
    BY Running, Zenon DEF Plan, At, IInv, SessionsGood, Good
<1>2. \E have : ses' = [ses EXCEPT ![c].ops = Ops(c), ![c].pc = "receive",
                          ![c].pack = MissingClosure(c, {op.new : op \in Ops(c)}, have)]
    BY Zenon DEF Plan
<1>3. /\ ses'[c].verb = ses[c].verb /\ ses'[c].via = ses[c].via /\ ses'[c].owner = ses[c].owner
      /\ ses'[c].adverts = ses[c].adverts /\ ses'[c].ok = {}
      /\ ses'[c].ops = Ops(c) /\ ses'[c].pc = "receive" /\ seen' = seen
    BY <1>1, <1>2, Zenon DEF TypeOK, Session, Good, Confirmable, Plan
<1>4. Informed(c)'
  <2>1. \A op \in Ops(c) : op.old # None => op.old \in seen[op.name]
    BY <1>1, OpsInformed, Zenon
  <2> QED BY <1>1, <1>3, <2>1, Zenon DEF Good, Informed
<1>5. Confirmable(c)'
    BY <1>3, Zenon DEF Confirmable
<1>6. Sound(c)'
    BY <1>1, <1>3, Zenon DEF Good, Sound, Checked
<1> QED BY <1>4, <1>5, <1>6, Zenon DEF Good

\* The plan of an in-process push is sound: it was gated when it was made.
LEMMA PlanLocalGood ==
    ASSUME IInv, NEW c \in Client, PlanLocal(c)
    PROVE  ses'[c] = Idle \/ Good(c)'
<1>1. ses[c] \in Session /\ Good(c) /\ TypeOK /\ ses[c].pc = "plan" /\ ses[c].via = "local"
    BY Running, Zenon DEF PlanLocal, At, IInv, SessionsGood, Good
<1>2. CASE Ends(c)
    BY <1>1, <1>2, Zenon DEF Ends, TypeOK
<1>3. CASE ~Ends(c)
  <2>1. PICK missed, plan \in SUBSET Ops(c) :
          /\ \A op \in plan : /\ op.name \notin Reserved /\ op.name \in Writes(c)
                              /\ LineageAllows(op, missed)
          /\ ses' = [ses EXCEPT ![c].ops = plan, ![c].pc = "land",
                        ![c].pack = MissingClosure(c, {op.new : op \in plan}, store[Server])]
    BY <1>3, PlanLocalForm, Zenon
  <2>2. /\ ses'[c].verb = ses[c].verb /\ ses'[c].via = ses[c].via /\ ses'[c].owner = ses[c].owner
        /\ ses'[c].adverts = ses[c].adverts /\ ses'[c].ok = {}
        /\ ses'[c].ops = plan /\ ses'[c].pc = "land" /\ seen' = seen /\ free' = free
    BY <1>1, <2>1, Zenon DEF TypeOK, Session, Good, Confirmable, PlanLocal
  <2>3. \A op \in plan : op \in Op /\ (op.old # None => op.old \in seen[op.name])
    BY <1>1, <2>1, OpsInformed, Zenon
  <2>4. \A op \in plan : Forward(op)
    BY <2>1, <2>3, GateForward, Zenon
  <2>5. Informed(c)'
    BY <1>1, <2>2, <2>3, Zenon DEF Good, Informed
  <2>6. Confirmable(c)'
    BY <2>2, Zenon DEF Confirmable
  <2>7. Sound(c)'
    BY <1>1, <2>1, <2>2, <2>4, Zenon DEF Sound, Checked, Forward, Writes
  <2> QED BY <2>5, <2>6, <2>7, Zenon DEF Good
<1> QED BY <1>2, <1>3, Zenon

\* The gate accepts only what may be moved as the transaction will move it.
LEMMA GateGood ==
    ASSUME IInv, NEW c \in Client, Gate(c)
    PROVE  ses'[c] = Idle \/ Good(c)'
<1>1. /\ ses[c] \in Session /\ Good(c) /\ TypeOK
      /\ ses[c].pc = "land" /\ ses[c].verb = "push"
    BY Running, Zenon DEF Gate, At, IInv, SessionsGood, Good
<1>2. CASE Ends(c)
    BY <1>1, <1>2, Zenon DEF Ends, TypeOK
<1>3. CASE ~Ends(c)
  <2>1. PICK missed, accepted \in SUBSET ses[c].ops :
          /\ ses[c].via # "local" => \A op \in accepted : Admits(c, op, missed)
          /\ ses' = [ses EXCEPT ![c].ok = accepted, ![c].pc = AfterGate(accepted)]
    BY <1>3, GateForm, Zenon
  <2>2. /\ ses'[c].verb = ses[c].verb /\ ses'[c].via = ses[c].via /\ ses'[c].owner = ses[c].owner
        /\ ses'[c].adverts = ses[c].adverts /\ ses'[c].ok = accepted /\ ses'[c].ops = ses[c].ops
        /\ ses'[c].pc = AfterGate(accepted) /\ seen' = seen /\ free' = free /\ store' = store
    BY <1>1, <2>1, Zenon DEF TypeOK, Session, Gate
  <2>3. \A op \in accepted : op \in Op /\ (op.old # None => op.old \in seen[op.name])
    BY <1>1, <2>1, Zenon DEF Session, Good, Informed
  <2>4. ASSUME NEW op \in accepted
        PROVE  Forward(op) /\ op.name \notin Reserved /\ op.name \in Writes(c)
    <3>1. CASE ses[c].via = "local"
        BY <1>1, <2>1, <3>1, Zenon DEF Good, Sound, Checked
    <3>2. CASE ses[c].via # "local"
      <4>1. LineageAllows(op, missed)
        BY <2>1, <3>2, Zenon DEF Admits
      <4> QED BY <2>1, <2>3, <3>2, <4>1, GateForward, Zenon DEF Admits
    <3> QED BY <3>1, <3>2, Zenon
  <2>5. ses[c].via # "local" => \A op \in accepted : Complete(op.new)
    BY <2>1, Zenon DEF Admits, ClosurePresent, Complete
  <2>6. Informed(c)'
    BY <1>1, <2>2, Zenon DEF Good, Informed
  <2>7. Confirmable(c)'
    BY <2>2, Zenon DEF Confirmable, AfterGate
  <2>8. Sound(c)'
    <3>1. Writes(c)' = Writes(c)
        BY <2>2, Zenon DEF Writes
    <3>2. \A op \in Checked(c)' : op \in accepted \/ (ses[c].via = "local" /\ op \in ses[c].ops)
        BY <2>2, Zenon DEF Checked
    <3>3. \A op \in Checked(c)' : Forward(op) /\ op.name \notin Reserved /\ op.name \in Writes(c)
        BY <1>1, <2>4, <3>2, Zenon DEF Good, Sound, Checked
    <3>4. \A op : Forward(op)' = Forward(op) /\ Complete(op.new)' = Complete(op.new)
        BY <2>2, Zenon DEF Forward, Complete
    <3> QED BY <1>1, <2>2, <2>5, <3>1, <3>3, <3>4, Zenon DEF Good, Sound
  <2> QED BY <2>6, <2>7, <2>8, Zenon DEF Good
<1> QED BY <1>2, <1>3, Zenon

-----------------------------------------------------------------------------
(* The transaction of a push *)

\* What a transaction that swaps does to a name it moves.
Moving(c, n) ==
    /\ Chosen(ses[c].ok, n) \in ses[c].ok /\ Chosen(ses[c].ok, n).name = n
    /\ head'[Server][n] = Chosen(ses[c].ok, n).new
    /\ seen'[n] = seen[n] \cup {Chosen(ses[c].ok, n).new}
    /\ <<ses[c].via, n, Chosen(ses[c].ok, n).new>> \in moved'[c]

\* A transaction moves a name to the head an accepted operation brings, or not at all.
LEMMA CommitMoves ==
    ASSUME TypeOK, NEW c \in Client, Commit(c), NEW n \in Name
    PROVE  \/ Moving(c, n) /\ \A op \in ses[c].ok : Swaps(op)
           \/ head'[Server][n] = head[Server][n] /\ seen'[n] = seen[n]
<1>1. CASE \E op \in ses[c].ok : op.name = n
  <2>1. Chosen(ses[c].ok, n) \in ses[c].ok /\ Chosen(ses[c].ok, n).name = n
    BY <1>1, ChosenOne, Zenon
  <2> QED BY <1>1, <2>1, CommitForm, Zenon DEF Moving
<1> QED BY <1>1, CommitForm, Zenon

\* A transaction leaves heads that are complete, fenced and recorded.
LEMMA CommitHeads ==
    ASSUME IInv, TypeOK', Grows, NEW c \in Client, Commit(c)
    PROVE  HeadsSeen' /\ HeadsComplete' /\ Fenced'
<1>1. /\ ses[c] \in Session /\ Good(c) /\ TypeOK
      /\ ses[c].pc = "commit" /\ ses[c].verb = "push"
    BY Running, Zenon DEF Commit, At, IInv, SessionsGood, Good
<1>2. /\ \A op \in ses[c].ok : op \in Op /\ op \in Checked(c)
      /\ ses[c].via \in Transport
    BY <1>1, Zenon DEF Session, Checked
<1>3. \A d \in Client : moved[d] \subseteq moved'[d]
  <2> DEFINE more == {<<ses[c].via, n, Chosen(ses[c].ok, n).new>> :
                        n \in {op.name : op \in ses[c].ok}}
  <2>1. moved' = moved \/ moved' = [moved EXCEPT ![c] = @ \cup more]
    BY <1>1, CommitForm, Zenon
  <2> HIDE DEF more
  <2> QED BY <1>1, <2>1, Zenon DEF TypeOK
<1>4. HeadsSeen'
  <2> SUFFICES ASSUME NEW n \in Name
               PROVE  /\ head'[Server][n] # None => head'[Server][n] \in seen'[n]
                      /\ seen'[n] # {} => head'[Server][n] # None
    BY Zenon DEF HeadsSeen
  <2>1. CASE Moving(c, n)
    <3>1. head'[Server][n] \in Snapshot /\ head'[Server][n] \in seen'[n]
        BY <1>2, <2>1, Zenon DEF Moving, Op
    <3> QED BY <3>1, SyncAssumption, SMTT(30)
  <2> QED BY <1>1, <2>1, CommitMoves, Zenon DEF IInv, HeadsSeen
<1>5. HeadsComplete'
  <2> SUFFICES ASSUME NEW n \in Name, NEW s \in seen'[n]
               PROVE  Unchecked(s)' \/ Complete(s)'
    BY Zenon DEF HeadsComplete
  <2>1. CASE s \in seen[n]
    BY <1>3, <2>1, Zenon DEF IInv, HeadsComplete, Unchecked, Complete, Grows
  <2>2. CASE s \notin seen[n]
    <3>1. Moving(c, n) /\ s = Chosen(ses[c].ok, n).new
        BY <1>1, <2>2, CommitMoves, Zenon DEF Moving
    <3>2. CASE ses[c].via = "local"
      <4>1. s \in Object
        BY <1>2, <3>1, SyncAssumption, Zenon DEF Moving, Op
      <4>2. s \in Closure[s]
        BY <4>1, ClosureStep, Zenon
      <4>3. <<"local", n, s>> \in moved'[c]
        BY <3>1, <3>2, Zenon DEF Moving
      <4> QED BY <4>2, <4>3, Zenon DEF Unchecked
    <3>3. CASE ses[c].via # "local"
        BY <1>1, <3>1, <3>3, Zenon DEF Good, Sound, Moving, Complete, Grows
    <3> QED BY <3>2, <3>3, Zenon
  <2> QED BY <2>1, <2>2, Zenon
<1>6. Fenced'
  <2> SUFFICES ASSUME NEW d \in Client, NEW m \in moved'[d]
               PROVE  /\ m[2] \notin Reserved
                      /\ IF m[1] = "hub" THEN Namespace[m[2]] = d ELSE m[2] \in Writable[d][m[1]]
    BY Zenon DEF Fenced
  <2>1. CASE m \in moved[d]
    BY <2>1, Zenon DEF IInv, Fenced
  <2>2. CASE m \notin moved[d]
    <3> DEFINE more == {<<ses[c].via, n, Chosen(ses[c].ok, n).new>> :
                          n \in {op.name : op \in ses[c].ok}}
    <3>1. moved' = moved \/ moved' = [moved EXCEPT ![c] = @ \cup more]
        BY <1>1, CommitForm, Zenon
    <3>2. d = c /\ m \in more
      <4> HIDE DEF more
      <4> QED BY <1>1, <2>2, <3>1, Zenon DEF TypeOK
    <3>3. PICK op \in ses[c].ok : m = <<ses[c].via, op.name, Chosen(ses[c].ok, op.name).new>>
        BY <3>2, Zenon
    <3>4. op.name \notin Reserved /\ op.name \in Writes(c)
        BY <1>1, <1>2, Zenon DEF Good, Sound
    <3>5. ses[c].via = "hub" => ses[c].owner = c
        BY <1>1, Zenon DEF Good, Sound
    <3> QED BY <3>2, <3>3, <3>4, <3>5, Zenon DEF Writes, OwnNames
  <2> QED BY <2>1, <2>2, Zenon
<1> QED BY <1>4, <1>5, <1>6, Zenon

\* After its transaction a push confirms only what it moved.
LEMMA CommitGood ==
    ASSUME IInv, Grows, NEW c \in Client, Commit(c)
    PROVE  Good(c)'
<1>1. /\ ses[c] \in Session /\ Good(c) /\ TypeOK
      /\ ses[c].pc = "commit" /\ ses[c].verb = "push"
    BY Running, Zenon DEF Commit, At, IInv, SessionsGood, Good
<1>2. /\ ses[c].ops \subseteq Op /\ ses[c].ok \subseteq Op
      /\ \A n \in DOMAIN ses[c].adverts : n \in Name
    BY <1>1, Zenon DEF Session
<1>3. /\ ses'[c].verb = ses[c].verb /\ ses'[c].via = ses[c].via /\ ses'[c].owner = ses[c].owner
      /\ ses'[c].adverts = ses[c].adverts /\ ses'[c].ops = ses[c].ops /\ ses'[c].pc = "reply"
      /\ \/ ses'[c].ok = {}
         \/ /\ ses'[c].ok = ses[c].ok
            /\ \A n \in Name : (\E op \in ses[c].ok : op.name = n) =>
                 Chosen(ses[c].ok, n).new \in seen'[n]
  <2>1. CASE ses' = [ses EXCEPT ![c].ok = {}, ![c].pc = "reply"]
    BY <1>1, <2>1, Zenon DEF TypeOK, Session
  <2>2. CASE /\ ses' = [ses EXCEPT ![c].pc = "reply"]
             /\ \A n \in Name : (\E op \in ses[c].ok : op.name = n) =>
                  Chosen(ses[c].ok, n).new \in seen'[n]
    BY <1>1, <2>2, Zenon DEF TypeOK, Session
  <2>3. \/ ses' = [ses EXCEPT ![c].ok = {}, ![c].pc = "reply"]
        \/ /\ ses' = [ses EXCEPT ![c].pc = "reply"]
           /\ \A n \in Name : (\E op \in ses[c].ok : op.name = n) =>
                Chosen(ses[c].ok, n).new \in seen'[n]
    <3>1. CASE ses' = [ses EXCEPT ![c].ok = {}, ![c].pc = "reply"]
        BY <3>1, Zenon
    <3>2. CASE /\ ses' = [ses EXCEPT ![c].pc = "reply"]
               /\ \A n \in Name : \/ seen'[n] = seen[n] \cup {Chosen(ses[c].ok, n).new}
                                  \/ \A op \in ses[c].ok : op.name # n
        BY <3>2, Zenon
    <3> QED BY <1>1, <3>1, <3>2, CommitForm, Zenon
  <2> QED BY <2>1, <2>2, <2>3, Zenon
<1>4. Informed(c)'
  <2>1. \A n \in DOMAIN ses[c].adverts : ses[c].adverts[n] \in seen'[n]
    BY <1>1, <1>2, Zenon DEF Good, Informed, Grows
  <2>2. \A op \in ses[c].ops : op.name \in Name
    BY <1>2, Zenon DEF Op
  <2>3. \A op \in ses[c].ops : op.old # None => op.old \in seen'[op.name]
    BY <1>1, <2>2, Zenon DEF Good, Informed, Grows
  <2> QED BY <1>3, <2>1, <2>3, Zenon DEF Informed
<1>5. Confirmable(c)'
  <2>1. \A op \in ses'[c].ok : Chosen(ses'[c].ok, op.name).new \in seen'[op.name]
    <3>1. \A op \in ses[c].ok : op.name \in Name
        BY <1>2, Zenon DEF Op
    <3> QED BY <1>3, <3>1, Zenon
  <2> QED BY <1>1, <1>3, <2>1, Zenon DEF Good, Confirmable, Chosen
<1>6. Sound(c)'
  <2>1. Writes(c)' = Writes(c) /\ Checked(c)' \subseteq Checked(c)
    BY <1>3, Zenon DEF Writes, Checked
  <2>2. \A op \in Checked(c) : Forward(op)'
    BY <1>1, Zenon DEF Good, Sound, Forward, Grows
  <2>3. ses[c].via # "local" => \A op \in ses[c].ok : Complete(op.new)'
    BY <1>1, Zenon DEF Good, Sound, Complete, Grows
  <2> QED BY <1>1, <1>3, <2>1, <2>2, <2>3, Zenon DEF Good, Sound
<1> QED BY <1>4, <1>5, <1>6, Zenon DEF Good

-----------------------------------------------------------------------------
(* Commits on the server, and what clients learn *)

\* A snapshot committed on the server is complete: its own objects are stored
\* with it, and its parents are heads that the server has had.
LEMMA SnapshotHeads ==
    ASSUME IInv, Grows, NEW r \in Repo, NEW n \in Name, NEW s \in Snapshot, CommitSnapshot(r, n, s)
    PROVE  HeadsSeen' /\ HeadsComplete' /\ Fenced'
<1>1. TypeOK /\ moved' = moved
    BY Zenon DEF IInv, CommitSnapshot
<1>2. CASE r # Server
  <2>1. seen' = seen /\ \A m \in Name : head'[Server][m] = head[Server][m]
    BY <1>1, <1>2, Zenon DEF CommitSnapshot, TypeOK, Repo
  <2> QED BY <1>1, <2>1, HeadsStay, Zenon
<1>3. CASE r = Server
  <2>1. /\ \A m \in Name : seen'[m] = IF m = n THEN seen[m] \cup {s} ELSE seen[m]
        /\ \A m \in Name : head'[Server][m] = IF m = n THEN s ELSE head[Server][m]
        /\ store'[Server] = store[Server] \cup Own(s)
    BY <1>1, <1>3, Zenon DEF CommitSnapshot, TypeOK, Repo
  <2>2. HeadsSeen'
    <3> SUFFICES ASSUME NEW m \in Name
                 PROVE  /\ head'[Server][m] # None => head'[Server][m] \in seen'[m]
                        /\ seen'[m] # {} => head'[Server][m] # None
        BY Zenon DEF HeadsSeen
    <3>1. s # None
        BY Kinds, Zenon
    <3> QED BY <2>1, <3>1, Zenon DEF IInv, HeadsSeen
  <2>3. \A e \in Parents(s) : \E m \in Name : e \in seen[m]
    BY <1>3, Zenon DEF CommitSnapshot, Mergeable
  <2>4. Unchecked(s)' \/ Complete(s)'
    <3>1. s \in Object
        BY SyncAssumption, Zenon
    <3>2. Closure[s] = {s} \cup UNION {Closure[e] : e \in Edges[s]}
        BY <3>1, ClosureStep, Zenon
    <3>3. CASE \E e \in Parents(s) : Unchecked(e)
        BY <1>1, <3>2, <3>3, Zenon DEF Unchecked, Parents
    <3>4. CASE \A e \in Parents(s) : ~Unchecked(e)
      <4>1. \A e \in Parents(s) : Closure[e] \subseteq store[Server]
        BY <2>3, <3>4, Zenon DEF IInv, HeadsComplete, Complete
      <4>2. \A e \in Edges[s] : Closure[e] \subseteq store'[Server]
        BY <2>1, <4>1, Zenon DEF Own, Parents
      <4>3. s \in store'[Server]
        BY <2>1, Zenon DEF Own
      <4> QED BY <3>2, <4>2, <4>3, Zenon DEF Complete
    <3> QED BY <3>3, <3>4, Zenon
  <2>5. HeadsComplete'
    <3> SUFFICES ASSUME NEW m \in Name, NEW x \in seen'[m] PROVE Unchecked(x)' \/ Complete(x)'
        BY Zenon DEF HeadsComplete
    <3>1. CASE x \in seen[m]
        BY <1>1, <3>1, Zenon DEF IInv, HeadsComplete, Unchecked, Complete, Grows
    <3> QED BY <2>1, <2>4, <3>1, Zenon
  <2>6. Fenced'
    BY <1>1, Zenon DEF IInv, Fenced
  <2> QED BY <2>2, <2>5, <2>6, Zenon
<1> QED BY <1>2, <1>3, Zenon

\* A tracking ref follows an advert, or an operation that was applied.
LEMMA Tracks ==
    ASSUME IInv, Grows, NEW c \in Client, Fetched(c) \/ Reply(c)
    PROVE  TrackingSeen'
<1>1. ses[c] \in Session /\ Good(c) /\ TypeOK
    BY Running, Zenon DEF Fetched, Reply, At, IInv, SessionsGood, Good
<1>2. ASSUME NEW d \in Client \ {c} PROVE tracking'[d] = tracking[d]
    BY <1>1, Zenon DEF Fetched, Reply, TypeOK
<1>3. ASSUME NEW n \in Name, tracking'[c][n] # None PROVE tracking'[c][n] \in seen[n]
  <2>1. CASE Fetched(c)
    <3>1. tracking'[c][n] = IF n \in DOMAIN ses[c].adverts THEN ses[c].adverts[n] ELSE tracking[c][n]
        BY <1>1, <2>1, Zenon DEF Fetched, TypeOK
    <3> QED BY <1>1, <1>3, <3>1, Zenon DEF Good, Informed, IInv, TrackingSeen
  <2>2. CASE Reply(c)
    <3>1. tracking'[c][n] = IF \E op \in ses[c].ok : op.name = n
                            THEN Chosen(ses[c].ok, n).new ELSE tracking[c][n]
        BY <1>1, <2>2, Zenon DEF Reply, Applied, Chosen, TypeOK
    <3>2. ses[c].pc = "reply"
        BY <2>2, Zenon DEF Reply, At
    <3>3. CASE \E op \in ses[c].ok : op.name = n
      <4>1. PICK op \in ses[c].ok : op.name = n
        BY <3>3, Zenon
      <4>2. Chosen(ses[c].ok, op.name).new \in seen[op.name]
        BY <1>1, <3>2, <4>1, Zenon DEF Good, Confirmable, Chosen
      <4> QED BY <3>1, <3>3, <4>1, <4>2, Zenon
    <3> QED BY <1>3, <3>1, <3>3, Zenon DEF IInv, TrackingSeen
  <2> QED BY <2>1, <2>2, Zenon
<1>4. \A d \in Client, n \in Name : tracking'[d][n] # None => tracking'[d][n] \in seen[n]
    BY <1>2, <1>3, Zenon DEF IInv, TrackingSeen
<1> QED BY <1>4, Zenon DEF TrackingSeen, Grows

\* A clone and a merge by hand move no timeline of the server.
LEMMA ClientHeads ==
    ASSUME TypeOK, NEW c \in Client, Mirror(c) \/ \E n \in Name : Adopt(c, n)
    PROVE  \A n \in Name : head'[Server][n] = head[Server][n]
<1>1. head \in [Repo -> [Name -> Snapshot \cup {None}]] /\ Server \in Repo /\ Server # c /\ c \in Repo
    BY Kinds, Zenon DEF TypeOK
<1>2. CASE Mirror(c)
    BY <1>1, <1>2, Zenon DEF Mirror
<1>3. CASE \E n \in Name : Adopt(c, n)
    BY <1>1, <1>3, Zenon DEF Adopt
<1> QED BY <1>2, <1>3, Zenon

-----------------------------------------------------------------------------
(* The steps of a session *)

\* A session begins with nothing planned and nothing heard.
LEMMA BeginGood ==
    ASSUME IInv, NEW c \in Client, Begins(c)
    PROVE  Good(c)'
<1>1. TypeOK
    BY Zenon DEF IInv
<1>2. /\ ses'[c].ops = {} /\ ses'[c].ok = {} /\ ses'[c].adverts = <<>>
      /\ ses'[c].verb = "push" /\ ses'[c].via = "hub" => ses'[c].pc = "prove"
  <2>1. PICK verb \in {"fetch", "push", "clone"}, via \in Transport, names \in SUBSET Name,
             owner \in Client \cup {None} : Begin(c, verb, via, names, owner)
    BY Zenon DEF Begins
  <2>2. /\ ses'[c].verb = verb /\ ses'[c].via = via
        /\ ses'[c].ops = {} /\ ses'[c].ok = {} /\ ses'[c].adverts = <<>>
    BY <1>1, <2>1, Zenon DEF Begin, TypeOK
  <2>3. verb = "push" /\ via = "hub" => ses'[c].pc = "prove"
    BY <1>1, <2>1, Zenon DEF Begin, TypeOK
  <2> QED BY <2>2, <2>3, Zenon
<1>3. DOMAIN ses'[c].adverts = {}
    BY <1>2
<1> QED BY <1>2, <1>3, Zenon DEF Good, Informed, Confirmable, Sound, Checked

\* The steps that hear of heads, move objects or end the session.
LEMMA PlainGood ==
    ASSUME IInv, Grows, NEW c \in Client,
           \/ Advertise(c) \/ ServeHttp(c) \/ Want(c) \/ Pack(c) \/ Fetched(c) \/ Prove(c)
           \/ Receive(c) \/ Mirror(c) \/ Reply(c) \/ Identity(c) \/ Break(c)
           \/ \E o \in Object : Land(c, o)
    PROVE  ses'[c] = Idle \/ Good(c)'
<1>1. TypeOK
    BY Zenon DEF IInv
<1>2. ses[c] \in Session /\ Good(c)
  <2>1. ses[c].pc # "idle"
    BY Zenon
       DEF Advertise, ServeHttp, Want, Pack, Fetched, Prove, Receive, Mirror, Reply, Identity, Break,
           Land, At
  <2> QED BY <1>1, <2>1, Running, Zenon DEF IInv, SessionsGood, Good
<1>3. \A n \in DOMAIN ses[c].adverts : n \in Name /\ ses[c].adverts[n] \in seen[n]
    BY <1>2, Zenon DEF Session, Good, Informed
<1>4. ses[c].pc \notin {"commit", "reply", "identity"} => ses[c].ok = {}
    BY <1>2, Zenon DEF Good, Confirmable
<1>5. /\ \A n \in DOMAIN Adverts(c) : n \in Name /\ Adverts(c)[n] \in seen[n]
    BY Zenon DEF Adverts, Served, IInv, HeadsSeen
<1>6. CASE Advertise(c)
    BY <1>1, <1>2, <1>4, <1>5, <1>6, Carry, Zenon DEF Advertise, At, TypeOK, Session
<1>7. CASE ServeHttp(c)
  <2>1. CASE ses[c].verb = "fetch"
    BY <1>1, <1>2, <1>4, <1>5, <1>7, <2>1, Carry, SMTT(30) DEF ServeHttp, TypeOK, Session
  <2>2. CASE ses[c].verb # "fetch"
    <3>1. ses' = [ses EXCEPT ![c].pc = AfterReceive(c)]
      BY <1>7, <2>2, Zenon DEF ServeHttp, Goes
    <3>2. ses[c].ok = {} /\ ses[c].pc # "prove"
      BY <1>4, <1>7, Zenon DEF ServeHttp
    <3>3. /\ ses'[c].verb = ses[c].verb /\ ses'[c].via = ses[c].via
          /\ ses'[c].owner = ses[c].owner /\ ses'[c].ops = ses[c].ops
          /\ ses'[c].ok = ses[c].ok /\ ses'[c].adverts = ses[c].adverts
      BY <1>1, <1>2, <3>1 DEF TypeOK, Session
    <3> QED BY <1>1, <1>2, <1>3, <3>2, <3>3, Carry, Zenon
  <2> QED BY <2>1, <2>2, Zenon
<1>8. CASE Want(c)
  <2>1. CASE Ends(c)
    BY <1>1, <2>1, Zenon DEF Ends, TypeOK
  <2>2. CASE ~Ends(c)
    <3>1. PICK names \in SUBSET DOMAIN ses[c].adverts :
             ses' = [ses EXCEPT ![c].adverts = [n \in names |-> ses[c].adverts[n]],
                                ![c].have = store[c], ![c].pc = "pack"]
        BY <1>8, <2>2, Zenon DEF Want
    <3> QED BY <1>1, <1>2, <1>3, <1>4, <1>8, <3>1, Carry, Zenon DEF Want, At, TypeOK, Session
  <2> QED BY <2>1, <2>2, Zenon
<1>9. CASE Pack(c)
    BY <1>1, <1>2, <1>3, <1>4, <1>9, Carry, Zenon DEF Pack, At, TypeOK, Session
<1>10. CASE Fetched(c)
  <2>1. CASE Ends(c)
    BY <1>1, <2>1, Zenon DEF Ends, TypeOK
  <2>2. CASE ~Ends(c)
    <3>1. ses' = [ses EXCEPT ![c].pc = "commit"]
        BY <1>10, <2>2, Zenon DEF Fetched, Goes
    <3>2. ses[c].pc = "land"
        BY <1>10, Zenon DEF Fetched, At
    <3> QED BY <1>1, <1>2, <1>3, <1>4, <3>1, <3>2, Carry, Zenon DEF TypeOK, Session
  <2> QED BY <2>1, <2>2, Zenon
<1>11. CASE Prove(c)
  <2>1. CASE Ends(c)
    BY <1>1, <2>1, Zenon DEF Ends, TypeOK
  <2>2. CASE ~Ends(c)
    <3>1. ses' = [ses EXCEPT ![c].pc = "advertise"] /\ ses[c].owner = c
        BY <1>11, <2>2, Zenon DEF Prove, VerifyProof, Goes
    <3>2. ses[c].pc = "prove"
        BY <1>11, Zenon DEF Prove, At
    <3> QED BY <1>1, <1>2, <1>3, <1>4, <3>1, <3>2, Carry, Zenon DEF TypeOK, Session
  <2> QED BY <2>1, <2>2, Zenon
<1>12. CASE Receive(c)
    BY <1>1, <1>2, <1>3, <1>4, <1>12, Carry, Zenon DEF Receive, At, Goes, TypeOK, Session
<1>13. CASE Mirror(c) \/ Identity(c) \/ Break(c)
    BY <1>1, <1>13, Zenon DEF Mirror, Identity, Break, Ends, TypeOK
<1>14. CASE Reply(c)
  <2>1. CASE Ends(c)
    BY <1>1, <2>1, Zenon DEF Ends, TypeOK
  <2>2. CASE ~Ends(c)
    <3>1. ses' = [ses EXCEPT ![c].pc = "identity"]
        BY <1>14, <2>2, Zenon DEF Reply, Goes
    <3>2. ses[c].pc = "reply"
        BY <1>14, Zenon DEF Reply, At
    <3> QED BY <1>1, <1>2, <1>3, <3>1, <3>2, Carry, Zenon DEF TypeOK, Session
  <2> QED BY <2>1, <2>2, Zenon
<1>15. ASSUME NEW o \in Object, Land(c, o) PROVE Good(c)'
    BY <1>1, <1>2, <1>3, <1>4, <1>15, Carry, Zenon DEF Land, At, TypeOK, Session
<1> QED BY <1>6, <1>7, <1>8, <1>9, <1>10, <1>11, <1>12, <1>13, <1>14, <1>15, Zenon

-----------------------------------------------------------------------------
(* The invariant *)

\* The invariant holds in the starts of the instance.
LEMMA InitInv == Init => IInv
<1> SUFFICES ASSUME Init PROVE IInv
    BY Zenon
<1>1. PICK s \in Starts : store = s.store /\ head = s.head /\ tracking = s.tracking
    BY Zenon DEF Init
<1>2. /\ store \in [Repo -> SUBSET Object] /\ head \in [Repo -> [Name -> Snapshot \cup {None}]]
      /\ tracking \in [Client -> [Name -> Snapshot \cup {None}]]
      /\ \A n \in Name : head[Server][n] # None => Closure[head[Server][n]] \subseteq store[Server]
      /\ \A c \in Client, n \in Name : tracking[c][n] \in {None, head[Server][n]}
    BY <1>1, SyncAssumption, Zenon
<1>3. /\ \A n \in Name : seen[n] = {head[Server][n]} \ {None}
      /\ \A c \in Client : moved[c] = {} /\ ses[c] = Idle
    BY Zenon DEF Init
<1>4. TypeOK
  <2>1. free \subseteq Repo \X Name
    BY SMTT(30) DEF Init, Repo
  <2>2. seen \in [Name -> SUBSET Snapshot]
    <3>1. \A n \in Name : {head[Server][n]} \ {None} \in SUBSET Snapshot
        BY <1>2 DEF Repo
    <3> QED BY <3>1, Zenon DEF Init
  <2>3. /\ moved \in [Client -> SUBSET (Transport \X Name \X Snapshot)]
        /\ ses \in [Client -> Session \cup {Idle}] /\ landed \subseteq Client /\ strict \in BOOLEAN
    BY Zenon DEF Init
  <2> QED BY <1>2, <2>1, <2>2, <2>3, Zenon DEF TypeOK
<1>5. HeadsSeen /\ TrackingSeen
    BY <1>2, <1>3, SMTT(30) DEF HeadsSeen, TrackingSeen
<1>6. HeadsComplete
    BY <1>2, <1>3, SMTT(30) DEF HeadsComplete, Complete
<1>7. SessionsGood /\ Fenced
    BY <1>3, Zenon DEF SessionsGood, Fenced
<1> QED BY <1>4, <1>5, <1>6, <1>7, Zenon DEF IInv

\* Every step keeps what is known of the sessions.
LEMMA SessionsStep == IInv /\ [Next]_vars => SessionsGood'
<1> SUFFICES ASSUME IInv, [Next]_vars PROVE SessionsGood'
    BY Zenon
<1>1. TypeOK /\ Grows
    BY Growth, Zenon DEF IInv
<1>2. CASE ses' = ses
  <2> SUFFICES ASSUME NEW d \in Client, ses'[d] # Idle PROVE Good(d)'
    BY Zenon DEF SessionsGood, Good
  <2> QED BY <1>1, <1>2, Others, Zenon
<1>3. ASSUME NEW c \in Client, Begins(c) PROVE SessionsGood'
  <2>1. \A d \in Client \ {c} : ses'[d] = ses[d]
    BY <1>1, <1>3, Zenon DEF Begins, Begin, TypeOK
  <2> QED BY <1>1, <1>3, <2>1, BeginGood, OneSession, Zenon
<1>4. ASSUME NEW c \in Client, Step(c) \/ Break(c) PROVE SessionsGood'
  <2>1. \A d \in Client \ {c} : ses'[d] = ses[d]
    <3>1. CASE Want(c)
        BY <1>1, <3>1, Zenon DEF Want, Ends, TypeOK
    <3>2. CASE PlanLocal(c)
        BY <1>1, <3>2, Zenon DEF PlanLocal, Ends, TypeOK
    <3>3. CASE Gate(c)
        BY <1>1, <3>3, Zenon DEF Gate, Ends, TypeOK
    <3>4. CASE Commit(c)
      <4>1. \/ ses' = [ses EXCEPT ![c].pc = "reply"]
            \/ ses' = [ses EXCEPT ![c].ok = {}, ![c].pc = "reply"]
        BY <1>1, <3>4, CommitForm, Zenon
      <4> QED BY <1>1, <4>1, Zenon DEF TypeOK
    <3>5. CASE Plan(c)
        BY <1>1, <3>5, Zenon DEF Plan, TypeOK
    <3>6. CASE Advertise(c) \/ ServeHttp(c) \/ Pack(c) \/ \E o \in Object : Land(c, o)
        BY <1>1, <3>6, Zenon DEF Advertise, ServeHttp, Pack, Land, Goes, TypeOK
    <3>7. CASE Fetched(c) \/ Mirror(c) \/ Prove(c) \/ Receive(c)
        BY <1>1, <3>7, Zenon DEF Fetched, Mirror, Prove, Receive, Goes, Ends, TypeOK
    <3>8. CASE Reply(c) \/ Identity(c) \/ Break(c)
        BY <1>1, <3>8, Zenon DEF Reply, Identity, Break, Goes, Ends, TypeOK
    <3> QED BY <1>4, <3>1, <3>2, <3>3, <3>4, <3>5, <3>6, <3>7, <3>8, Zenon DEF Step
  <2>2. ses'[c] = Idle \/ Good(c)'
    <3>1. CASE Plan(c) \/ PlanLocal(c) \/ Gate(c) \/ Commit(c)
        BY <1>1, <3>1, PlanGood, PlanLocalGood, GateGood, CommitGood, Zenon
    <3> QED BY <1>1, <1>4, <3>1, PlainGood, Zenon DEF Step
  <2> QED BY <1>1, <2>1, <2>2, OneSession, Zenon
<1>5. ASSUME \/ \E c \in Client, n \in Name : Adopt(c, n)
             \/ \E r \in Repo, n \in Name, s \in Snapshot : CommitSnapshot(r, n, s)
             \/ PinPolicy \/ UNCHANGED vars
      PROVE  ses' = ses
    BY <1>5, Zenon DEF Adopt, CommitSnapshot, PinPolicy, vars
<1> QED BY <1>2, <1>3, <1>4, <1>5, Cases, Zenon

\* Every step keeps what is known of the heads and of the tracking refs.
LEMMA HeadsStep == IInv /\ [Next]_vars => HeadsSeen' /\ HeadsComplete' /\ Fenced' /\ TrackingSeen'
<1> SUFFICES ASSUME IInv, [Next]_vars PROVE HeadsSeen' /\ HeadsComplete' /\ Fenced' /\ TrackingSeen'
    BY Zenon
<1>1. TypeOK /\ Grows /\ TypeOK'
    BY Growth, TypeStep, Zenon DEF IInv
<1>2. ASSUME tracking' = tracking PROVE TrackingSeen'
    BY <1>1, <1>2, Zenon DEF IInv, TrackingSeen, Grows
<1>3. ASSUME NEW c \in Client, Commit(c) PROVE HeadsSeen' /\ HeadsComplete' /\ Fenced' /\ TrackingSeen'
    BY <1>1, <1>2, <1>3, CommitHeads, Zenon DEF Commit
<1>4. ASSUME NEW r \in Repo, NEW n \in Name, NEW s \in Snapshot, CommitSnapshot(r, n, s)
      PROVE  HeadsSeen' /\ HeadsComplete' /\ Fenced' /\ TrackingSeen'
    BY <1>1, <1>2, <1>4, SnapshotHeads, Zenon DEF CommitSnapshot
<1>5. ASSUME NEW c \in Client, Fetched(c) \/ Reply(c)
      PROVE  HeadsSeen' /\ HeadsComplete' /\ Fenced' /\ TrackingSeen'
    BY <1>1, <1>5, Tracks, HeadsStay, Zenon DEF Fetched, Reply
<1>6. ASSUME NEW c \in Client, Mirror(c) \/ \E n \in Name : Adopt(c, n)
      PROVE  HeadsSeen' /\ HeadsComplete' /\ Fenced' /\ TrackingSeen'
  <2>1. /\ seen' = seen /\ moved' = moved /\ tracking' = tracking
        /\ \A n \in Name : head'[Server][n] = head[Server][n]
    BY <1>1, <1>6, ClientHeads, Zenon DEF IInv, Mirror, Adopt
  <2> QED BY <1>1, <1>2, <2>1, HeadsStay, Zenon
<1>7. CASE UNCHANGED <<head, seen, moved, tracking>>
    BY <1>1, <1>2, <1>7, HeadsStay, Zenon
<1>8. ASSUME NEW c \in Client, Begins(c) \/ Step(c) \/ Break(c),
             ~Commit(c) /\ ~Fetched(c) /\ ~Reply(c) /\ ~Mirror(c)
      PROVE  UNCHANGED <<head, seen, moved, tracking>>
    BY <1>8, Zenon
       DEF Begins, Begin, Break, Step, Advertise, ServeHttp, Want, Pack, Prove, Plan, PlanLocal,
                Receive, Gate, Identity, Land
<1>9. ASSUME PinPolicy \/ UNCHANGED vars PROVE UNCHANGED <<head, seen, moved, tracking>>
    BY <1>9, Zenon DEF PinPolicy, vars
<1> QED BY <1>3, <1>4, <1>5, <1>6, <1>7, <1>8, <1>9, Cases, Zenon

\* Every step keeps the invariant.
LEMMA Inductive == IInv /\ [Next]_vars => IInv'
BY SessionsStep, HeadsStep, TypeStep, Zenon DEF IInv

\* The invariant holds in every reachable state.
THEOREM Invariance == Spec => []IInv
BY InitInv, Inductive, PTL DEF Spec

\* However sessions, commits and lost connections interleave, every head that
\* the server ever gave a timeline is complete in the server's store, unless an
\* in-process push, which checks nothing, brought it or something below it.
THEOREM PushedHeadsComplete == Spec => []HeadsComplete
<1>1. IInv => HeadsComplete
    BY Zenon DEF IInv
<1> QED BY <1>1, Invariance, PTL

\* A client's tracking ref is always a head that the server's timeline has had.
THEOREM TrackingIsTrue == Spec => []TrackingSeen
<1>1. IInv => TrackingSeen
    BY Zenon DEF IInv
<1> QED BY <1>1, Invariance, PTL

\* No push of any transport moves a reserved name, or one that its accessor may
\* not write; a push to a hub moves only names of the client who proved to own
\* the namespace.
THEOREM PushesFenced == Spec => []Fenced
<1>1. IInv => Fenced
    BY Zenon DEF IInv
<1> QED BY <1>1, Invariance, PTL

\* A transaction moves a fast-forward timeline only to a descendant: what the
\* gate compared is the head that the swap replaces.
LEMMA CommitForward ==
    ASSUME IInv, NEW c \in Client, Commit(c), NEW n \in Name,
           head[Server][n] # None, <<Server, n>> \notin free,
           \A o \in Object : o \in Closure[o]
    PROVE  head[Server][n] \in Closure[head'[Server][n]]
<1>1. /\ ses[c] \in Session /\ Good(c) /\ TypeOK /\ ses[c].verb = "push"
    BY Running, Zenon DEF Commit, At, IInv, SessionsGood, Good
<1>2. CASE Moving(c, n) /\ \A op \in ses[c].ok : Swaps(op)
  <2>1. PICK op \in ses[c].ok : op.name = n /\ head'[Server][n] = op.new
    BY <1>2, Zenon DEF Moving
  <2>2. Forward(op) /\ head[Server][n] = op.old
    BY <1>1, <1>2, <2>1, Zenon DEF Good, Sound, Checked, Swaps
  <2> QED BY <2>1, <2>2, Zenon DEF Forward
<1>3. CASE head'[Server][n] = head[Server][n]
  <2>1. head[Server][n] \in Object
    BY <1>1, Kinds, SMTT(30) DEF TypeOK
  <2> QED BY <1>3, <2>1, Zenon
<1> QED BY <1>1, <1>2, <1>3, CommitMoves, Zenon

\* No step of the system, whatever was gated before it and on what state, moves
\* a fast-forward timeline of the server to anything but a descendant.
THEOREM HeadsGoForward == Spec => LineageKept
<1> DEFINE Kept == \A n \in Name : head[Server][n] # None /\ <<Server, n>> \notin free =>
                     head[Server][n] \in Closure[head'[Server][n]]
<1>1. ASSUME IInv, [Next]_vars PROVE Kept
  <2>1. TypeOK /\ \A o \in Object : o \in Closure[o]
    BY <1>1, ClosureStep, Zenon DEF IInv
  <2>2. ASSUME NEW c \in Client, Commit(c) PROVE Kept
    BY <1>1, <2>1, <2>2, CommitForward, Zenon
  <2>3. ASSUME NEW r \in Repo, NEW m \in Name, NEW s \in Snapshot, CommitSnapshot(r, m, s) PROVE Kept
    <3> SUFFICES ASSUME NEW n \in Name, head[Server][n] # None
                 PROVE  head[Server][n] \in Closure[head'[Server][n]]
        BY Zenon
    <3>1. head[Server][n] \in Object /\ s \in Object
        BY <2>1, Kinds, SMTT(30) DEF TypeOK
    <3>2. CASE r = Server /\ m = n
      <4>1. head'[Server][n] = s /\ head[Server][n] \in Edges[s]
        BY <2>1, <2>3, <3>2, Zenon DEF CommitSnapshot, Parents, TypeOK, Repo
      <4>2. Closure[s] = {s} \cup UNION {Closure[e] : e \in Edges[s]}
        BY <3>1, ClosureStep, Zenon
      <4> QED BY <2>1, <3>1, <4>1, <4>2, Zenon
    <3>3. CASE ~(r = Server /\ m = n)
      <4>1. head'[Server][n] = head[Server][n]
        BY <2>1, <2>3, <3>3, Zenon DEF CommitSnapshot, TypeOK, Repo
      <4> QED BY <2>1, <3>1, <4>1, Zenon
    <3> QED BY <3>2, <3>3, Zenon
  <2>4. ASSUME \A n \in Name : head'[Server][n] = head[Server][n] PROVE Kept
    <3>1. \A n \in Name : head[Server][n] # None => head[Server][n] \in Object
        BY <2>1, Kinds, SMTT(30) DEF TypeOK
    <3> QED BY <2>1, <2>4, <3>1, Zenon
  <2>5. ASSUME NEW c \in Client, Mirror(c) \/ \E n \in Name : Adopt(c, n) PROVE Kept
    <3>1. \A n \in Name : head'[Server][n] = head[Server][n]
        BY <2>1, <2>5, ClientHeads, Zenon
    <3> QED BY <2>4, <3>1, Zenon
  <2>6. ASSUME NEW c \in Client, Begins(c) \/ Step(c) \/ Break(c), ~Commit(c) /\ ~Mirror(c)
        PROVE  head' = head
    BY <2>6, Zenon
       DEF Begins, Begin, Break, Step, Advertise, ServeHttp, Want, Pack, Prove, Plan, PlanLocal,
                Receive, Gate, Identity, Land, Fetched, Reply
  <2>7. ASSUME PinPolicy \/ UNCHANGED vars PROVE head' = head
    BY <2>7, Zenon DEF PinPolicy, vars
  <2> HIDE DEF Kept
  <2> QED BY <1>1, <2>2, <2>3, <2>4, <2>5, <2>6, <2>7, Cases, Zenon
<1>2. IInv /\ [Next]_vars => [Kept]_vars
    BY <1>1, Zenon
<1> QED BY <1>2, Invariance, PTL DEF Spec, LineageKept
=============================================================================
