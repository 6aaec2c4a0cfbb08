------------------------------- MODULE Collab -------------------------------
(***************************************************************************)
(* Nodes that publish signed collaboration objects, pull each other's over  *)
(* the anonymous read-only endpoint, search through relays, and serve hub   *)
(* views (src/src/repo/collab.rs, reporecord.rs, pr.rs, board.rs,           *)
(* src/src/sync/collab.rs, and the commands and endpoints over them).       *)
(*                                                                         *)
(* tags[n] maps the ref names of node n under refs/collab/, refs/proposals/ *)
(* and refs/board/ to the objects they pin; a name is a tuple of segments.  *)
(* Objects are content addressed, so a name is mapped to the content        *)
(* itself; that pinned objects stay readable is shown by PackStore.         *)
(* task[t] is a publication in progress in process ProcOf[t], pull[s] a     *)
(* pull.  signed is a history variable: everything the keys have signed.    *)
(***************************************************************************)
EXTENDS Discovery, SequencesExt

CONSTANTS
  Node, KeyOf, RelayMode,  \* RelayMode[n]: n serves with --relay
  Task, ProcOf, Session,
  Starts,                  \* the tags[n] of every node the run begins with
  WordsInput, EdgeInput,   \* per node: what profiles say, <<to, kind, petname>> of edges
  RepoInput, BoardInput,   \* per node: repositories to announce, boards written to
  PinInput,                \* per node: endpoints it pins relays at
  PullInput,               \* per node: the nodes it pulls from
  Answering,               \* Answering[endpoint]: the node that listens there
  Term, Hops,              \* the searches and hop bounds callers use
  Timelines,               \* served timelines of each node, for the bundle
  MaxSeq, MaxCalls

VARIABLES tags, task, pull, signed, calls
vars == <<tags, task, pull, signed, calls>>

Call == calls < MaxCalls /\ calls' = calls + 1
Idle == [pc |-> "idle"]

-----------------------------------------------------------------------------
(* Names.                                                                   *)
PublicName(o) ==
  CASE o.type = "profile" -> <<"public", "profile", o.from>>
    [] o.type = "edge" -> <<"public", "edge", o.from, o.kind, o.to>>
    [] o.type = "repo" -> <<"public", "repo", o.from, o.name>>
Tracking(o) ==
  IF o.type = "profile" THEN <<"remotes", o.from, "profile">>
  ELSE <<"remotes", o.from, "edge", o.kind, o.to>>
RelayName(key) == <<"relays", key>>

\* A public name is that of the object it pins, whoever signed it; what is
\* tracked verifies and is filed under its author.
Named(name, o) ==
  /\ name[1] = "public" =>
       o.type \in {"profile", "edge", "repo"} /\ name = PublicName(o) /\ o.seq \in Nat
  /\ name[1] = "remotes" => Verified(o) /\ name = Tracking(o)

ASSUME CollabAssumption ==
  /\ \A n \in Node : PullInput[n] \subseteq Node
  /\ \A st \in Starts :
       /\ st = [n \in Node |-> st[n]]
       /\ \A n \in Node : \A name \in DOMAIN st[n] : Named(name, st[n][name])

List(n, prefix) == {name \in DOMAIN tags[n] : IsPrefix(prefix, name)}
At(n, prefix) == {tags[n][name] : name \in List(n, prefix)}
GetTag(n, name, type) ==
  IF name \in DOMAIN tags[n] /\ tags[n][name].type = type THEN {tags[n][name]} ELSE {}

Pin(name, o) == [x \in {name} |-> o]
Put(n, pins) ==
  tags' = [tags EXCEPT ![n] =
             [name \in DOMAIN pins \cup DOMAIN @ |->
                IF name \in DOMAIN pins THEN pins[name] ELSE @[name]]]

-----------------------------------------------------------------------------
(* Publishing.  The command reads the current object to choose the next seq  *)
(* and signs; the library then takes the process's publish lock, refuses a   *)
(* seq that is not above the current one, and sets the name unconditionally. *)
Profile(n, k) == GetTag(n, <<"public", "profile", k>>, "profile")
NextSeq(current) == IF current = {} THEN 1 ELSE (CHOOSE o \in current : TRUE).seq + 1

Sign(t, n, o) ==
  /\ task[t] = Idle
  /\ Call
  /\ o.seq <= MaxSeq
  /\ signed' = signed \cup {o}
  /\ task' = [task EXCEPT ![t] = [pc |-> "signed", node |-> n, object |-> o]]
  /\ UNCHANGED <<tags, pull>>

ProfileSet(t, n, words) ==
  Sign(t, n, SignProfile(KeyOf[n], words, NextSeq(Profile(n, KeyOf[n]))))

PublicEdges(n) == Edges(At(n, <<"public", "edge">>))
NextSeqFor(n, to, kind) ==
  NextSeq({e \in PublicEdges(n) : e.from = KeyOf[n] /\ e.kind = kind /\ e.to = to})

TrustCmd(t, n, to, kind, petname) ==
  Sign(t, n, SignEdge(KeyOf[n], to, kind, petname, NextSeqFor(n, to, kind)))

GetRepo(n, owner, name) ==
  {r \in GetTag(n, <<"public", "repo", owner, name>>, "repo") : VerifyRepo(r)}

Announce(t, n, name) ==
  Sign(t, n, SignRepo(KeyOf[n], name, NextSeq(GetRepo(n, KeyOf[n], name))))

LockFree(t) == \A u \in Task : ProcOf[u] = ProcOf[t] => task[u].pc # "checked"
LockIgnored(t) == TRUE
TakesLock(t) == LockFree(t)

Verifies(o) ==
  CASE o.type = "profile" -> VerifyProfile(o)
    [] o.type = "edge" -> VerifyEdge(o)
    [] o.type = "repo" -> VerifyRepo(o)

PublishCheck(t, type) ==
  /\ task[t].pc = "signed"
  /\ task[t].object.type = type
  /\ TakesLock(t)
  /\ LET o == task[t].object
         refused == ~Verifies(o) \/ \E cur \in GetTag(task[t].node, PublicName(o), type) : o.seq <= cur.seq
     IN task' = [task EXCEPT ![t] = IF refused THEN Idle ELSE [@ EXCEPT !.pc = "checked"]]
  /\ UNCHANGED <<tags, pull, signed, calls>>

PublishProfile(t) == PublishCheck(t, "profile")
PublishEdge(t) == PublishCheck(t, "edge")
PublishRepo(t) == PublishCheck(t, "repo")

PublishCommit(t) ==
  /\ task[t].pc = "checked"
  /\ Put(task[t].node, Pin(PublicName(task[t].object), task[t].object))
  /\ task' = [task EXCEPT ![t] = Idle]
  /\ UNCHANGED <<pull, signed, calls>>

-----------------------------------------------------------------------------
(* Proposals, comments and posts are named by their content, so publishing   *)
(* one again changes nothing.                                                *)
Publish(n, name, o) ==
  /\ Call
  /\ Put(n, Pin(name, o))
  /\ signed' = signed \cup {o}
  /\ UNCHANGED <<task, pull>>

PublishProposal(n, p) == VerifyProposal(p) /\ Publish(n, <<"proposals", p>>, p)
PrCreate(n, source, target) == PublishProposal(n, SignProposal(KeyOf[n], source, target))

ListProposals(n) == {p \in At(n, <<"proposals">>) : VerifyProposal(p)}
GetProposal(n, p) == {p} \cap ListProposals(n)

(* A comment attaches to a proposal that is there.                           *)
AddComment(n, c) ==
  /\ VerifyComment(c)
  /\ GetProposal(n, c.proposal) # {}
  /\ Publish(n, <<"comments", c.proposal, c>>, c)
PrComment(n, p, resolves) == AddComment(n, SignComment(KeyOf[n], p, resolves))

ListComments(n, p) == {c \in At(n, <<"comments", p>>) : VerifyComment(c)}

PublishPost(n, p) == VerifyPost(p) /\ Publish(n, <<"board", p.board, p>>, p)
BoardPost(n, board) == PublishPost(n, SignPost(KeyOf[n], board, {}))

ListPosts(n, board) == {p \in At(n, <<"board", board>>) : VerifyPost(p)}
GetPost(n, p) == {p} \cap ListPosts(n, p.board)

(* A reply goes to its parent's board, and the parent must exist.            *)
BoardReply(n, parent) ==
  /\ GetPost(n, parent) # {}
  /\ PublishPost(n, SignPost(KeyOf[n], parent.board, {parent}))

-----------------------------------------------------------------------------
(* Relay pins: local, one endpoint per key, never advertised.                *)
AddRelay(n, key, endpoint) ==
  /\ Call
  /\ Put(n, Pin(RelayName(key), [type |-> "relay", key |-> key, endpoint |-> endpoint]))
  /\ UNCHANGED <<task, pull, signed>>

RemoveRelay(n, key) ==
  /\ Call
  /\ RelayName(key) \in DOMAIN tags[n]
  /\ tags' = [tags EXCEPT ![n] = [name \in DOMAIN @ \ {RelayName(key)} |-> @[name]]]
  /\ UNCHANGED <<task, pull, signed>>

Relays(n) == At(n, <<"relays">>)

-----------------------------------------------------------------------------
(* Serving.  A node advertises its public names and, of its cache, that of   *)
(* the authors its public edges follow; a relay advertises all of its cache. *)
CollabAdverts(n) ==
  List(n, <<"public">>)
    \cup (IF RelayMode[n] THEN List(n, <<"remotes">>)
          ELSE UNION {List(n, <<"remotes", e.to>>) : e \in {x \in PublicEdges(n) : x.kind = "follow"}})
Served(n) == {[name |-> name, object |-> tags[n][name]] : name \in CollabAdverts(n)}
Corpus(adverts) == {o \in {a.object : a \in adverts} : o.type \in {"profile", "edge"}}

(* Pulling.  The refs are those of the moment the server answers; when the   *)
(* objects have arrived, each one that verifies is filed under its author,   *)
(* whatever is filed there.  Own names come before cached ones in an         *)
(* advertisement, and the last of two objects for one name is kept.          *)
PullWelcome(s, n, m) ==
  /\ pull[s] = Idle
  /\ Call
  /\ pull' = [pull EXCEPT ![s] = [pc |-> "pack", node |-> n, adverts |-> Served(m)]]
  /\ UNCHANGED <<tags, task, signed>>

AllResolved(adverts) == {a \in adverts : a.object.type \in {"profile", "edge"}}
Resolved(adverts) == {a \in AllResolved(adverts) : Verified(a.object)}

Filed(adverts) ==
  LET names == {Tracking(a.object) : a \in adverts}
      cached == {a \in adverts : a.name[1] = "remotes"}
      For(set, name) == {a \in set : Tracking(a.object) = name}
  IN [name \in names |->
        LET last == IF For(cached, name) # {} THEN For(cached, name) ELSE For(adverts, name)
        IN (CHOOSE a \in last : TRUE).object]

PeerOf(adverts) ==
  {a.object.from : a \in {x \in adverts : x.name[1] = "public" /\ x.object.type = "profile"}}

CollabPull(s) ==
  /\ pull[s].pc = "pack"
  /\ LET got == Resolved(pull[s].adverts)
     IN IF PeerOf(got) = {} THEN UNCHANGED tags ELSE Put(pull[s].node, Filed(got))
  /\ pull' = [pull EXCEPT ![s] = Idle]
  /\ UNCHANGED <<task, signed, calls>>

PullFails(s) ==
  /\ pull[s].pc = "pack"
  /\ pull' = [pull EXCEPT ![s] = Idle]
  /\ UNCHANGED <<tags, task, signed, calls>>

-----------------------------------------------------------------------------
(* Local discovery: own objects, and those of the authors within hops.       *)
PublicProfiles(n) == Profiles(At(n, <<"public", "profile">>))
PublicObjects(n) == PublicProfiles(n) \cup PublicEdges(n)
TrackedCollab(n) == {o \in At(n, <<"remotes">>) : Verified(o)}

LocalDiscoveryIndex(n, hops) ==
  LET tracked == TrackedCollab(n)
      paths == FollowPaths(PublicEdges(n) \cup Edges(tracked), KeyOf[n], hops)
  IN IndexBuild(KeyOf[n], PublicObjects(n),
       {[distance |-> Len(paths[k]) - 1, path |-> paths[k],
         objects |-> {o \in tracked : o.from = k}] : k \in DOMAIN paths})

QueryDiscovery(n, hops, term) ==
  LET edges == PublicEdges(n) \cup Edges(TrackedCollab(n))
  IN {[key |-> r.key, reach |-> r.distance, path |-> r.path,
       petname |-> Resolve(<<>>, edges, KeyOf[n], r.key)]
        : r \in IndexQuery(LocalDiscoveryIndex(n, hops), term)}

(* Searching relays.  A search falls back to the whole aggregate when the    *)
(* server is no relay; what comes back is verified.  An endpoint where the   *)
(* pinned key cannot be proved, or that refuses, is skipped.                 *)
OwnEdges(n) == PublicEdges(n) \cup Edges(TrackedCollab(n))

FetchTransient(m) == {o \in Corpus(Served(m)) : Verified(o)}

CollabSearch(m, term, hops) ==
  IF RelayMode[m] THEN LET answer == ServeSearch(Corpus(Served(m)), term, hops)
                       IN [answer EXCEPT !.objects = {o \in @ : Verified(o)}]
  ELSE [error |-> FALSE, objects |-> FetchTransient(m)]

ProvesAnyKey(m, key) == RelayMode[m]
ProvesKey(m, key) == RelayMode[m] /\ KeyOf[m] = key
Refused == [error |-> TRUE, objects |-> {}]

FetchAuthenticated(m, key) ==
  IF ProvesKey(m, key) THEN [error |-> FALSE, objects |-> FetchTransient(m)] ELSE Refused
CollabSearchAuthenticated(m, key, term, hops) ==
  IF ProvesKey(m, key) THEN CollabSearch(m, term, hops) ELSE Refused

QueryRelaySet(n, term, hops) ==
  LET asked(pin) == CollabSearchAuthenticated(Answering[pin.endpoint], pin.key, term, hops)
      answered == {pin \in Relays(n) : pin.endpoint \in DOMAIN Answering /\ ~asked(pin).error}
      found == [k \in {pin.key : pin \in answered} |->
                  asked(CHOOSE pin \in answered : pin.key = k).objects]
  IN RankStrangersMulti(KeyOf[n], OwnEdges(n), found, term, hops)

(* `bole discover relay', by the pinned relays or by one endpoint.           *)
DiscoverRelay(n, endpoint, term, hops) ==
  LET hits == IF endpoint = "" THEN QueryRelaySet(n, term, hops)
              ELSE RankStrangers(KeyOf[n], OwnEdges(n),
                                 CollabSearch(Answering[endpoint], term, hops).objects, term, hops)
  IN IF term \in ShortTerms THEN <<>> ELSE SetToSortSeq(hits, RankBefore)

-----------------------------------------------------------------------------
(* Hub views and the endpoints over them.                                    *)
ListRepos(n, owner) == {r \in At(n, <<"public", "repo", owner>>) : VerifyRepo(r)}

HubUsers(n) ==
  LET repos == {r \in At(n, <<"public", "repo">>) : VerifyRepo(r)}
  IN {[key |-> k, repos |-> Cardinality({r \in repos : r.from = k})]
        : k \in {p.from : p \in PublicProfiles(n)} \cup {r.from : r \in repos}}

ProfileBundle(n, key, served) ==
  LET local == \E p \in PublicProfiles(n) : p.from = key
      source == IF local THEN PublicObjects(n) ELSE TrackedCollab(n)
  IN [is_local |-> local,
      profile |-> {p \in Profiles(source) : p.from = key /\ VerifyProfile(p)},
      edges |-> {e \in Edges(source) : e.from = key /\ VerifyEdge(e)},
      timelines |-> IF local THEN served ELSE {},
      repos |-> ListRepos(n, key)]

(* The doctor's scans: announced repositories without pushed content and     *)
(* the reverse, and public objects that do not verify.                       *)
ScanOrphanRepos(n) ==
  LET announced == {<<name[3], name[4]>> : name \in List(n, <<"public", "repo">>)}
      content == {<<t[1], t[2]>> : t \in Timelines[n]}
  IN <<announced \ content, content \ announced>>

ScanInvalidCollabSignatures(n) ==
  {name \in List(n, <<"public">>) :
     ~CASE name[2] = "profile" -> VerifyProfile(tags[n][name])
        [] name[2] = "edge" -> VerifyEdge(tags[n][name])
        [] name[2] = "repo" -> VerifyRepo(tags[n][name])}

(* The commands that list and show.                                          *)
ProfileShow(n, k) == Profile(n, k)
BundleShow(n, k) == ProfileBundle(n, k, Timelines[n])
TrustList(n) == {e \in PublicEdges(n) : e.from = KeyOf[n]}
RepoList(n, k) == ListRepos(n, k)
RepoShow(n, k, name) == GetRepo(n, k, name)
PrList(n) == ListProposals(n)
PrShow(n, p) == GetProposal(n, p)
PrComments(n, p) == ListComments(n, p)
BoardList(n, board) == ListPosts(n, board)
RelayList(n) == Relays(n)
DiscoverQuery(n, term, hops) == QueryDiscovery(n, hops, term)

(* ... and the endpoints of the HTTP server.                                 *)
Status(code) == [status |-> code]
Ok(body) == [status |-> 200, body |-> body]
FirstOr404(found) == IF found = {} THEN Status(404) ELSE Ok(found)

ApiUsers(n) == Ok(HubUsers(n))
ApiProfile(n, k) == FirstOr404({p \in Profile(n, k) : VerifyProfile(p)})
ApiBundle(n, k) == Ok(ProfileBundle(n, k, Timelines[n]))
ApiProposals(n) == Ok(ListProposals(n))
ApiProposal(n, p) ==
  IF GetProposal(n, p) = {} THEN Status(404) ELSE Ok([proposal |-> p, comments |-> ListComments(n, p)])
ApiBoard(n, board) == Ok(ListPosts(n, board))
ApiOwnerRepos(n, k) == Ok(ListRepos(n, k))
ApiRepo(n, k, name) == FirstOr404(GetRepo(n, k, name))

-----------------------------------------------------------------------------
Init ==
  /\ tags \in Starts
  /\ task = [t \in Task |-> Idle]
  /\ pull = [s \in Session |-> Idle]
  /\ signed = {o \in UNION {Range(tags[n]) : n \in Node} : o.signer = o.from}
  /\ calls = 0

Keys == {KeyOf[n] : n \in Node}

PublishStep(t) ==
  \/ \E n \in Node : \/ \E words \in WordsInput[n] : ProfileSet(t, n, words)
                     \/ \E e \in EdgeInput[n] : TrustCmd(t, n, e[1], e[2], e[3])
                     \/ \E name \in RepoInput[n] : Announce(t, n, name)
  \/ PublishProfile(t) \/ PublishEdge(t) \/ PublishRepo(t)
  \/ PublishCommit(t)

Converse(n) ==
  \/ \E b \in BoardInput[n] : BoardPost(n, b) \/ \E p \in ListPosts(n, b) : BoardReply(n, p)
  \/ \E b \in BoardInput[n] : PrCreate(n, b, "main")
  \/ \E p \in ListProposals(n), r \in BOOLEAN : PrComment(n, p, r)

RelayPins(n) ==
  \E k \in Keys : RemoveRelay(n, k) \/ \E e \in PinInput[n] : AddRelay(n, k, e)

Next ==
  \/ \E t \in Task : PublishStep(t)
  \/ \E n \in Node : Converse(n) \/ RelayPins(n)
  \/ \E s \in Session : \/ CollabPull(s) \/ PullFails(s)
                        \/ \E n \in Node : \E m \in PullInput[n] : PullWelcome(s, n, m)

Spec == Init /\ [][Next]_vars

-----------------------------------------------------------------------------
Advances(before, after) ==
  \A name \in {x \in DOMAIN before : x[1] = "public"} :
    /\ name \in DOMAIN after
    /\ after[name] # before[name] => after[name].seq > before[name].seq

(* Within a process a published name only ever moves to a higher sequence    *)
(* number, however the commands that chose those numbers interleave; it is   *)
(* never withdrawn.  The publish lock of publish_profile, publish_edge and   *)
(* publish_repo makes the comparison and the write one step.                 *)
PublishedAdvances == [][\A n \in Node : Advances(tags[n], tags'[n])]_vars

(* "Per key / per (from,kind,to) only the highest seq is kept", says the     *)
(* head of src/src/repo/collab.rs.  For what is tracked that would mean a    *)
(* pull never replaces an object by an earlier one of the same author.       *)
TrackedKeepsHighest ==
  [][\A n \in Node : \A name \in List(n, <<"remotes">>) :
       name \in DOMAIN tags'[n] /\ tags'[n][name].seq >= tags[n][name].seq]_vars

Body(response) == IF response.status = 200 THEN response.body ELSE {}
ShownOf(n, k) ==
  ApiBundle(n, k).body.profile \cup ApiBundle(n, k).body.edges
    \cup Body(ApiProfile(n, k)) \cup Body(ApiOwnerRepos(n, k))
HandedOut(n) ==
  Body(ApiProposals(n))
    \cup (UNION {ApiProposal(n, p).body.comments : p \in Body(ApiProposals(n))})
    \cup (UNION {Body(ApiBoard(n, b)) : b \in BoardInput[n]})
    \cup (UNION {ShownOf(n, k) : k \in Keys})

(* What other people are seen to have said, they have signed.  Everything a  *)
(* node tracks was signed by the author it is filed under, and every         *)
(* profile, edge, repository record, proposal, comment and post that the     *)
(* views and endpoints hand out was signed by the key it names: an object    *)
(* that does not verify, in a peer's published set or in the node's own, is  *)
(* dropped on every one of those paths.                                      *)
ServedIsGenuine ==
  \A n \in Node :
    /\ \A name \in List(n, <<"remotes">>) :
         tags[n][name] \in signed /\ name = Tracking(tags[n][name])
    /\ HandedOut(n) \subseteq signed

(* A chain of d signed edges of these kinds leads from a to b.               *)
Chain(edges, kinds, a, b) ==
  LET reach[d \in Nat] ==
        IF d = 0 THEN {a}
        ELSE {e.to : e \in {x \in edges : x.kind \in kinds /\ x.from \in reach[d - 1]}}
  IN [d \in 0..Cardinality(Keys) |-> b \in reach[d]]
Least(chain, d) == chain[d] /\ \A c \in 0..(d - 1) : ~chain[c]

LocalGrounded(n, term, hops) ==
  \A h \in QueryDiscovery(n, hops, term) :
    /\ Least(Chain(OwnEdges(n) \cap signed, {"follow"}, KeyOf[n], h.key), h.reach)
    /\ h.path[1] = KeyOf[n] /\ h.reach <= hops
RelayGrounded(n, term, hops) ==
  \A h \in QueryRelaySet(n, term, hops) :
    /\ \A r \in h.relays : \E pin \in Relays(n) :
         pin.key = r /\ KeyOf[Answering[pin.endpoint]] = r
    /\ \A i \in DOMAIN h.path.hops : \E e \in Edges(signed) :
         /\ e.from = IF i = 1 THEN KeyOf[n] ELSE h.path.hops[i - 1].key
         /\ e.to = h.path.hops[i].key
         /\ e.kind = h.path.hops[i].via

(* Search results tell the truth about how they are connected to the         *)
(* querier.  A hit of a local query is its own object, or is as many follows *)
(* away as is reported and no fewer, by signed edges the node knows.  A      *)
(* stranger's trust path consists of edges their authors signed, and is      *)
(* credited only to relays that are pinned and hold the pinned key.  (For a  *)
(* node that publishes an edge that does not verify there is no such         *)
(* promise: its own published edges are read without verification.)          *)
DiscoveryGrounded ==
  \A n \in Node : PublicObjects(n) \subseteq signed =>
    \A term \in Term, hops \in Hops : LocalGrounded(n, term, hops) /\ RelayGrounded(n, term, hops)
=============================================================================
