---------------------------- MODULE CollabProofs ----------------------------
(***************************************************************************)
(* Proofs about Collab, for any nodes, keys, tasks, sessions and relays:    *)
(* what is handed out as somebody's word was signed by them, and a          *)
(* published name only moves to higher sequence numbers.                    *)
(***************************************************************************)
EXTENDS Collab, TLAPS

Signable == {"profile", "edge", "repo", "proposal", "comment", "post"}

\* Whatever verifies has been signed by the key it names.
Genuine(o, said) == o.type \in Signable /\ o.signer = o.from => o \in said

Pinned ==
  /\ tags = [n \in Node |-> tags[n]]
  /\ \A n \in Node : \A name \in DOMAIN tags[n] :
       Named(name, tags[n][name]) /\ Genuine(tags[n][name], signed)

\* A publication in progress is of an object that its command has signed.
Publishes(t) ==
  /\ task[t].pc \in {"signed", "checked"}
  /\ task[t].node \in Node
  /\ task[t].object \in signed
  /\ task[t].object.type \in {"profile", "edge", "repo"}
  /\ task[t].object.seq \in Nat

Published ==
  /\ task = [t \in Task |-> task[t]]
  /\ \A t \in Task : task[t] = Idle \/ Publishes(t)

Pulling ==
  /\ pull = [s \in Session |-> pull[s]]
  /\ \A s \in Session : pull[s].pc = "pack" =>
       pull[s].node \in Node /\ \A a \in pull[s].adverts : Genuine(a.object, signed)

GInv == Pinned /\ Published /\ Pulling

-----------------------------------------------------------------------------
\* A name listed under a prefix begins with it.
LEMMA PrefixFirst ==
  ASSUME NEW x, NEW name
  PROVE  /\ IsPrefix(<<x>>, name) => name[1] = x
         /\ \A y : IsPrefix(<<x, y>>, name) => name[1] = x
BY DEF IsPrefix

\* The kinds of names are told apart by their first segment.
LEMMA FirstSegments ==
  /\ \A o : o.type \in {"profile", "edge", "repo"} => PublicName(o)[1] = "public"
  /\ \A o : Tracking(o)[1] = "remotes"
  /\ \A key : RelayName(key)[1] = "relays"
<1>1. ASSUME NEW o, o.type = "profile" PROVE PublicName(o)[1] = "public" BY <1>1, Zenon
                                                                            DEF PublicName
<1>2. ASSUME NEW o, o.type = "edge" PROVE PublicName(o)[1] = "public" BY <1>2, Zenon DEF PublicName
<1>3. ASSUME NEW o, o.type = "repo" PROVE PublicName(o)[1] = "public" BY <1>3, Zenon DEF PublicName
<1>4. \A o : Tracking(o)[1] = "remotes" BY Zenon DEF Tracking
<1>5. \A key : RelayName(key)[1] = "relays" BY Zenon DEF RelayName
<1> QED BY <1>1, <1>2, <1>3, <1>4, <1>5, Zenon

\* ... and a public name gives the type of its object.
LEMMA PublicType ==
  ASSUME NEW o, NEW p, o.type \in {"profile", "edge", "repo"},
         p.type \in {"profile", "edge", "repo"}, PublicName(o) = PublicName(p)
  PROVE  o.type = p.type
<1>1. \A x : x.type = "profile" => PublicName(x)[2] = "profile" BY Zenon DEF PublicName
<1>2. \A x : x.type = "edge" => PublicName(x)[2] = "edge" BY Zenon DEF PublicName
<1>3. \A x : x.type = "repo" => PublicName(x)[2] = "repo" BY Zenon DEF PublicName
<1> QED BY <1>1, <1>2, <1>3, Zenon

\* What Put leaves and what it adds.
LEMMA PutTags ==
  ASSUME Pinned, NEW n \in Node, NEW pins, Put(n, pins)
  PROVE  /\ tags' = [m \in Node |-> tags'[m]]
         /\ \A m \in Node : m # n => tags'[m] = tags[m]
         /\ DOMAIN tags'[n] = DOMAIN pins \cup DOMAIN tags[n]
         /\ \A name \in DOMAIN pins : tags'[n][name] = pins[name]
         /\ \A name \in DOMAIN tags[n] : name \notin DOMAIN pins => tags'[n][name] = tags[n][name]
BY Zenon DEF Pinned, Put

\* Putting names that fit their genuine objects keeps all names so.
LEMMA PutPinned ==
  ASSUME Pinned, NEW n \in Node, NEW pins, Put(n, pins), signed \subseteq signed',
         \A name \in DOMAIN pins : Named(name, pins[name]) /\ Genuine(pins[name], signed')
  PROVE  Pinned'
<1>1. \A o : Genuine(o, signed) => Genuine(o, signed') BY Zenon DEF Genuine
<1>2. tags' = [m \in Node |-> tags'[m]] BY PutTags, Zenon
<1>3. ASSUME NEW m \in Node, NEW name \in DOMAIN tags'[m]
      PROVE  Named(name, tags'[m][name]) /\ Genuine(tags'[m][name], signed')
  <2>1. CASE m = n /\ name \in DOMAIN pins BY <2>1, PutTags
  <2>2. CASE ~(m = n /\ name \in DOMAIN pins)
    <3>1. name \in DOMAIN tags[m] /\ tags'[m][name] = tags[m][name] BY <1>3, <2>2, PutTags
    <3> QED BY <3>1, <1>1, Zenon DEF Pinned
  <2> QED BY <2>1, <2>2, Zenon
<1> QED BY <1>2, <1>3, Zenon DEF Pinned

\* ... one name in particular.
LEMMA PinPinned ==
  ASSUME Pinned, NEW n \in Node, NEW name, NEW o, Put(n, Pin(name, o)), signed \subseteq signed',
         Named(name, o), Genuine(o, signed')
  PROVE  Pinned'
<1>1. \A x \in DOMAIN Pin(name, o) : Named(x, Pin(name, o)[x]) /\ Genuine(Pin(name, o)[x], signed')
  <2> SUFFICES ASSUME NEW x \in DOMAIN Pin(name, o)
               PROVE  Named(x, Pin(name, o)[x]) /\ Genuine(Pin(name, o)[x], signed')
    BY Zenon
  <2>1. x = name /\ Pin(name, o)[x] = o BY Zenon DEF Pin
  <2> QED BY <2>1, Zenon
<1> QED BY <1>1, PutPinned, Zenon

-----------------------------------------------------------------------------
(* The commands choose sequence numbers by what is published.               *)

\* The number after the current one, or the first.
LEMMA NextSeqType ==
  ASSUME NEW current, \A o \in current : o.seq \in Nat
  PROVE  NextSeq(current) \in Nat
<1>1. CASE current = {} BY <1>1, Zenon DEF NextSeq
<1>2. CASE current # {}
  <2>1. (CHOOSE o \in current : TRUE) \in current BY <1>2, Zenon
  <2> QED BY <1>2, <2>1 DEF NextSeq
<1> QED BY <1>1, <1>2, Zenon

\* What a command finds published has a number.
LEMMA PublishedNumbered ==
  ASSUME Pinned, NEW n \in Node
  PROVE  /\ \A k, type : \A o \in GetTag(n, <<"public", "profile", k>>, type) : o.seq \in Nat
         /\ \A k, x, type : \A o \in GetTag(n, <<"public", "repo", k, x>>, type) : o.seq \in Nat
         /\ \A o \in PublicEdges(n) : o.seq \in Nat
<1>1. \A name \in DOMAIN tags[n] : name[1] = "public" => tags[n][name].seq \in Nat
  BY Zenon DEF Pinned, Named
<1>2. \A k, type : \A o \in GetTag(n, <<"public", "profile", k>>, type) : o.seq \in Nat
  BY <1>1, Zenon DEF GetTag
<1>3. \A k, x, type : \A o \in GetTag(n, <<"public", "repo", k, x>>, type) : o.seq \in Nat
  BY <1>1, Zenon DEF GetTag
<1>4. \A o \in PublicEdges(n) : o.seq \in Nat
  BY <1>1, PrefixFirst, Zenon DEF PublicEdges, Edges, At, List
<1> QED BY <1>2, <1>3, <1>4, Zenon

\* What the three commands sign.
LEMMA Signs ==
  ASSUME GInv, NEW t \in Task, NEW n \in Node,
         \/ \E words \in WordsInput[n] : ProfileSet(t, n, words)
         \/ \E e \in EdgeInput[n] : TrustCmd(t, n, e[1], e[2], e[3])
         \/ \E name \in RepoInput[n] : Announce(t, n, name)
  PROVE  \E o : /\ Sign(t, n, o) /\ o.seq \in Nat
                /\ o.type \in {"profile", "edge", "repo"}
<1>0. Pinned BY Zenon DEF GInv
<1>1. ASSUME NEW words, ProfileSet(t, n, words)
      PROVE  \E o : Sign(t, n, o) /\ o.seq \in Nat /\ o.type \in {"profile", "edge", "repo"}
  <2>1. NextSeq(Profile(n, KeyOf[n])) \in Nat BY <1>0, NextSeqType, PublishedNumbered, Zenon
                                                 DEF Profile
  <2> QED BY <1>1, <2>1 DEF ProfileSet, SignProfile
<1>2. ASSUME NEW to, NEW kind, NEW petname, TrustCmd(t, n, to, kind, petname)
      PROVE  \E o : Sign(t, n, o) /\ o.seq \in Nat /\ o.type \in {"profile", "edge", "repo"}
  <2>1. NextSeqFor(n, to, kind) \in Nat BY <1>0, NextSeqType, PublishedNumbered, Zenon
                                           DEF NextSeqFor
  <2> QED BY <1>2, <2>1 DEF TrustCmd, SignEdge
<1>3. ASSUME NEW name, Announce(t, n, name)
      PROVE  \E o : Sign(t, n, o) /\ o.seq \in Nat /\ o.type \in {"profile", "edge", "repo"}
  <2>1. NextSeq(GetRepo(n, KeyOf[n], name)) \in Nat
    BY <1>0, NextSeqType, PublishedNumbered, Zenon DEF GetRepo
  <2> QED BY <1>3, <2>1 DEF Announce, SignRepo
<1> QED BY <1>1, <1>2, <1>3, Zenon

-----------------------------------------------------------------------------
(* Each kind of step keeps GInv.                                            *)

\* A step that signs more and touches nothing else.
LEMMA MoreSigned ==
  ASSUME GInv, signed \subseteq signed'
  PROVE  /\ tags' = tags => Pinned'
         /\ \A t \in Task : task'[t] = task[t] => task'[t] = Idle \/ Publishes(t)'
         /\ pull' = pull => Pulling'
<1>1. \A o : Genuine(o, signed) => Genuine(o, signed') BY Zenon DEF Genuine
<1>2. tags' = tags => Pinned' BY <1>1, Zenon DEF GInv, Pinned
<1>3. pull' = pull => Pulling' BY <1>1, Zenon DEF GInv, Pulling
<1>4. \A t \in Task : task'[t] = task[t] => task'[t] = Idle \/ Publishes(t)'
  BY Zenon DEF GInv, Published, Publishes
<1> QED BY <1>2, <1>3, <1>4, Zenon

\* A command signs an object and holds it.
LEMMA SignKeeps ==
  ASSUME GInv, NEW t \in Task, NEW n \in Node, NEW o, Sign(t, n, o), o.seq \in Nat,
         o.type \in {"profile", "edge", "repo"}
  PROVE  GInv'
<1>1. signed \subseteq signed' /\ o \in signed' /\ tags' = tags /\ pull' = pull BY Zenon DEF Sign
<1>2. Pinned' /\ Pulling' BY <1>1, MoreSigned, Zenon
<1>3. Published'
  <2>1. task' = [u \in Task |-> task'[u]] BY Zenon DEF Sign, GInv, Published
  <2>2. task'[t] = [pc |-> "signed", node |-> n, object |-> o] BY Zenon DEF Sign, GInv, Published
  <2>3. Publishes(t)' BY <1>1, <2>2 DEF Publishes
  <2>4. \A u \in Task : u # t => task'[u] = task[u] BY Zenon DEF Sign, GInv, Published
  <2> QED BY <1>1, <2>1, <2>3, <2>4, MoreSigned, Zenon DEF Published
<1> QED BY <1>2, <1>3, Zenon DEF GInv

\* The library checks it under the publish lock...
LEMMA CheckKeeps ==
  ASSUME GInv, NEW t \in Task, NEW type, PublishCheck(t, type)
  PROVE  GInv'
<1>1. signed' = signed /\ tags' = tags /\ pull' = pull BY Zenon DEF PublishCheck
<1>2. Pinned' /\ Pulling' BY <1>1, MoreSigned, Zenon
<1>3. task[t] # Idle BY DEF PublishCheck, Idle
<1>4. Publishes(t) BY <1>3, Zenon DEF GInv, Published
<1>5. /\ task' = [u \in Task |-> task'[u]] /\ \A u \in Task : u # t => task'[u] = task[u]
      /\ task'[t] = Idle \/ task'[t] = [task[t] EXCEPT !.pc = "checked"]
  BY Zenon DEF PublishCheck, GInv, Published
<1>6. task'[t] = Idle \/ Publishes(t)'
  <2>1. CASE task'[t] = Idle BY <2>1, Zenon
  <2>2. CASE task'[t] = [task[t] EXCEPT !.pc = "checked"]
    <3>1. task'[t].node = task[t].node /\ task'[t].object = task[t].object BY <2>2
    <3>2. task'[t].pc = "checked" BY <1>4, <2>2 DEF Publishes
    <3> QED BY <1>1, <1>4, <3>1, <3>2, Zenon DEF Publishes
  <2> QED BY <1>5, <2>1, <2>2, Zenon
<1> QED BY <1>1, <1>2, <1>5, <1>6, MoreSigned, Zenon DEF GInv, Published

\* ... and sets the name.
LEMMA CommitKeeps ==
  ASSUME GInv, NEW t \in Task, PublishCommit(t)
  PROVE  GInv'
<1>1. signed' = signed /\ pull' = pull BY Zenon DEF PublishCommit
<1>2. task[t] # Idle BY DEF PublishCommit, Idle
<1>3. Publishes(t) BY <1>2, Zenon DEF GInv, Published
<1> DEFINE o == task[t].object
           name == PublicName(o)
<1>4. Put(task[t].node, Pin(name, o)) /\ task[t].node \in Node
  BY <1>3, Zenon DEF PublishCommit, Publishes
<1>5. Named(name, o) BY <1>3, FirstSegments DEF Publishes, Named
<1>6. Genuine(o, signed') BY <1>1, <1>3, Zenon DEF Publishes, Genuine
<1>7. Pinned' BY <1>1, <1>4, <1>5, <1>6, PinPinned, Zenon DEF GInv
<1>8. /\ task' = [u \in Task |-> task'[u]] /\ task'[t] = Idle
      /\ \A u \in Task : u # t => task'[u] = task[u]
  BY Zenon DEF PublishCommit, GInv, Published
<1> QED BY <1>1, <1>7, <1>8, MoreSigned, Zenon DEF GInv, Published

\* A proposal, a comment or a post is signed and named by its content.
LEMMA PublishKeeps ==
  ASSUME GInv, NEW n \in Node, NEW name, NEW o, Publish(n, name, o),
         name[1] \notin {"public", "remotes"}
  PROVE  GInv'
<1>1. /\ signed \subseteq signed' /\ o \in signed' /\ pull' = pull /\ task' = task
      /\ Put(n, Pin(name, o))
  BY Zenon DEF Publish
<1>2. Named(name, o) /\ Genuine(o, signed') BY <1>1, Zenon DEF Named, Genuine
<1>3. Pinned' BY <1>1, <1>2, PinPinned, Zenon DEF GInv
<1> QED BY <1>1, <1>3, MoreSigned, Zenon DEF GInv, Published

\* Relay pins are of no author.
LEMMA RelayKeeps ==
  ASSUME GInv, NEW n \in Node, NEW key,
         RemoveRelay(n, key) \/ \E e \in PinInput[n] : AddRelay(n, key, e)
  PROVE  GInv'
<1>1. signed' = signed /\ pull' = pull /\ task' = task BY Zenon DEF RemoveRelay, AddRelay
<1>2. Pinned'
  <2>1. CASE RemoveRelay(n, key) BY <1>1, <2>1, Zenon DEF RemoveRelay, GInv, Pinned
  <2>2. ASSUME NEW e, AddRelay(n, key, e) PROVE Pinned'
    <3>1. PICK o : o = [type |-> "relay", key |-> key, endpoint |-> e] BY Zenon
    <3>2. Put(n, Pin(RelayName(key), o)) BY <2>2, <3>1, Zenon DEF AddRelay
    <3>3. Named(RelayName(key), o) /\ Genuine(o, signed')
      BY <3>1, FirstSegments, Zenon DEF Named, Genuine, Signable
    <3> QED BY <1>1, <3>2, <3>3, PinPinned, Zenon DEF GInv
  <2> QED BY <2>1, <2>2, Zenon
<1> QED BY <1>1, <1>2, MoreSigned, Zenon DEF GInv, Published

\* What is filed is an object of the advertisement, under its author.
LEMMA FiledFrom ==
  ASSUME NEW adverts, NEW name \in DOMAIN Filed(adverts)
  PROVE  \E a \in adverts : Filed(adverts)[name] = a.object /\ name = Tracking(a.object)
<1> DEFINE For(set) == {a \in set : Tracking(a.object) = name}
           cached == {a \in adverts : a.name[1] = "remotes"}
           last == IF For(cached) # {} THEN For(cached) ELSE For(adverts)
<1>1. name \in {Tracking(a.object) : a \in adverts} BY Zenon DEF Filed
<1>2. Filed(adverts)[name] = (CHOOSE a \in last : TRUE).object BY <1>1, Zenon DEF Filed
<1>3. last # {} /\ last \subseteq adverts /\ \A a \in last : name = Tracking(a.object) BY <1>1,
                                                                                          Zenon
<1> HIDE DEF last
<1>4. (CHOOSE a \in last : TRUE) \in last BY <1>3, Zenon
<1> QED BY <1>2, <1>3, <1>4, Zenon

\* A pull is answered with what the server has pinned...
LEMMA WelcomeKeeps ==
  ASSUME GInv, NEW s \in Session, NEW n \in Node, NEW m \in Node, PullWelcome(s, n, m)
  PROVE  GInv'
<1>1. signed' = signed /\ tags' = tags /\ task' = task BY Zenon DEF PullWelcome
<1>2. CollabAdverts(m) \subseteq DOMAIN tags[m] BY Zenon DEF CollabAdverts, List
<1>3. \A a \in Served(m) : Genuine(a.object, signed)
  BY <1>2 DEF Served, GInv, Pinned
<1>4. /\ pull' = [r \in Session |-> pull'[r]]
      /\ pull'[s] = [pc |-> "pack", node |-> n, adverts |-> Served(m)]
      /\ \A r \in Session : r # s => pull'[r] = pull[r]
  BY Zenon DEF PullWelcome, GInv, Pulling
<1>5. Pulling' BY <1>1, <1>3, <1>4 DEF GInv, Pulling
<1> QED BY <1>1, <1>5, MoreSigned, Zenon DEF GInv, Published

\* ... and files what verifies, or nothing.
LEMMA PullKeeps ==
  ASSUME GInv, NEW s \in Session, CollabPull(s) \/ PullFails(s)
  PROVE  GInv'
<1>1. signed' = signed /\ task' = task /\ pull[s].pc = "pack" BY Zenon DEF CollabPull, PullFails
<1>2. /\ pull' = [r \in Session |-> pull'[r]] /\ pull'[s] = Idle
      /\ \A r \in Session : r # s => pull'[r] = pull[r]
  BY Zenon DEF CollabPull, PullFails, GInv, Pulling
<1>3. Pulling' BY <1>1, <1>2 DEF GInv, Pulling, Idle
<1>4. Pinned'
  <2>1. CASE tags' = tags BY <1>1, <2>1, MoreSigned, Zenon
  <2>2. CASE Put(pull[s].node, Filed(Resolved(pull[s].adverts)))
    <3> DEFINE got == Resolved(pull[s].adverts)
    <3>1. pull[s].node \in Node /\ \A a \in got : Verified(a.object) /\ Genuine(a.object, signed)
      BY <1>1, Zenon DEF GInv, Pulling, Resolved, AllResolved
    <3>2. \A name \in DOMAIN Filed(got) :
             Named(name, Filed(got)[name]) /\ Genuine(Filed(got)[name], signed')
      BY <1>1, <3>1, FiledFrom, FirstSegments DEF Named
    <3> HIDE DEF got
    <3> QED BY <1>1, <2>2, <3>1, <3>2, PutPinned, Zenon DEF GInv, got
  <2> QED BY <2>1, <2>2, Zenon DEF CollabPull, PullFails
<1> QED BY <1>1, <1>3, <1>4, MoreSigned, Zenon DEF GInv, Published

\* The steps, by what they do.
LEMMA Cases ==
  ASSUME GInv, [Next]_vars
  PROVE  \/ \E t \in Task, n \in Node : \E o : /\ Sign(t, n, o) /\ o.seq \in Nat
                                              /\ o.type \in {"profile", "edge", "repo"}
         \/ \E t \in Task, type \in {"profile", "edge", "repo"} : PublishCheck(t, type)
         \/ \E t \in Task : PublishCommit(t)
         \/ \E n \in Node : \E name, o : Publish(n, name, o) /\ name[1] \notin {"public", "remotes"}
         \/ \E n \in Node : \E key : RemoveRelay(n, key) \/ \E e \in PinInput[n] : AddRelay(n, key, e)
         \/ \E s \in Session : CollabPull(s) \/ PullFails(s)
         \/ \E s \in Session, n \in Node, m \in Node : PullWelcome(s, n, m)
         \/ UNCHANGED vars
<1>1. ASSUME NEW t \in Task, PublishStep(t)
      PROVE  \/ \E n \in Node : \E o : /\ Sign(t, n, o) /\ o.seq \in Nat
                                        /\ o.type \in {"profile", "edge", "repo"}
             \/ \E type \in {"profile", "edge", "repo"} : PublishCheck(t, type)
             \/ PublishCommit(t)
  BY <1>1, Signs, Zenon DEF PublishStep, PublishProfile, PublishEdge, PublishRepo
<1>2. ASSUME NEW n \in Node, Converse(n)
      PROVE  \E name, o : Publish(n, name, o) /\ name[1] \notin {"public", "remotes"}
  <2>1. \A p : <<"proposals", p>>[1] = "proposals" BY Zenon
  <2>2. \A p, c : <<"comments", p, c>>[1] = "comments" /\ <<"board", p, c>>[1] = "board" BY Zenon
  <2> QED BY <1>2, <2>1, <2>2, Zenon
          DEF Converse, BoardPost, BoardReply, PublishPost, PrCreate, PublishProposal,
              PrComment, AddComment
<1>3. ASSUME NEW n \in Node, NEW m \in PullInput[n] PROVE m \in Node
  BY CollabAssumption, Zenon
<1> QED BY <1>1, <1>2, <1>3, Zenon DEF Next, RelayPins

\* Every step keeps the invariant.
LEMMA StepGenuine == GInv /\ [Next]_vars => GInv'
<1> SUFFICES ASSUME GInv, [Next]_vars PROVE GInv'
  BY Zenon
<1>1. CASE UNCHANGED vars BY <1>1, MoreSigned, Zenon DEF vars, GInv, Published
<1> QED BY <1>1, Cases, SignKeeps, CheckKeeps, CommitKeeps, PublishKeeps, RelayKeeps, PullKeeps,
           WelcomeKeeps, Zenon

\* The nodes start with names that fit their objects.
LEMMA InitGenuine == Init => GInv
<1> SUFFICES ASSUME Init PROVE GInv
  BY Zenon
<1>1. Pinned BY CollabAssumption DEF Init, Pinned, Genuine, Range
<1>2. Published /\ Pulling BY Zenon DEF Init, Published, Pulling, Idle
<1> QED BY <1>1, <1>2, Zenon DEF GInv

-----------------------------------------------------------------------------
\* What is listed is pinned, and what verifies of it was signed.
LEMMA ListedGenuine ==
  ASSUME GInv, NEW n \in Node, NEW prefix, NEW o \in At(n, prefix),
         o.type \in Signable, o.signer = o.from
  PROVE  o \in signed
BY Zenon DEF At, List, GInv, Pinned, Genuine

\* What other people are seen to have said, they have signed: all that a
\* node tracks, and every profile, edge, repository record, proposal, comment
\* and post that the views and endpoints hand out, for any nodes that start
\* with names that fit their objects and any published or served objects that
\* do not verify.
THEOREM ServedAsSigned == Spec => []ServedIsGenuine
<1>1. GInv => ServedIsGenuine
  <2> SUFFICES ASSUME GInv, NEW n \in Node
               PROVE  /\ \A name \in List(n, <<"remotes">>) :
                           tags[n][name] \in signed /\ name = Tracking(tags[n][name])
                      /\ HandedOut(n) \subseteq signed
    BY Zenon DEF ServedIsGenuine
  <2>1. ASSUME NEW name \in List(n, <<"remotes">>)
        PROVE  tags[n][name] \in signed /\ name = Tracking(tags[n][name])
    <3>1. name \in DOMAIN tags[n] /\ name[1] = "remotes" BY <2>1, PrefixFirst, Zenon DEF List
    <3> QED BY <3>1, Zenon
               DEF GInv, Pinned, Named, Genuine, Signable, Verified, VerifyProfile, VerifyEdge
  <2>2. /\ \A o \in PublicObjects(n) \cup TrackedCollab(n) : VerifyProfile(o) => o \in signed
        /\ \A o \in PublicObjects(n) \cup TrackedCollab(n) : VerifyEdge(o) => o \in signed
    BY ListedGenuine, Zenon
       DEF PublicObjects, PublicProfiles, PublicEdges, TrackedCollab, Profiles, Edges,
       VerifyProfile, VerifyEdge, Signable
  <2>3. \A k : ListRepos(n, k) \subseteq signed
    BY ListedGenuine, Zenon DEF ListRepos, VerifyRepo, Signable
  <2>4. ListProposals(n) \subseteq signed
    BY ListedGenuine, Zenon DEF ListProposals, VerifyProposal, Signable
  <2>5. \A p : ListComments(n, p) \subseteq signed
    BY ListedGenuine, Zenon DEF ListComments, VerifyComment, Signable
  <2>6. \A b : ListPosts(n, b) \subseteq signed
    BY ListedGenuine, Zenon DEF ListPosts, VerifyPost, Signable
  <2>7. \A k : ApiBundle(n, k).body.profile \subseteq signed /\ ApiBundle(n, k).body.edges \subseteq signed
    BY <2>2, Zenon DEF ApiBundle, Ok, ProfileBundle, Profiles, Edges
  <2>8. \A k : Body(ApiProfile(n, k)) \subseteq signed
    <3>1. \A k : {p \in Profile(n, k) : VerifyProfile(p)} \subseteq signed
      BY Zenon DEF Profile, GetTag, VerifyProfile, GInv, Pinned, Genuine, Signable
    <3> QED BY <3>1 DEF ApiProfile, FirstOr404, Body, Ok, Status
  <2>9. \A k : Body(ApiOwnerRepos(n, k)) \subseteq signed
    BY <2>3, Zenon DEF ApiOwnerRepos, Body, Ok
  <2>10. Body(ApiProposals(n)) = ListProposals(n)
    BY Zenon DEF ApiProposals, Body, Ok
  <2>11. \A p \in ListProposals(n) : ApiProposal(n, p).body.comments \subseteq signed
    BY <2>5, Zenon DEF ApiProposal, GetProposal, Ok
  <2>12. \A b : Body(ApiBoard(n, b)) \subseteq signed
    BY <2>6, Zenon DEF ApiBoard, Body, Ok
  <2>13. HandedOut(n) \subseteq signed
    <3>1. \A k : ShownOf(n, k) \subseteq signed BY <2>7, <2>8, <2>9, Zenon DEF ShownOf
    <3>2. UNION {ShownOf(n, k) : k \in Keys} \subseteq signed BY <3>1, Zenon
    <3>3. UNION {ApiProposal(n, p).body.comments : p \in Body(ApiProposals(n))} \subseteq signed
      BY <2>10, <2>11, Zenon
    <3>4. UNION {Body(ApiBoard(n, b)) : b \in BoardInput[n]} \subseteq signed BY <2>12, Zenon
    <3>5. Body(ApiProposals(n)) \subseteq signed BY <2>4, <2>10, Zenon
    <3> QED BY <3>2, <3>3, <3>4, <3>5, Zenon DEF HandedOut
  <2> QED BY <2>1, <2>13, Zenon
<1> QED BY <1>1, InitGenuine, StepGenuine, PTL DEF Spec

-----------------------------------------------------------------------------
(***************************************************************************)
(* Sequence numbers.  The publish lock is one of a process: the statement   *)
(* is about tasks that share one.                                           *)
(***************************************************************************)
SolePublisher == \A t, u \in Task : ProcOf[t] = ProcOf[u]

\* What is checked is still above what is published.
Above(t) ==
  LET o == task[t].object
      n == task[t].node
  IN PublicName(o) \in DOMAIN tags[n] => tags[n][PublicName(o)].seq < o.seq

LockHeld ==
  /\ \A t, u \in Task : task[t].pc = "checked" /\ task[u].pc = "checked" => t = u
  /\ \A t \in Task : task[t].pc = "checked" => Above(t)

\* The step moves no public name.
Steady == \A n \in Node : \A name : name[1] = "public" =>
            /\ name \in DOMAIN tags'[n] <=> name \in DOMAIN tags[n]
            /\ name \in DOMAIN tags[n] => tags'[n][name] = tags[n][name]

\* Putting names that are not public moves none.
LEMMA PutSteady ==
  ASSUME Pinned, NEW n \in Node, NEW pins, Put(n, pins),
         \A name \in DOMAIN pins : name[1] # "public"
  PROVE  Steady
BY PutTags DEF Steady

\* Only a commit moves a public name.
LEMMA OthersSteady ==
  ASSUME GInv, [Next]_vars, \A t \in Task : ~PublishCommit(t)
  PROVE  Steady
<1>0. Pinned BY Zenon DEF GInv
<1>1. CASE tags' = tags BY <1>1, Zenon DEF Steady
<1>2. ASSUME NEW n \in Node, NEW name, NEW o, Put(n, Pin(name, o)), name[1] # "public"
      PROVE  Steady
  <2>1. \A x \in DOMAIN Pin(name, o) : x[1] # "public" BY <1>2, Zenon DEF Pin
  <2> QED BY <1>0, <1>2, <2>1, PutSteady, Zenon
<1>3. ASSUME NEW n \in Node, NEW key, RemoveRelay(n, key) PROVE Steady
  BY <1>0, <1>3, FirstSegments, Zenon DEF RemoveRelay, Pinned, Steady
<1>4. ASSUME NEW n \in Node, NEW key, NEW e, AddRelay(n, key, e) PROVE Steady
  BY <1>2, <1>4, FirstSegments, Zenon DEF AddRelay
<1>5. ASSUME NEW s \in Session, CollabPull(s) PROVE Steady
  <2>1. CASE tags' = tags BY <1>1, <2>1, Zenon
  <2>2. CASE Put(pull[s].node, Filed(Resolved(pull[s].adverts)))
    <3>1. \A name \in DOMAIN Filed(Resolved(pull[s].adverts)) : name[1] # "public"
      BY FiledFrom, FirstSegments
    <3>2. pull[s].node \in Node BY <1>5, Zenon DEF CollabPull, GInv, Pulling
    <3> QED BY <1>0, <2>2, <3>1, <3>2, PutSteady, Zenon
  <2> QED BY <1>5, <2>1, <2>2, Zenon DEF CollabPull
<1> QED BY <1>1, <1>2, <1>3, <1>4, <1>5, Cases, Zenon
        DEF Sign, PublishCheck, Publish, PullFails, PullWelcome, vars

\* A commit publishes one checked object, above what was there.
LEMMA CommitAbove ==
  ASSUME GInv, LockHeld, NEW t \in Task, PublishCommit(t)
  PROVE  \A n \in Node : \A name \in DOMAIN tags[n] :
           /\ name \in DOMAIN tags'[n]
           /\ tags'[n][name] # tags[n][name] => tags'[n][name].seq > tags[n][name].seq
<1>1. task[t] # Idle BY DEF PublishCommit, Idle
<1>2. Publishes(t) /\ Above(t) BY <1>1, Zenon DEF GInv, Published, LockHeld, PublishCommit
<1>3. PICK n, o : n = task[t].node /\ o = task[t].object BY Zenon
<1>4. n \in Node /\ Put(n, Pin(PublicName(o), o)) /\ o.seq \in Nat
  BY <1>2, <1>3, Zenon DEF PublishCommit, Publishes
<1>5. /\ \A m \in Node : m # n => tags'[m] = tags[m]
      /\ \A name \in DOMAIN tags[n] : name \in DOMAIN tags'[n]
      /\ \A name \in DOMAIN tags[n] : name # PublicName(o) => tags'[n][name] = tags[n][name]
      /\ tags'[n][PublicName(o)] = o
  BY <1>4, PutTags DEF GInv, Pin
<1>6. PublicName(o) \in DOMAIN tags[n] =>
         tags[n][PublicName(o)].seq < o.seq /\ tags[n][PublicName(o)].seq \in Nat
  <2> SUFFICES ASSUME PublicName(o) \in DOMAIN tags[n]
               PROVE  tags[n][PublicName(o)].seq < o.seq /\ tags[n][PublicName(o)].seq \in Nat
    BY Zenon
  <2>1. PublicName(o)[1] = "public" BY <1>2, <1>3, FirstSegments, SMTT(30) DEF Publishes
  <2>2. Named(PublicName(o), tags[n][PublicName(o)]) BY <1>4, Zenon DEF GInv, Pinned
  <2>3. tags[n][PublicName(o)].seq \in Nat BY <2>1, <2>2, Zenon DEF Named
  <2>4. tags[n][PublicName(o)].seq < o.seq BY <1>2, <1>3, Zenon DEF Above
  <2> QED BY <2>3, <2>4, Zenon
<1> QED BY <1>4, <1>5, <1>6, Zenon

\* The lock keeps what was checked above what is published.
LEMMA StepLock ==
  SolePublisher /\ GInv /\ LockHeld /\ [Next]_vars => LockHeld'
<1> SUFFICES ASSUME SolePublisher, GInv, LockHeld, [Next]_vars PROVE LockHeld'
  BY Zenon
<1>f. \A t \in Task : task[t] = Idle \/ Publishes(t) BY Zenon DEF GInv, Published
<1>1. ASSUME NEW t \in Task, PublishCommit(t) PROVE LockHeld'
  <2>1. task'[t].pc # "checked" /\ \A u \in Task : u # t => task'[u] = task[u]
    BY <1>1, Zenon DEF PublishCommit, Idle, GInv, Published
  <2>2. \A u \in Task : task'[u].pc # "checked"
    BY <1>1, <2>1, Zenon DEF LockHeld, PublishCommit
  <2> QED BY <2>2, Zenon DEF LockHeld
<1>2. ASSUME \A t \in Task : ~PublishCommit(t),
             \A u \in Task : task'[u].pc = "checked" => task'[u] = task[u]
      PROVE  LockHeld'
  <2>1. Steady BY <1>2, OthersSteady, Zenon
  <2>2. ASSUME NEW u \in Task, task'[u].pc = "checked" PROVE Above(u)'
    <3>1. task'[u] = task[u] /\ Above(u) /\ Publishes(u)
      BY <1>2, <1>f, <2>2 DEF LockHeld, Idle
    <3>2. PublicName(task[u].object)[1] = "public" /\ task[u].node \in Node
      BY <3>1, FirstSegments, SMTT(30) DEF Publishes
    <3>3. PICK n, o : n = task[u].node /\ o = task[u].object
      BY Zenon
    <3>4. PublicName(o) \in DOMAIN tags'[n] =>
            PublicName(o) \in DOMAIN tags[n] /\ tags'[n][PublicName(o)] = tags[n][PublicName(o)]
      BY <2>1, <3>2, <3>3, Zenon DEF Steady
    <3> QED BY <3>1, <3>3, <3>4, Zenon DEF Above
  <2> QED BY <1>2, <2>2, Zenon DEF LockHeld
<1>3. ASSUME \A t \in Task : ~PublishCommit(t), NEW t \in Task,
             NEW type \in {"profile", "edge", "repo"}, PublishCheck(t, type)
      PROVE  LockHeld'
  <2>1. /\ tags' = tags /\ \A u \in Task : u # t => task'[u] = task[u]
        /\ \A u \in Task : task[u].pc # "checked"
    BY <1>3, Zenon DEF PublishCheck, TakesLock, LockFree, SolePublisher, GInv, Published
  <2>2. Publishes(t) /\ task[t].object.type = type BY <1>3, <1>f DEF PublishCheck, Idle
  <2>3. ASSUME task'[t].pc = "checked" PROVE Above(t)'
    <3>1. PICK n, o : n = task[t].node /\ o = task[t].object BY Zenon
    <3>2. /\ task'[t] = [task[t] EXCEPT !.pc = "checked"]
          /\ ~\E cur \in GetTag(n, PublicName(o), type) : o.seq <= cur.seq
      BY <1>3, <2>3, <3>1, Zenon DEF PublishCheck, Idle, GInv, Published
    <3>3. task'[t].node = n /\ task'[t].object = o BY <3>1, <3>2
    <3>4. ASSUME PublicName(o) \in DOMAIN tags[n] PROVE tags[n][PublicName(o)].seq < o.seq
      <4>1. PICK cur : cur = tags[n][PublicName(o)] BY Zenon
      <4>2. /\ cur.type \in {"profile", "edge", "repo"} /\ PublicName(o) = PublicName(cur)
            /\ cur.seq \in Nat
        <5>1. PublicName(o)[1] = "public" BY <2>2, <3>1, FirstSegments DEF Publishes
        <5>2. Named(PublicName(o), cur) BY <2>2, <3>1, <3>4, <4>1, Zenon DEF Publishes, GInv, Pinned
        <5> QED BY <5>1, <5>2, Zenon DEF Named
      <4>3. cur.type = type BY <2>2, <3>1, <4>2, PublicType DEF Publishes
      <4>4. ~(o.seq <= cur.seq) BY <3>2, <3>4, <4>1, <4>3, Zenon DEF GetTag
      <4>5. o.seq \in Nat BY <2>2, <3>1, Zenon DEF Publishes
      <4>6. \A i, j \in Nat : ~(i <= j) => j < i
        OBVIOUS
      <4> QED BY <4>1, <4>2, <4>4, <4>5, <4>6, Zenon
    <3> QED BY <2>1, <3>3, <3>4, Zenon DEF Above
  <2> QED BY <2>1, <2>3, Zenon DEF LockHeld
<1>4. ASSUME NEW t \in Task, NEW n, NEW o, Sign(t, n, o)
      PROVE  \A u \in Task : task'[u].pc = "checked" => task'[u] = task[u]
  BY <1>4, Zenon DEF Sign, GInv, Published
<1> QED BY <1>1, <1>2, <1>3, <1>4, Cases, Zenon
        DEF Publish, RemoveRelay, AddRelay, CollabPull, PullFails, PullWelcome, vars

\* Within a process a published name only ever moves to a higher sequence
\* number and is never withdrawn, however many commands choose their numbers
\* at the same time: publish_profile, publish_edge and publish_repo check and
\* write under the publish lock.
THEOREM PublishedGoesUp == ASSUME SolePublisher PROVE Spec => PublishedAdvances
<1>1. Init => LockHeld BY DEF Init, LockHeld, Idle
<1>2. Spec => [](GInv /\ LockHeld)
  BY <1>1, InitGenuine, StepGenuine, StepLock, PTL DEF Spec
<1>3. ASSUME GInv, LockHeld, [Next]_vars
      PROVE  \A n \in Node : Advances(tags[n], tags'[n])
  <2>1. CASE \E t \in Task : PublishCommit(t)
    BY <1>3, <2>1, CommitAbove, Zenon DEF Advances
  <2>2. CASE \A t \in Task : ~PublishCommit(t)
    <3>1. Steady BY <1>3, <2>2, OthersSteady, Zenon
    <3> QED BY <3>1, Zenon DEF Steady, Advances
  <2> QED BY <2>1, <2>2, Zenon
<1>4. GInv /\ LockHeld /\ [Next]_vars => [\A n \in Node : Advances(tags[n], tags'[n])]_vars
  BY <1>3, Zenon
<1> QED BY <1>2, <1>4, PTL DEF Spec, PublishedAdvances
=============================================================================
