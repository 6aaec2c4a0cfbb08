----------------------------- MODULE Discovery -----------------------------
(***************************************************************************)
(* Signed collaboration objects and what is computed from sets of them:     *)
(* the trust graph, petnames, the discovery index, the ranking of strangers *)
(* and the search a relay answers (src/src/collab/).  Everything here is a  *)
(* pure operator; Collab supplies the state.                                *)
(*                                                                         *)
(* A key is a number; numbers are ordered as the code orders keys.  An      *)
(* object is a record with the key it claims (from), the key whose          *)
(* signature it carries (signer), a sequence number where it has one, and   *)
(* its content.  The text a search looks through is the set of terms that   *)
(* occur in it (words).  A petname of "" is no petname.                      *)
(***************************************************************************)
EXTENDS Naturals, Sequences, FiniteSets, FiniteSetsExt

CONSTANTS MaxSearchHops,  \* MAX_SEARCH_HOPS
          ShortTerms      \* terms under MIN_SEARCH_TERM_LEN

-----------------------------------------------------------------------------
(* Objects.  A signature covers every field and is bound to its type.       *)
SignProfile(k, words, seq) ==
  [type |-> "profile", from |-> k, words |-> words, seq |-> seq, signer |-> k]
SignEdge(k, to, kind, petname, seq) ==
  [type |-> "edge", from |-> k, to |-> to, kind |-> kind, petname |-> petname, seq |-> seq,
   signer |-> k]
SignRepo(k, name, seq) ==
  [type |-> "repo", from |-> k, name |-> name, seq |-> seq, signer |-> k]
SignProposal(k, source, target) ==
  [type |-> "proposal", from |-> k, source |-> source, target |-> target, signer |-> k]
SignComment(k, proposal, resolves) ==
  [type |-> "comment", from |-> k, proposal |-> proposal, resolves |-> resolves, signer |-> k]
SignPost(k, board, parent) ==
  [type |-> "post", from |-> k, board |-> board, parent |-> parent, signer |-> k]

VerifyProfile(o) == o.type = "profile" /\ o.signer = o.from
VerifyEdge(o) == o.type = "edge" /\ o.signer = o.from
VerifyRepo(o) == o.type = "repo" /\ o.signer = o.from
VerifyProposal(o) == o.type = "proposal" /\ o.signer = o.from
VerifyComment(o) == o.type = "comment" /\ o.signer = o.from
VerifyPost(o) == o.type = "post" /\ o.signer = o.from
Verified(o) == VerifyProfile(o) \/ VerifyEdge(o)

Profiles(objs) == {o \in objs : o.type = "profile"}
Edges(objs) == {o \in objs : o.type = "edge"}

-----------------------------------------------------------------------------
(* Breadth-first search from root over links, at most hops steps.  Each key  *)
(* found is mapped to its path, the keys after root; the parent of a key is  *)
(* the first in the queue that leads to it.  Keys of one level are queued in *)
(* the order of their paths, as trust_path does; follow_paths queues them in *)
(* storage order, and nothing is claimed of which shortest path it takes.    *)
Earlier(p, q) ==
  \E i \in 1..Len(p) : p[i] < q[i] /\ \A j \in 1..(i - 1) : p[j] = q[j]

Search(root, hops, links) ==
  LET level[d \in 0..hops] ==
        IF d = 0 THEN [k \in {root} |-> <<>>]
        ELSE LET seen == level[d - 1]
                 last == {k \in DOMAIN seen : Len(seen[k]) = d - 1}
                 found == {l[2] : l \in {x \in links : x[1] \in last}} \ DOMAIN seen
                 Parent(v) == CHOOSE k \in last :
                                /\ <<k, v>> \in links
                                /\ \A j \in last : <<j, v>> \in links => ~Earlier(seen[j], seen[k])
             IN [v \in DOMAIN seen \cup found |->
                   IF v \in DOMAIN seen THEN seen[v] ELSE Append(seen[Parent(v)], v)]
  IN level[hops]

Links(edges, kinds) == {<<e.from, e.to>> : e \in {x \in edges : x.kind \in kinds}}

Follows(edges, k) == {e.to : e \in {x \in edges : x.kind = "follow" /\ x.from = k}}

(* The keys within reach, with their distances; the root is left out.        *)
FollowNeighborhood(edges, root, hops) ==
  LET paths == Search(root, hops, Links(edges, {"follow"}))
  IN [k \in DOMAIN paths \ {root} |-> Len(paths[k])]

(* ... and with their paths, root first.                                     *)
FollowPaths(edges, root, hops) ==
  LET paths == Search(root, hops, Links(edges, {"follow"}))
  IN [k \in DOMAIN paths \ {root} |-> <<root>> \o paths[k]]

(* Petnames: the root's own vouches, then those of the keys it follows.      *)
VouchSuggestions(edges, root, target) ==
  LET by(k) == {e \in edges : e.kind = "vouch" /\ e.from = k /\ e.to = target /\ e.petname # ""}
  IN {[petname |-> e.petname, depth |-> 1, path |-> <<root>>] : e \in by(root)}
       \cup UNION {{[petname |-> e.petname, depth |-> 2, path |-> <<root, k>>] : e \in by(k)}
                     : k \in Follows(edges, root)}

(* Resolution is local name, shallowest suggestion, fingerprint.  Which of    *)
(* several suggestions of one depth is taken depends on storage order.        *)
Resolve(local, edges, root, key) ==
  LET found == VouchSuggestions(edges, root, key)
      best == {s \in found : \A u \in found : s.depth <= u.depth}
  IN IF key \in DOMAIN local THEN [via |-> "local", name |-> local[key]]
     ELSE IF found # {} THEN [via |-> "vouch", name |-> (CHOOSE s \in best : TRUE).petname]
     ELSE [via |-> "fingerprint", name |-> ""]

(* An alias is verified when its domain asserts exactly this key.            *)
VerifyAlias(asserted, alias, key) ==
  IF alias \in DOMAIN asserted /\ asserted[alias] = key THEN "verified" ELSE "claimed"

(* Neighbours over follows and vouches; a vouch is recorded before a follow. *)
Trusted(edges) == Links(edges, {"follow", "vouch"})
Via(edges, j, k) ==
  IF \E e \in edges : e.kind = "vouch" /\ e.from = j /\ e.to = k THEN "vouch" ELSE "follow"

NoPath == [found |-> FALSE, hops |-> <<>>]
TrustPath(edges, root, target, hops) ==
  LET paths == Search(root, hops, Trusted(edges))
      before(p, i) == IF i = 1 THEN root ELSE p[i - 1]
  IN IF target \notin DOMAIN paths THEN NoPath
     ELSE LET p == paths[target]
          IN [found |-> TRUE,
              hops |-> [i \in DOMAIN p |-> [key |-> p[i], via |-> Via(edges, before(p, i), p[i])]]]

-----------------------------------------------------------------------------
(* The local index: own objects at distance 0, those of reached authors at   *)
(* theirs.  pulled is a set of [distance, path, objects].                    *)
IndexMatches(o, term) ==
  \/ term = ""
  \/ o.type = "profile" /\ term \in o.words
  \/ o.type = "edge" /\ o.petname = term

IndexBuild(root, own, pulled) ==
  {[key |-> o.from, object |-> o, distance |-> 0, path |-> <<root>>] : o \in own}
    \cup UNION {{[key |-> o.from, object |-> o, distance |-> p.distance, path |-> p.path]
                   : o \in p.objects} : p \in pulled}

(* The hits; their order, nearest and then newest first, is presentation.    *)
IndexQuery(index, term) == {r \in index : IndexMatches(r.object, term)}

(* gather: the neighbourhood's sources that answer, verified; sources maps    *)
(* the keys that answer to what they serve.                                   *)
Gather(root, own, edges, hops, sources) ==
  LET near == FollowNeighborhood(edges, root, hops)
  IN IndexBuild(root, {o \in own : Verified(o)},
       {[distance |-> near[k], path |-> <<root, k>>, objects |-> {o \in sources[k] : Verified(o)}]
          : k \in DOMAIN near \cap DOMAIN sources})

-----------------------------------------------------------------------------
(* Strangers.  A hit is ranked by its path to the querier.                   *)
ProfileMatches(p, term) == term \in p.words

RankStrangers(self, own, corpus, term, hops) ==
  {[key |-> p.from, path |-> TrustPath(own \cup Edges(corpus), self, p.from, hops), relays |-> {}]
     : p \in {q \in Profiles(corpus) : ProfileMatches(q, term)}}

HasVouch(path) == \E i \in DOMAIN path.hops : path.hops[i].via = "vouch"

(* The key stands for the display name and the fingerprint compared last.    *)
RankBefore(a, b) ==
  LET rank(h) == <<IF h.path.found THEN 0 ELSE 1, Len(h.path.hops),
                   IF HasVouch(h.path) THEN 0 ELSE 1, h.key>>
  IN Earlier(rank(a), rank(b))

(* Several relays: profiles are merged by key, the highest seq wins; edges   *)
(* by content.  perRelay maps a relay's key to the objects it returned.      *)
RankStrangersMulti(self, own, perRelay, term, hops) ==
  LET all == UNION {perRelay[r] : r \in DOMAIN perRelay}
      best == {p \in Profiles(all) : \A q \in Profiles(all) : q.from = p.from => q.seq <= p.seq}
      ServedBy(k) == {r \in DOMAIN perRelay : \E p \in Profiles(perRelay[r]) : p.from = k}
  IN {[h EXCEPT !.relays = ServedBy(h.key)] : h \in RankStrangers(self, own, best \cup Edges(all), term, hops)}

(* What a relay selects: the matching profiles, and every edge on a path of  *)
(* at most hops edges into one of them.                                      *)
Forward(edges) == {<<e.from, e.to>> : e \in edges}
Incoming(edges) == {<<e.to, e.from>> : e \in edges}

SearchBall(corpus, term, hops) ==
  LET edges == Edges(corpus)
      matched == {p \in Profiles(corpus) : ProfileMatches(p, term)}
      ball(p) == IF hops = 0 THEN {}
                 ELSE {e \in edges :
                         e.to \in DOMAIN Search(p.from, hops - 1, Incoming(edges))}
  IN matched \cup UNION {ball(p) : p \in matched}

(* The relay's answer to a search, or the refusal of a term that is too      *)
(* short; the hops asked for are clamped.                                    *)
ServeSearch(corpus, term, hops) ==
  IF term \in ShortTerms THEN [error |-> TRUE, objects |-> {}]
  ELSE [error |-> FALSE,
        objects |-> SearchBall(corpus, term, IF hops < MaxSearchHops THEN hops ELSE MaxSearchHops)]
=============================================================================
