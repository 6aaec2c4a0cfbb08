------------------------------ MODULE MCCollab ------------------------------
(***************************************************************************)
(* Three nodes: 1 and 2 are people, 3 is a relay that starts with an early  *)
(* copy of what 1 and 2 published.  Node 2's published set holds an edge    *)
(* and a repository record that do not verify, as a store copied from       *)
(* elsewhere may.  Node 1 publishes from two tasks of one process.          *)
(***************************************************************************)
EXTENDS Collab, TLC

TaskSymmetry == Permutations(Task)
MCNode == 1..3
MCKeyOf == [n \in MCNode |-> n]
MCRelayMode == [n \in MCNode |-> n = 3]
MCProcOf == [t \in Task |-> 1]
MCWordsInput == <<{{"ann"}, {"bob"}}, {}, {}>>
MCEdgeInput == <<{<<3, "vouch", "cy">>}, {<<3, "follow", "">>}, {}>>
MCRepoInput == <<{"lib"}, {"lib"}, {}>>
MCBoardInput == <<{"news"}, {}, {}>>
MCPinInput == <<{"relay", "peer"}, {}, {}>>
MCPullInput == <<{2, 3}, {1, 3}, {1, 2}>>
MCAnswering == [relay |-> 3, peer |-> 2]
MCTerm == {"ann", "bob", "", "x"}
MCHops == {1, 2}
MCShort == {"", "x"}
MCTimelines == <<{<<1, "lib">>}, {}, {}>>

P1 == SignProfile(1, {"ann"}, 1)
P2 == SignProfile(2, {"bob"}, 1)
P3 == SignProfile(3, {"relay"}, 1)
E12 == SignEdge(1, 2, "follow", "", 1)
E23 == SignEdge(2, 3, "follow", "", 1)
Tampered(o) == [o EXCEPT !.signer = 0]
BadEdge == Tampered(SignEdge(1, 3, "follow", "", 7))
BadRepo == Tampered(SignRepo(2, "lib", 1))

Published(objs) == [name \in {PublicName(o) : o \in objs} |-> CHOOSE o \in objs : PublicName(o) = name]
Cached(objs) == [name \in {Tracking(o) : o \in objs} |-> CHOOSE o \in objs : Tracking(o) = name]
MCStarts ==
  { << Published({P1, E12}), Published({P2, BadEdge, BadRepo}),
       Published({P3}) @@ Cached({P1, E12, P2}) >> }

FollowEdge(a, b) == SignEdge(a, b, "follow", "", 1)
Held == {FollowEdge(a, b) : <<a, b>> \in {x \in (1..4) \X (2..4) : x[1] # x[2]}}
Own == {FollowEdge(1, b) : b \in 2..4}
Stranger == SignProfile(4, {"ann"}, 1)

(* A relay's search answers what the whole aggregate would.  Ranking the     *)
(* objects search_ball selects gives a querier the same strangers with the   *)
(* same trust paths as ranking everything the relay holds, when the edges    *)
(* the querier adds are its own.  Self is 1, the stranger searched for is 4, *)
(* and the relay holds any set of follows among the four, none into 1.       *)
(* (A fact about the algorithm: it is evaluated in the initial state.)       *)
SearchFindsAll ==
  calls = 0 =>
  \A held \in SUBSET Held, own \in SUBSET Own, hops \in 1..3 :
    LET corpus == held \cup {Stranger}
    IN RankStrangers(1, own, ServeSearch(corpus, "ann", hops).objects, "ann", hops)
         = RankStrangers(1, own, corpus, "ann", hops)
=============================================================================
