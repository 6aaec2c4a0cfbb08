---------------------------- MODULE MCGovernance ----------------------------
(***************************************************************************)
(* Instances of Access, Governance and Api for model checking, and the      *)
(* comparisons of the pure algorithms with their reference definitions.     *)
(***************************************************************************)
EXTENDS Api, TLC

CONSTANTS ann, home, peer, k1, k2, kx, px, s1, s2, g0, g1, g2, f1, x1, u1

All == <<"*", "*">>
TaskSymmetry == Permutations({k1, k2})
MCAclInput == {<<"path", <<"s", "/", "*", "*">>>>, <<"path", <<"a">>>>, <<"path", <<".", "e">>>>,
               <<"timeline", <<"m">>>>}
MCNames == {<<"m">>, <<"d">>, <<"c">>, <<"z">>}
MCScoped == {<<"c">>}
MCHeadOf == <<"m">> :> s1 @@ <<"d">> :> s2 @@ <<"c">> :> s1
MCTreeOf == s1 :> {<<"a">>, <<"s", "/", "k">>, <<".", "e">>} @@ s2 :> {<<"a">>}
MCRoleInput == {[kind |-> "path", glob |-> <<"s", "/", "*">>, cap |-> "read"],
                [kind |-> "timeline", glob |-> All, cap |-> "write"]}
MCGrantInput == {[clearances |-> {Clearance("protected", {"read", "write"}, None)},
                  confined |-> TRUE],
                 [clearances |-> {Clearance("public", {"write"}, None),
                                  Clearance("protected", {"read"},
                                            [kind |-> "timeline", glob |-> <<"m">>])},
                  confined |-> FALSE]}
MCHookInput == {[kind |-> "signed-approval", pattern |-> <<"m">>, needed |-> 1]}

MCStarts ==
  {[acl |-> {}, actors |-> ann :> None, hooks |-> {}, approvers |-> kx :> None, pin |-> None],
   [acl |-> {}, actors |-> ann :> None, hooks |-> MCHookInput, approvers |-> kx :> None, pin |-> None],
   [acl |-> {<<"path", <<"s", "/", "*", "*">>>>, <<"timeline", <<"m">>>>},
    actors |-> ann :> {[kind |-> "timeline", glob |-> All, cap |-> "read"]},
    hooks |-> MCHookInput, approvers |-> kx :> px, pin |-> g0]}

MCParentOf == g0 :> None @@ g1 :> g0 @@ g2 :> g1 @@ f1 :> g0 @@ x1 :> g1 @@ u1 :> g1
MCHooksOf == [r \in {g0, g1, g2, f1, x1, u1} |->
                CASE r = g2 -> MCHookInput
                  [] r = x1 -> {[kind |-> "unheard-of", pattern |-> All, needed |-> 1]}
                  [] OTHER -> {}]
MCSignedBy == [r \in {g0, g1, g2, f1, x1, u1} |-> IF r = u1 THEN "stranger" ELSE "anchor"]
MCAnchorsOf == [n \in {home, peer} |-> {"anchor"}]
MCKnownKinds == {"signed-approval", "timeline-policy"}

MCConfig == [tokens |-> "t" :> ann, keys |-> "k" :> ann, mtls |-> "c" :> ann, proxies |-> {"lo"}]
Request(scheme, value, date, verifies, subject, from) ==
  [scheme |-> scheme, value |-> value, date |-> date, verifies |-> verifies,
   subject |-> subject, peer |-> from]
MCRequests ==
  {Request("none", None, 0, FALSE, None, "far"), Request("bearer", "t", 0, FALSE, None, "far"),
   Request("bearer", "old", 0, FALSE, None, "far"), Request("signature", "k", 9, TRUE, None, "far"),
   Request("signature", "k", 2, TRUE, None, "far"), Request("none", None, 0, FALSE, "c", "lo"),
   Request("none", None, 0, FALSE, "c", "far"), Request("malformed", None, 0, FALSE, None, "far")}

-----------------------------------------------------------------------------
Segments == {<<"a">>, <<"a", "b">>, <<"*">>, <<"a", "*">>, <<"*", "b">>, All}
PatternLists == UNION {[1..n -> Segments] : n \in 1..3}
PathLists == UNION {[1..n -> {<<"a">>, <<"b">>, <<"a", "b">>}] : n \in 1..3}

(* The byte-wise matcher (glob_matches) decides exactly the segment-wise    *)
(* meaning its documentation gives to `*' and `**', for every pattern of up  *)
(* to three segments and every path of up to three.                          *)
GlobIsSegmentwise ==
  calls = 0 =>
  \A ps \in PatternLists, ss \in PathLists :
    GlobMatches(Slashed(ps), Slashed(ss)) = SegmentwiseMatches(ps, ss)

(* Every order on four labels given by upward edges, and the orders on six   *)
(* labels with two middle layers, some of which are no lattices.             *)
Four == {"public", "l2", "l3", "l4"}
FourEdges == {<<"public", "l2">>, <<"public", "l3">>, <<"public", "l4">>,
              <<"l2", "l3">>, <<"l2", "l4">>, <<"l3", "l4">>, <<"l4", "l2">>}
SixBase == {<<"public", "l2">>, <<"public", "l3">>, <<"l4", "top">>, <<"l5", "top">>}
MCLattices ==
  {Lattice(Four, c) : c \in SUBSET FourEdges}
    \cup {Lattice(Four \cup {"l5", "top"}, SixBase \cup c) : c \in SUBSET ({"l2", "l3"} \X {"l4", "l5"})}

(* On every lattice that validate accepts, the effective label of a resource *)
(* is the least label above all the rules that match it: it does not depend  *)
(* on the order the rules are stored in, and no rule can lower it.           *)
LabelIsLeastBound ==
  calls = 0 =>
  \A lat \in {l \in MCLattices : Validate(l)} : \A labels \in SUBSET lat.labels :
    LET rules == {Rule("path", <<"a">>, l) : l \in labels}
        label == LabelFor(rules, lat, Resource("path", <<"a">>))
        bounds == {u \in lat.labels : \A l \in labels : Dominates(lat, u, l)}
    IN label \in bounds /\ \A u \in bounds : Dominates(lat, u, label)
=============================================================================
