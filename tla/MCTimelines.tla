---------------------------- MODULE MCTimelines -----------------------------
(***************************************************************************)
(* Two tasks, a fast-forward timeline main, an expired feature branch that *)
(* only one of them may write.                                             *)
(***************************************************************************)
EXTENDS Timelines, TLC

CONSTANTS main, feature, owner, guest, p, q, x, y

\* main is at 1; 2 and 3 change one path each, 3 on the feature branch.
History ==
    << [root |-> (p :> x) @@ (q :> x), parents |-> {}],
       [root |-> (p :> y) @@ (q :> x), parents |-> {1}],
       [root |-> (p :> x) @@ (q :> None), parents |-> {1}] >>
AtStart == (main :> 1) @@ (feature :> 3)

\* guest may write q only while it is not protected.
Grants ==
    (owner :> [public |-> {p, q, main, feature}, protected |-> {p, q, main, feature}]) @@
    (guest :> [public |-> {p, q, main}, protected |-> {p, main}])

OneApproval == (main :> 1) @@ (feature :> 0)
LocalApproval == (main :> 0) @@ (feature :> 1)
\* To main a change or a merge, to feature the other branch or a merge.
Approvals == {<<main, 2>>, <<main, 4>>, <<feature, 2>>, <<feature, 4>>}
Roots == {OneApproval, Unresolvable}
Proposals == {<<feature, main>>, <<main, feature>>}
=============================================================================
