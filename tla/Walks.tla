------------------------------- MODULE Walks --------------------------------
(***************************************************************************)
(* Reachability in a graph of content-addressed objects, which the code    *)
(* computes with a stack and a visited set wherever it needs it.           *)
(***************************************************************************)

\* What a walk from each node visits; edges[o] is what node o leads to.
Walk(nodes, edges) ==
    LET walk[o \in nodes] == {o} \cup UNION {walk[e] : e \in edges[o]}
    IN  walk
=============================================================================
