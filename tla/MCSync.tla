------------------------------- MODULE MCSync -------------------------------
(***************************************************************************)
(* Two clients of one server, which start from diverged work or from      *)
(* nothing.  s1 is the history both start from; s2 and s3 diverge from it. *)
(***************************************************************************)
EXTENDS Sync, TLC

CONSTANTS a, b, main, mine, pol, s1, s2, s3, t1, t2, t3

Graph == (s1 :> {t1}) @@ (s2 :> {s1, t2}) @@ (s3 :> {s1, t3}) @@
         (t1 :> {}) @@ (t2 :> {}) @@ (t3 :> {})
\* mine stands for refs/users/<a>/..., pol for a name under refs/policy/.
Owners == (main :> None) @@ (mine :> a) @@ (pol :> None)
HubNames == [c \in {a, b} |-> (main :> mine) @@ (mine :> mine) @@ (pol :> pol)]
Reads == (a :> {main, mine, pol}) @@ (b :> {main, mine})
\* b is anonymous over HTTP.
Writers == (a :> [via \in Transport |-> {main, pol}]) @@
          (b :> [via \in Transport |-> IF via = "http" THEN {} ELSE {main}])
Pushes == {{main, pol}}
NoHead == [n \in {main, mine, pol} |-> None]
MainAt(s) == [NoHead EXCEPT ![main] = s]
Pair(x, y, z) == (a :> x) @@ (b :> y) @@ (Server :> z)
\* Two clients whose work has diverged, one of which lacks an object since a
\* fetch from elsewhere broke off; and a client that knows nothing yet.
Diverged ==
    [store |-> Pair({s1, t1, s2, t2}, {s1, t1, s3}, {s1, t1}),
     head |-> Pair([MainAt(s2) EXCEPT ![pol] = s1], MainAt(s3), MainAt(s1)),
     tracking |-> (a :> MainAt(s1)) @@ (b :> MainAt(s1))]
Fresh ==
    [store |-> Pair({s1, t1}, {}, {s1, t1}), head |-> Pair(MainAt(s1), NoHead, MainAt(s1)),
     tracking |-> (a :> NoHead) @@ (b :> NoHead)]
WholeStart == {[Diverged EXCEPT !.store[b] = @ \cup {t3}]}
BothStarts == {Diverged, Fresh}
=============================================================================
