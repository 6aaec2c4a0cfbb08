------------------------------- MODULE Access -------------------------------
(***************************************************************************)
(* Who may read and write what: glob patterns, the label lattice, label    *)
(* rules, clearances and the accessor that evaluates them (src/src/acl/),  *)
(* and the filtered views the repository computes from them                *)
(* (src/src/repo/mod.rs).  Everything here is a pure operator; Governance   *)
(* supplies the state the operators are applied to.                         *)
(*                                                                         *)
(* A path, a ref name, a secret name and a glob are sequences of one-       *)
(* character strings.  A lattice is a record [labels, cover].  A rule is    *)
(* [kind, glob, label]; a clearance is [ceiling, caps, scope], its scope    *)
(* None or [kind, glob]; an accessor is [lattice, rules, clearances,        *)
(* confined].  Rule lists and clearance lists are sets: the order of rules  *)
(* does not matter (LabelIsLeastBound), nor does that of clearances.        *)
(***************************************************************************)
EXTENDS Integers, Sequences, FiniteSets, FiniteSetsExt, SequencesExt

CONSTANTS None,      \* no scope, no parent, no grant
          MaxGlobLen \* MAX_GLOB_LEN, longer patterns and paths match nothing

-----------------------------------------------------------------------------
(* Globs.  m[i, j]: the pattern from position i on matches the text from    *)
(* position j on.  The memo of failed states in the code is a cache of m.   *)
(* `**/' stands for zero or more whole segments.                            *)
NeverOpens == <<"*", "*", "/", "/">>
Opening == <<"*", "*", "/">>
GlobMatches(pat, s) ==
  LET np == Len(pat)
      ns == Len(s)
      At(i, t) == i + Len(t) - 1 <= np /\ SubSeq(pat, i, i + Len(t) - 1) = t
      m[i \in 1..(np + 4), j \in 1..(ns + 2)] ==
        IF i > np THEN j > ns
        ELSE IF At(i, Opening)
          THEN m[i + 3, j] \/ \E k \in j..ns : s[k] = "/" /\ m[i, k + 1]
        ELSE IF At(i, <<"*", "*">>)
          THEN \/ m[i + 2, j]
               \/ \E k \in j..ns : s[k] = "/" /\ m[i + 2, k + 1]
               \/ m[i + 2, ns + 1]
        ELSE IF pat[i] = "*"
          THEN \E k \in j..(ns + 1) : m[i + 1, k] /\ \A l \in j..(k - 1) : s[l] # "/"
        ELSE j <= ns /\ pat[i] = s[j] /\ m[i + 1, j + 1]
  IN np <= MaxGlobLen /\ ns <= MaxGlobLen /\ m[1, 1]

(* What the matcher is meant to compute, segment by segment: a pattern is   *)
(* a list of segments, `**' stands for any run of segments (a non-empty one *)
(* at the end of the pattern), any other segment for one segment that it    *)
(* matches character by character, with `*' for any run of characters.      *)
SegmentMatches(p, s) ==
  \E cut \in [0..Len(p) -> 0..Len(s)] :
    /\ cut[0] = 0
    /\ cut[Len(p)] = Len(s)
    /\ \A i \in 1..Len(p) : IF p[i] = "*" THEN cut[i] >= cut[i - 1]
                            ELSE cut[i] = cut[i - 1] + 1 /\ s[cut[i]] = p[i]

SegmentwiseMatches(ps, ss) ==
  \E cut \in [0..Len(ps) -> 0..Len(ss)] :
    /\ cut[0] = 0
    /\ cut[Len(ps)] = Len(ss)
    /\ \A i \in 1..Len(ps) :
         IF ps[i] = <<"*", "*">>
           THEN cut[i] >= cut[i - 1] + (IF i = Len(ps) THEN 1 ELSE 0)
           ELSE cut[i] = cut[i - 1] + 1 /\ SegmentMatches(ps[i], ss[cut[i]])

Slashed(segments) ==
  FoldLeft(LAMBDA text, seg : IF text = <<>> THEN seg ELSE text \o <<"/">> \o seg,
           <<>>, segments)

-----------------------------------------------------------------------------
(* The lattice of labels.  An edge <<lo, hi>> of the cover says hi is at     *)
(* least as restrictive as lo; a dominates b when upward steps lead from b   *)
(* to a, that is when a lies in every upward closed set that holds b.        *)
Lattice(labels, cover) == [labels |-> labels, cover |-> cover]

TwoPoint == Lattice({"public", "protected"}, {<<"public", "protected">>})

Dominates(lat, a, b) ==
  LET nodes == lat.labels \cup UNION {{e[1], e[2]} : e \in lat.cover}
  IN \/ a = b
     \/ /\ a \in nodes /\ b \in nodes
        /\ \A up \in SUBSET nodes :
             (b \in up /\ \A e \in lat.cover : e[1] \in up => e[2] \in up) => a \in up

StrictlyDominates(lat, a, b) == a # b /\ Dominates(lat, a, b)

Uppers(lat, a, b) == {l \in lat.labels : Dominates(lat, l, a) /\ Dominates(lat, l, b)}
Lowers(lat, a, b) == {l \in lat.labels : Dominates(lat, a, l) /\ Dominates(lat, b, l)}
Leasts(lat, ls) == {c \in ls : \A o \in ls : Dominates(lat, o, c)}
Greatests(lat, ls) == {c \in ls : \A o \in ls : Dominates(lat, c, o)}
FirstOf(ls, default) == IF ls = {} THEN default ELSE CHOOSE l \in ls : TRUE

Bottom(lat) == FirstOf(Leasts(lat, lat.labels), "public")
Top(lat) == FirstOf(Greatests(lat, lat.labels), "public")
SomeUpper(lat, a, b) == FirstOf(Uppers(lat, a, b), Top(lat))
Join(lat, a, b) == FirstOf(Leasts(lat, Uppers(lat, a, b)), Top(lat))
Meet(lat, a, b) == FirstOf(Greatests(lat, Lowers(lat, a, b)), Bottom(lat))

Validate(lat) ==
  /\ lat.labels # {}
  /\ \A e \in lat.cover : e[1] \in lat.labels /\ e[2] \in lat.labels
  /\ \A a, b \in lat.labels : Dominates(lat, a, b) /\ Dominates(lat, b, a) => a = b
  /\ Cardinality(Leasts(lat, lat.labels)) = 1
  /\ Cardinality(Greatests(lat, lat.labels)) = 1
  /\ \A a, b \in lat.labels : /\ Cardinality(Leasts(lat, Uppers(lat, a, b))) = 1
                             /\ Cardinality(Greatests(lat, Lowers(lat, a, b))) = 1

-----------------------------------------------------------------------------
(* The effective label of a resource: the join of the labels of every rule  *)
(* of its kind that matches it, from the bottom up.  A resource is           *)
(* [kind, name].                                                             *)
Resource(kind, name) == [kind |-> kind, name |-> name]
Rule(kind, glob, label) == [kind |-> kind, glob |-> glob, label |-> label]

Matching(rules, r) == {x \in rules : x.kind = r.kind /\ GlobMatches(x.glob, r.name)}

LabelFor(rules, lat, r) ==
  FoldSet(LAMBDA x, acc : Join(lat, acc, x.label), Bottom(lat), Matching(rules, r))

(* Every backend derives its rules from the stored ACLs: one "protected"     *)
(* rule for each listed path, timeline and secret pattern.                   *)
RuleSet(listed) == {Rule(l[1], l[2], "protected") : l \in listed}

-----------------------------------------------------------------------------
(* Clearances and the accessor.                                             *)
Clearance(ceiling, caps, scope) == [ceiling |-> ceiling, caps |-> caps, scope |-> scope]

ScopeApplies(scope, r) ==
  scope = None \/ (scope.kind = r.kind /\ GlobMatches(scope.glob, r.name))

FromParts(lat, rules, clearances, confined) ==
  [lattice |-> lat, rules |-> rules, clearances |-> clearances, confined |-> confined]

NewAccessor == FromParts(TwoPoint, {}, {}, FALSE)

(* A role adds a "protected" rule to the accessor's own rules and a scoped   *)
(* clearance at "protected".  A role is [kind, glob, cap].                   *)
WithRole(acc, role) ==
  [acc EXCEPT
     !.rules = @ \cup {Rule(role.kind, role.glob, "protected")},
     !.clearances = @ \cup {Clearance("protected", {role.cap},
                                      [kind |-> role.kind, glob |-> role.glob])}]

Privileged == FromParts(TwoPoint, {}, {Clearance(Top(TwoPoint), {"read"}, None)}, FALSE)

HasWriteCapability(acc) == \E c \in acc.clearances : "write" \in c.caps

Clears(acc, c, cap, label, r) ==
  cap \in c.caps /\ ScopeApplies(c.scope, r) /\ Dominates(acc.lattice, c.ceiling, label)

CanRead(acc, label, r) == \E c \in acc.clearances : Clears(acc, c, "read", label, r)

CanWrite(acc, label, r) ==
  /\ \E c \in acc.clearances : Clears(acc, c, "write", label, r)
  /\ acc.confined =>
       \E c \in acc.clearances : /\ Clears(acc, c, "write", label, r)
                               /\ ~StrictlyDominates(acc.lattice, c.ceiling, label)

(* The checks an accessor makes under its own rules rather than the          *)
(* repository's.                                                             *)
CanReadOwn(acc, r) == CanRead(acc, LabelFor(acc.rules, acc.lattice, r), r)
CanWriteOwn(acc, r) == CanWrite(acc, LabelFor(acc.rules, acc.lattice, r), r)

NeverBlocked(acc, cap, qualified) == FALSE
WriteBlocked(acc, cap, qualified) ==
  qualified # {} /\ cap = "write" /\ acc.confined /\ \A e \in qualified : e.strictly

(* The instrumented evaluation behind `explain': how every clearance fared,  *)
(* the verdict, and whether the no-write-down rule alone refused.            *)
EvalCap(acc, cap, label, r) ==
  LET evals == {[applies |-> ScopeApplies(c.scope, r), grants |-> cap \in c.caps,
                 dominates |-> Dominates(acc.lattice, c.ceiling, label),
                 strictly |-> StrictlyDominates(acc.lattice, c.ceiling, label)]
                  : c \in acc.clearances}
      qualified == {e \in evals : e.grants /\ e.applies /\ e.dominates}
      blocked == WriteBlocked(acc, cap, qualified)
  IN [allowed |-> qualified # {} /\ ~blocked, blocked |-> blocked]

Explain(acc, label, r) ==
  [read |-> EvalCap(acc, "read", label, r), write |-> EvalCap(acc, "write", label, r)]

=============================================================================
