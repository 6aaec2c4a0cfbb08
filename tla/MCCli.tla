------------------------------- MODULE MCCli -------------------------------
(* The command line's own state: the secret and environment registries, the *)
(* linked worktrees, the working trees, and the exchange with git.  The     *)
(* four share no state, so each behaviour exercises one of them.            *)
EXTENDS Secrets, Worktrees, Workspace, GitBridge

VARIABLE part

\* A new repository, without the secrets of an earlier release.
NoSecrets ==
    /\ store = {} /\ secrets = Saved(Empty) /\ envs = Saved(Empty)
    /\ stored = {} /\ vault = Empty /\ bound = Empty /\ retired = {}
    /\ proc = [t \in Process |-> Idle]
    /\ fresh = 1 /\ commands = 0 /\ crashes = 0 /\ overlaps = 0

CliInit ==
    /\ part \in {"secrets", "worktrees", "files", "git"}
    /\ IF part = "secrets" THEN Init ELSE NoSecrets
    /\ WInit /\ FInit /\ GInit

SecretsStep == part = "secrets" /\ Next /\ UNCHANGED <<part, wvars, fvars, gvars>>
WorktreesStep == part = "worktrees" /\ WNext /\ UNCHANGED <<part, vars, fvars, gvars>>
FilesStep == part = "files" /\ FNext /\ UNCHANGED <<part, vars, wvars, gvars>>
GitStep == part = "git" /\ GNext /\ UNCHANGED <<part, vars, wvars, fvars>>

CliNext == SecretsStep \/ WorktreesStep \/ FilesStep \/ GitStep

CliSpec == CliInit /\ [][CliNext]_<<part, vars, wvars, fvars, gvars>>

-----------------------------------------------------------------------------
MCNames == <<"a", "b">>
MCEnv == {"dev", "ops"}
MCVar == {"X", "Y"}
K1 == <<"env", "k1">>
K2 == <<"file", "k2">>
MCProvider == {K1, K2}
MCLegacyValue == {"u"}
MCLabel == [n \in {"a", "b"} |-> IF n = "a" THEN "private" ELSE "public"]
MCLegacy == {"b"}
MCLegacyEnv == [e \in {"dev"} |-> [x \in {"X"} |-> "b"]]
MCInputs == [
    store  |-> {[name |-> "a", key |-> K1, value |-> "w"],
                [name |-> "b", key |-> K1, value |-> "w"]},
    share  |-> {[name |-> "a", key |-> K1, to |-> {K2}, value |-> "u"]},
    grant  |-> {[name |-> n, key |-> K1, to |-> K2] : n \in {"a", "b"}},
    revoke |-> {[name |-> "a", to |-> k] : k \in {K1, K2}},
    rekey  |-> {[all |-> TRUE, names |-> <<>>, old |-> K1, new |-> K2],
                [all |-> FALSE, names |-> <<"b">>, old |-> K1, new |-> K2]},
    set    |-> {[env |-> "dev", var |-> "Y", value |-> "u"]},
    bind   |-> {[env |-> "dev", var |-> "X", name |-> n] : n \in {"a", "b"}}]
ProcessSymmetry == Permutations(Process)

\* Two places with the same file name, so that ids collide.
MCDir == {"d1", "d2", "d3"}
MCBase == [d \in MCDir |-> IF d = "d3" THEN "y" ELSE "x"]
MCIds == <<<<"x", 1>>, <<"x", 2>>, <<"x", 3>>, <<"x", 4>>, <<"y", 1>>, <<"y", 2>>, <<"y", 3>>>>

\* A file, a directory of the same name, and an ignored file.
MCPath == {<<"a">>, <<"a", "b">>, <<"c">>}
MCIgnored == {<<"c">>}

\* Two branches that sanitize to one name, and a tag of that name; a branch
\* with a timeline of its own.
MCGitRefs == <<<<"heads", ".m">>, <<"heads", "_m">>, <<"heads", "v">>, <<"tags", "_m">>>>
MCSanitized == [x \in {".m", "_m", "v"} |-> IF x = ".m" THEN "_m" ELSE x]
MCFileSets == {{"f", "s"}}
Import(only, policy, force, dry, rules) ==
    [only |-> only, policy |-> policy, force |-> force, dry |-> dry, rules |-> rules]
MCOptions == {Import({".m", "_m"}, "ff", FALSE, FALSE, TRUE),
              Import({".m", "v"}, "unrestricted", TRUE, FALSE, FALSE),
              Import({".m", "_m"}, "ff", FALSE, TRUE, FALSE)}
\* The command line exports without the map; the library offers both.
MCExports == {[mapped |-> TRUE, cleared |-> FALSE], [mapped |-> FALSE, cleared |-> TRUE]}
=============================================================================
