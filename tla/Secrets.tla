------------------------------ MODULE Secrets ------------------------------
(***************************************************************************)
(* Encrypted secrets, environment overlays and the command line's name     *)
(* registries (object/secret.rs, crypto/, store/mod.rs, repo/mod.rs,       *)
(* bole-cli registry.rs, key.rs, commands/{secret,env,run,store}.rs).      *)
(*                                                                         *)
(* An object id is the hash of the object, so an object here is its own    *)
(* id.  Encryption draws a random data key and nonces: `fresh' numbers     *)
(* them, which makes two encryptions of one value two objects.  The        *)
(* registries secrets.json and envs.json are read, changed and written     *)
(* back by each command without a lock; a write truncates the file first,  *)
(* so a crash inside it leaves a file that no longer parses.               *)
(***************************************************************************)
EXTENDS Naturals, Sequences, FiniteSets, Functions, SequencesExt

CONSTANTS
    NameOrder,   \* the secret names, in the registry's (sorted) order
    Env,         \* overlay names
    Var,         \* environment variables of an overlay
    Provider,    \* key providers <<source, key>>: the key_ref and the key
    LabelOf,     \* [name -> label of the name under the label rules]
    Bottom,      \* the public label
    Legacy,      \* names an earlier release stored as v1 secrets, under
    LegacyKey,   \* this provider's key,
    LegacyValue, \* with one of these plaintexts each,
    LegacyEnv,   \* and the overlays it left: [env -> [var -> name]]
    Inputs,      \* [command -> the arguments it is given]
    Process,     \* command-line processes
    MaxCommands, \* bound: commands started
    MaxOverlaps, \* bound: commands started while another is in progress
    MaxCrashes   \* bound: processes killed

VARIABLES
    store,     \* the objects in the object store
    secrets,   \* secrets.json: [ok |-> it parses, map |-> name -> secret]
    envs,      \* envs.json:    [ok |-> it parses, map |-> name -> overlay]
    proc,      \* [Process -> the command in progress]
    fresh,     \* random values drawn so far
    commands,  \* commands started
    crashes,   \* processes killed
    stored,    \* history: <<name, value>> ever stored, <<env, var, value>> ever set
    overlaps,  \* history: commands started while another was in progress
    vault,     \* history: what the finished secret commands promised
    bound,     \* history: what the finished env commands promised
    retired    \* history: objects a finished rekey replaced

vars == <<store, secrets, envs, proc, fresh, commands, crashes, stored, overlaps,
          vault, bound, retired>>

Name == ToSet(NameOrder)
Idle == [pc |-> "idle"]
Empty == [x \in {} |-> x]

-----------------------------------------------------------------------------
(* Keys and secret objects.  A wrap is <<source, key, nonce>>; the data key *)
(* it holds, the value's nonce and its ciphertext are the number `enc'.     *)

\* LocalKeyProvider::wrap_dk: the active key wraps the data key, under a nonce.
WrapDk(p, nonce) == <<p[1], p[2], nonce>>

\* A wrap is named by its key_ref: where the key came from and its fingerprint.
KeyRef(w) == <<w[1], w[2]>>

\* ProviderChain::unwrap: the provider with the wrap's key_ref is preferred, but
\* every provider is tried, so the key decides and the source does not.
Unwraps(p, w) == p[2] = w[2]

\* Secret::decrypt, SecretV2::decrypt, MultiRecipientSecret::decrypt: some wrap
\* opens.  A v1 secret is encrypted under the raw key itself.
Decrypts(p, o) == \E w \in o.wraps : Unwraps(p, w)

EncryptV1(v, p, n) ==
    [kind |-> "v1", enc |-> n, value |-> v, label |-> "none", wraps |-> {WrapDk(p, n)}]

\* SecretV2::encrypt_envelope: a fresh data key, wrapped for one provider.
EncryptEnvelope(v, p, l, n) ==
    [kind |-> "v2", enc |-> n, value |-> v, label |-> l, wraps |-> {WrapDk(p, n)}]

\* MultiRecipientSecret::encrypt_for: one data key, a wrap for each recipient.
EncryptFor(v, ps, l, n) ==
    [kind |-> "multi", enc |-> n, value |-> v, label |-> l,
     wraps |-> {WrapDk(p, n) : p \in ps}]

\* SecretV2::rewrap: only the wrap changes.
Rewrap(o, p, n) == [o EXCEPT !.wraps = {WrapDk(p, n)}]

\* MultiRecipientSecret::grant: nothing happens when the key_ref has a wrap.
AddRecipient(o, p, n) ==
    IF \E w \in o.wraps : KeyRef(w) = p THEN o
    ELSE [o EXCEPT !.wraps = @ \cup {WrapDk(p, n)}]

\* MultiRecipientSecret::revoke: every wrap with the key_ref goes.
DropRecipient(o, ref) == [o EXCEPT !.wraps = {w \in @ : KeyRef(w) # ref}]

\* secret_aad: the label of the name, left out when it is public.
SecretAad(n) == IF LabelOf[n] = Bottom THEN "none" ELSE LabelOf[n]

-----------------------------------------------------------------------------
(* Operations of the object store on secrets.  The result is a set: empty   *)
(* when the operation returns an error.                                     *)

\* grant_secret_recipient: an envelope secret becomes a multi-recipient one for
\* the granter and the newcomer; a multi-recipient one gains a wrap.
GrantSecretRecipient(o, granter, p, n) ==
    CASE o \notin store \/ ~Decrypts(granter, o) -> {}
      [] o.kind = "multi" -> {AddRecipient(o, p, n)}
      [] o.kind = "v2"    -> {EncryptFor(o.value, {granter, p}, o.label, n)}
      [] OTHER            -> {}

\* revoke_secret_recipient: not for the last recipient, nor for a stranger.
RevokeSecretRecipient(o, ref) ==
    IF o \in store /\ o.kind = "multi" /\ (\E w \in o.wraps : KeyRef(w) = ref)
                   /\ (\E w \in o.wraps : KeyRef(w) # ref)
    THEN {DropRecipient(o, ref)}
    ELSE {}

\* get_secret_resolved: what `reveal' and the overlays decrypt.
GetSecretResolved(o, p) == IF o \in store /\ Decrypts(p, o) THEN {o.value} ELSE {}

\* get_secret: the v1 path, the only one compute_workspace_view knows.
GetSecret(o, p) == IF o.kind = "v1" THEN GetSecretResolved(o, p) ELSE {}

\* Repository::rekey, one object: re-wrapped, or upgraded when it is v1; an
\* upgrade carries no label.
RekeyOne(o, old, new, n) ==
    CASE o \notin store \/ ~Decrypts(old, o) -> {}
      [] o.kind = "v2" -> {Rewrap(o, new, n)}
      [] o.kind = "v1" -> {EncryptEnvelope(o.value, new, "none", n)}
      [] OTHER         -> {}

\* Repository::rekey, all of them: ids[i] draws the random number n + i.  The
\* objects before the first failure are stored; the mapping is only returned
\* when none fails.
RekeyedPrefix(ids, old, new, n) ==
    LET good == {k \in 0..Len(ids) :
                    \A i \in 1..k : RekeyOne(ids[i], old, new, n + i) # {}}
    IN  CHOOSE k \in good : \A j \in good : j <= k

RekeyedAt(ids, i, old, new, n) == CHOOSE o \in RekeyOne(ids[i], old, new, n + i) : TRUE

-----------------------------------------------------------------------------
(* Overlays: a map from variables to plain values or secret ids.            *)

Plain(v) == [plain |-> v]
SecretRef(o) == [secret |-> o]
IsSecret(e) == "secret" \in DOMAIN e
Overlay(entries) == [kind |-> "overlay", entries |-> entries]

\* resolve_overlay: plain entries always, a secret when the accessor is cleared
\* for the variable's label; the first refusal or failure ends it, unless
\* skip_unauthorized leaves uncleared variables out.
ResolveOverlay(o, p, cleared, skip) ==
    LET ent == o.entries
        hidden == {x \in DOMAIN ent : IsSecret(ent[x]) /\ x \notin cleared}
        shown == DOMAIN ent \ hidden
        opens == \A x \in shown :
                    IsSecret(ent[x]) => GetSecretResolved(ent[x].secret, p) # {}
    IN  IF o \in store /\ (skip \/ hidden = {}) /\ opens
        THEN {[x \in shown |-> IF IsSecret(ent[x]) THEN ent[x].secret.value
                               ELSE ent[x].plain]}
        ELSE {}

\* compute_workspace_view: every secret must be a v1 secret under the one key.
WorkspaceEnv(o, p) ==
    IF o \in store /\ \A x \in DOMAIN o.entries :
            IsSecret(o.entries[x]) => GetSecret(o.entries[x].secret, p) # {}
    THEN {[x \in DOMAIN o.entries |->
             IF IsSecret(o.entries[x]) THEN o.entries[x].secret.value
             ELSE o.entries[x].plain]}
    ELSE {}

\* A slip in which the overlays keep their entries.
RepointNothing(o, remap) == o

\* secret rekey: the entries that name a replaced object name its replacement.
Repoint(o, remap) ==
    Overlay([x \in DOMAIN o.entries |->
        IF IsSecret(o.entries[x]) /\ o.entries[x].secret \in DOMAIN remap
        THEN SecretRef(remap[o.entries[x].secret]) ELSE o.entries[x]])

-----------------------------------------------------------------------------
(* The registries.                                                          *)

\* A slip in which a file that does not parse is taken for an empty one.
LoadsAnything(file) == TRUE

\* registry::load fails on a file that does not parse (a missing one is empty).
Loads(file) == file.ok

\* registry::save, and what a crash inside its write leaves.
Saved(map) == [ok |-> TRUE, map |-> map]
Torn == [ok |-> FALSE, map |-> Empty]

With(map, k, x) == [j \in DOMAIN map \cup {k} |-> IF j = k THEN x ELSE map[j]]

\* A command begins in an idle process.
Begin(t) ==
    /\ proc[t] = Idle
    /\ commands < MaxCommands
    /\ commands' = commands + 1
    /\ IF \A u \in Process : proc[u] = Idle
       THEN UNCHANGED overlaps
       ELSE overlaps < MaxOverlaps /\ overlaps' = overlaps + 1

\* The rest of a command that stored object o for name n and goes on to save
\* secrets.json; `say' is what it promises of the name.
WillSave(t, n, o, say) ==
    /\ store' = store \cup {o}
    /\ proc' = [proc EXCEPT ![t] =
          [pc |-> "save_secrets", map |-> With(secrets.map, n, o),
           say |-> With(vault, n, say), remap |-> Empty, rekey |-> FALSE]]
    /\ UNCHANGED <<secrets, envs, crashes, vault, bound, retired>>

\* secret put and secret rotate: always an envelope secret for the one caller.
SecretStore(t, n, p, v, mustExist) ==
    /\ Begin(t)
    /\ Loads(secrets)
    /\ mustExist = (n \in DOMAIN secrets.map)
    /\ WillSave(t, n, EncryptEnvelope(v, p, SecretAad(n), fresh),
                [value |-> v, label |-> SecretAad(n), readers |-> {p}])
    /\ fresh' = fresh + 1
    /\ stored' = stored \cup {<<n, v>>}

\* secret share: the sharer and at least one recipient.
SecretShare(t, n, p, rs, v) ==
    /\ Begin(t)
    /\ Loads(secrets)
    /\ n \notin DOMAIN secrets.map
    /\ rs # {}
    /\ WillSave(t, n, EncryptFor(v, {p} \cup rs, SecretAad(n), fresh),
                [value |-> v, label |-> SecretAad(n), readers |-> {p} \cup rs])
    /\ fresh' = fresh + 1
    /\ stored' = stored \cup {<<n, v>>}

\* secret grant-actor.
GrantActor(t, n, p, r) ==
    /\ Begin(t)
    /\ Loads(secrets)
    /\ n \in DOMAIN secrets.map
    /\ \E o \in GrantSecretRecipient(secrets.map[n], p, r, fresh) :
          WillSave(t, n, o,
            [value |-> secrets.map[n].value, label |-> secrets.map[n].label,
             readers |-> {r} \cup (IF secrets.map[n].kind = "v2" THEN {p}
                                   ELSE {KeyRef(w) : w \in secrets.map[n].wraps})])
    /\ fresh' = fresh + 1
    /\ UNCHANGED stored

\* secret revoke-actor: needs the recipient's key_ref, and no key that opens.
RevokeActor(t, n, r) ==
    /\ Begin(t)
    /\ Loads(secrets)
    /\ n \in DOMAIN secrets.map
    /\ \E o \in RevokeSecretRecipient(secrets.map[n], r) :
          WillSave(t, n, o,
            [value |-> secrets.map[n].value, label |-> secrets.map[n].label,
             readers |-> {KeyRef(w) : w \in secrets.map[n].wraps} \ {r}])
    /\ UNCHANGED <<fresh, stored>>

\* secret rekey, up to the first save: targets are given names or, with --all,
\* every registered name.
RekeyTargets(all, names) ==
    IF all THEN SelectSeq(NameOrder, LAMBDA n : n \in DOMAIN secrets.map) ELSE names

\* A slip in which every target gets the last replacement.
RepointLast(map, targets, remap) ==
    [n \in DOMAIN map |-> IF n \in ToSet(targets) THEN remap[map[Last(targets)]] ELSE map[n]]

\* Each target's name is repointed to the object that replaced its own.
RepointNames(map, targets, remap) ==
    [n \in DOMAIN map |-> IF n \in ToSet(targets) THEN remap[map[n]] ELSE map[n]]

SecretRekey(t, all, names, old, new) ==
    LET targets == RekeyTargets(all, names)
        ids == [i \in DOMAIN targets |-> secrets.map[targets[i]]]
        k == RekeyedPrefix(ids, old, new, fresh)
        made == [i \in 1..k |-> RekeyedAt(ids, i, old, new, fresh)]
        remap == [o \in {ids[i] : i \in 1..k} |->
                    made[CHOOSE i \in 1..k : ids[i] = o]]
    IN  /\ Begin(t)
        /\ Loads(secrets)
        /\ ToSet(targets) \subseteq DOMAIN secrets.map
        /\ all \/ names # <<>>
        /\ store' = store \cup ToSet(made)
        /\ fresh' = fresh + Len(targets) + 1
        /\ proc' = IF k < Len(ids) THEN proc ELSE [proc EXCEPT ![t] =
              [pc |-> "save_secrets",
               map |-> RepointNames(secrets.map, targets, remap),
               say |-> [n \in DOMAIN vault |->
                          IF n \in ToSet(targets)
                          THEN [vault[n] EXCEPT !.readers = {new}] ELSE vault[n]],
               remap |-> remap, rekey |-> TRUE]]
        /\ UNCHANGED <<secrets, envs, crashes, stored, vault, bound, retired>>

\* registry::save of secrets.json, the end of every secret command but rekey.
SaveSecrets(t) ==
    /\ proc[t].pc = "save_secrets"
    /\ secrets' = Saved(proc[t].map)
    /\ vault' = proc[t].say
    /\ proc' = [proc EXCEPT ![t] = IF proc[t].rekey
                  THEN [pc |-> "repoint", remap |-> proc[t].remap] ELSE Idle]
    /\ UNCHANGED <<store, envs, fresh, commands, crashes, stored, overlaps, bound, retired>>

\* secret rekey, second half: overlays that hold a replaced object are stored
\* again with its replacement, then envs.json is saved whole.  An overlay that
\* is missing from the store is passed over.
RekeyOverlays(t) ==
    /\ proc[t].pc = "repoint"
    /\ IF Loads(envs)
       THEN LET new == [e \in DOMAIN envs.map |->
                          IF envs.map[e] \in store
                          THEN Repoint(envs.map[e], proc[t].remap) ELSE envs.map[e]]
            IN  /\ store' = store \cup {new[e] : e \in {f \in DOMAIN new : new[f] # envs.map[f]}}
                /\ proc' = [proc EXCEPT ![t] =
                      [pc |-> "save_envs", map |-> new, say |-> bound,
                       gone |-> DOMAIN proc[t].remap]]
       ELSE store' = store /\ proc' = [proc EXCEPT ![t] = Idle]
    /\ UNCHANGED <<secrets, envs, fresh, commands, crashes, stored, overlaps, vault, bound, retired>>

-----------------------------------------------------------------------------
(* Overlay commands.                                                        *)

\* load_overlay finds the overlay and its object.
LoadsOverlay(e) == Loads(envs) /\ e \in DOMAIN envs.map /\ envs.map[e] \in store

\* env create, up to store_overlay.
EnvCreate(t, e) ==
    /\ Begin(t)
    /\ Loads(envs)
    /\ e \notin DOMAIN envs.map
    /\ proc' = [proc EXCEPT ![t] =
          [pc |-> "store_overlay", env |-> e, overlay |-> Overlay(Empty), set |-> Empty]]
    /\ UNCHANGED <<store, secrets, envs, fresh, crashes, stored, vault, bound, retired>>

\* env set: the overlay is read here and stored later.
EnvSet(t, e, x, v) ==
    /\ Begin(t)
    /\ LoadsOverlay(e)
    /\ proc' = [proc EXCEPT ![t] =
          [pc |-> "store_overlay", env |-> e,
           overlay |-> Overlay(With(envs.map[e].entries, x, Plain(v))),
           set |-> [y \in {x} |-> v]]]
    /\ stored' = stored \cup {<<e, x, v>>}
    /\ UNCHANGED <<store, secrets, envs, fresh, crashes, vault, bound, retired>>

\* env set-secret: the name's object of this moment, not the name, is bound.
EnvSetSecret(t, e, x, n) ==
    /\ Begin(t)
    /\ Loads(secrets)
    /\ n \in DOMAIN secrets.map
    /\ proc' = [proc EXCEPT ![t] =
          [pc |-> "load_overlay", env |-> e, var |-> x, id |-> secrets.map[n]]]
    /\ stored' = stored \cup {<<e, x, secrets.map[n].value>>}
    /\ UNCHANGED <<store, secrets, envs, fresh, crashes, vault, bound, retired>>

LoadOverlay(t) ==
    /\ proc[t].pc = "load_overlay"
    /\ proc' = [proc EXCEPT ![t] =
          IF LoadsOverlay(proc[t].env)
          THEN [pc |-> "store_overlay", env |-> proc[t].env,
                overlay |-> Overlay(With(envs.map[proc[t].env].entries, proc[t].var,
                                         SecretRef(proc[t].id))),
                set |-> [y \in {proc[t].var} |-> proc[t].id.value]]
          ELSE Idle]
    /\ UNCHANGED <<store, secrets, envs, fresh, commands, crashes, stored, overlaps,
                   vault, bound, retired>>

\* store_overlay: put, then a second read of envs.json, of which one entry changes.
StoreOverlay(t) ==
    LET e == proc[t].env
        was == IF e \in DOMAIN bound THEN bound[e] ELSE Empty
    IN  /\ proc[t].pc = "store_overlay"
        /\ store' = store \cup {proc[t].overlay}
        /\ proc' = [proc EXCEPT ![t] =
              IF Loads(envs)
              THEN [pc |-> "save_envs", map |-> With(envs.map, e, proc[t].overlay),
                    say |-> With(bound, e, proc[t].set @@ was), gone |-> {}]
              ELSE Idle]
        /\ UNCHANGED <<secrets, envs, fresh, commands, crashes, stored, overlaps,
                       vault, bound, retired>>

\* registry::save of envs.json.
SaveEnvs(t) ==
    /\ proc[t].pc = "save_envs"
    /\ envs' = Saved(proc[t].map)
    /\ bound' = proc[t].say
    /\ retired' = retired \cup proc[t].gone
    /\ proc' = [proc EXCEPT ![t] = Idle]
    /\ UNCHANGED <<store, secrets, fresh, commands, crashes, stored, overlaps, vault>>

-----------------------------------------------------------------------------
(* store gc over the registries: both files are read, the closure is        *)
(* marked, the rest is swept, except what is within the grace window (the   *)
(* writes of commands in progress) when one is given.                       *)

GcSecretRoots(t) ==
    /\ Begin(t)
    /\ Loads(secrets)
    /\ proc' = [proc EXCEPT ![t] = [pc |-> "gc_envs", roots |-> Range(secrets.map)]]
    /\ UNCHANGED <<store, secrets, envs, fresh, crashes, stored, vault, bound, retired>>

GcEnvRoots(t) ==
    /\ proc[t].pc = "gc_envs"
    /\ proc' = [proc EXCEPT ![t] =
          IF Loads(envs)
          THEN [pc |-> "gc_sweep", roots |-> proc[t].roots, envs |-> Range(envs.map)]
          ELSE Idle]
    /\ UNCHANGED <<store, secrets, envs, fresh, commands, crashes, stored, overlaps,
                   vault, bound, retired>>

\* mark_reachable follows an overlay that is present to its secrets.
Reachable(roots, overlays) ==
    roots \cup overlays \cup
    UNION {{o.entries[x].secret : x \in {y \in DOMAIN o.entries : IsSecret(o.entries[y])}} :
             o \in overlays \cap store}

\* What the commands in progress have put in the store so far.
InGrace == UNION {IF proc[u].pc \in {"save_secrets", "save_envs"}
                  THEN Range(proc[u].map) ELSE {} : u \in Process}

GcSweep(t, grace) ==
    /\ proc[t].pc = "gc_sweep"
    /\ store' = store \cap (Reachable(proc[t].roots, proc[t].envs)
                              \cup (IF grace THEN InGrace ELSE {}))
    /\ proc' = [proc EXCEPT ![t] = Idle]
    /\ UNCHANGED <<secrets, envs, fresh, commands, crashes, stored, overlaps,
                   vault, bound, retired>>

\* A process is killed; inside a save the file may be left truncated.
Crash(t) ==
    /\ proc[t] # Idle
    /\ crashes < MaxCrashes
    /\ crashes' = crashes + 1
    /\ proc' = [proc EXCEPT ![t] = Idle]
    /\ \/ UNCHANGED <<secrets, envs>>
       \/ proc[t].pc = "save_secrets" /\ secrets' = Torn /\ UNCHANGED envs
       \/ proc[t].pc = "save_envs" /\ envs' = Torn /\ UNCHANGED secrets
    /\ UNCHANGED <<store, fresh, commands, stored, overlaps, vault, bound, retired>>
-----------------------------------------------------------------------------
Init ==
    /\ \E value \in [Legacy -> LegacyValue] :
          LET old == [n \in Legacy |->
                        EncryptV1(value[n], LegacyKey, CHOOSE i \in DOMAIN NameOrder : NameOrder[i] = n)]
              overlays == [e \in DOMAIN LegacyEnv |->
                 Overlay([x \in DOMAIN LegacyEnv[e] |-> SecretRef(old[LegacyEnv[e][x]])])]
          IN  /\ secrets = Saved(old)
              /\ envs = Saved(overlays)
              /\ store = Range(old) \cup Range(overlays)
              /\ stored = {<<n, value[n]>> : n \in Legacy} \cup
                    UNION {{<<e, x, value[LegacyEnv[e][x]]>> : x \in DOMAIN LegacyEnv[e]} :
                             e \in DOMAIN LegacyEnv}
              /\ vault = [n \in Legacy |->
                    [value |-> value[n], label |-> "none", readers |-> {LegacyKey}]]
              /\ bound = [e \in DOMAIN LegacyEnv |->
                    [x \in DOMAIN LegacyEnv[e] |-> value[LegacyEnv[e][x]]]]
    /\ proc = [t \in Process |-> Idle]
    /\ fresh = Len(NameOrder) + 1 /\ commands = 0 /\ crashes = 0
    /\ overlaps = 0 /\ retired = {}

Next == \E t \in Process :
    \/ \E i \in Inputs.store : \E b \in BOOLEAN : SecretStore(t, i.name, i.key, i.value, b)
    \/ \E i \in Inputs.share : SecretShare(t, i.name, i.key, i.to, i.value)
    \/ \E i \in Inputs.grant : GrantActor(t, i.name, i.key, i.to)
    \/ \E i \in Inputs.revoke : RevokeActor(t, i.name, i.to)
    \/ \E i \in Inputs.rekey : SecretRekey(t, i.all, i.names, i.old, i.new)
    \/ SaveSecrets(t)
    \/ RekeyOverlays(t)
    \/ \E e \in Env : EnvCreate(t, e)
    \/ \E i \in Inputs.set : EnvSet(t, i.env, i.var, i.value)
    \/ \E i \in Inputs.bind : EnvSetSecret(t, i.env, i.var, i.name)
    \/ LoadOverlay(t)
    \/ StoreOverlay(t)
    \/ SaveEnvs(t)
    \/ GcSecretRoots(t)
    \/ GcEnvRoots(t)
    \/ \E g \in BOOLEAN : GcSweep(t, g)
    \/ Crash(t)

Spec == Init /\ [][Next]_vars

-----------------------------------------------------------------------------
\* secret list, and secret reveal.
SecretList == DOMAIN secrets.map
SecretReveal(n, p) ==
    IF secrets.ok /\ n \in SecretList THEN GetSecretResolved(secrets.map[n], p) ELSE {}

\* env list; env resolve and run, which resolve an overlay alike.
EnvList == DOMAIN envs.map
EnvResolve(e, p, cleared, skip) ==
    IF envs.ok /\ e \in EnvList THEN ResolveOverlay(envs.map[e], p, cleared, skip) ELSE {}

(* Whatever the processes interleave and wherever they crash: what         *)
(* `secret reveal' prints for a name was stored under that name, and what  *)
(* `env resolve', `run' and compute_workspace_view give a variable of an   *)
(* overlay was set for that variable (commands/secret.rs, commands/env.rs, *)
(* resolve_overlay).  Upgrades, re-wraps and repointing never exchange or  *)
(* alter a value, and a secret the caller is not cleared for never shows.  *)
ValueKept ==
    /\ \A n \in Name, p \in Provider : \A v \in SecretReveal(n, p) : <<n, v>> \in stored
    /\ envs.ok => \A e \in DOMAIN envs.map, p \in Provider :
          /\ \A r \in WorkspaceEnv(envs.map[e], p) :
                \A x \in DOMAIN r : <<e, x, r[x]>> \in stored
          /\ \A cleared \in SUBSET Var, skip \in BOOLEAN :
                \A r \in EnvResolve(e, p, cleared, skip) :
                   \A x \in DOMAIN r :
                      /\ <<e, x, r[x]>> \in stored
                      /\ IsSecret(envs.map[e].entries[x]) => x \in cleared

(* As long as commands run one at a time, crashes included: every name and *)
(* every overlay refers to an object in the store with the value, label and *)
(* readers that the commands which finished promised; gc has collected     *)
(* none of them, not even while a registry file is unreadable after a      *)
(* crash (registry::load, commands/store.rs gc, Repository::rekey).        *)
RegistryFaithful == overlaps = 0 =>
    /\ secrets.ok => SecretList = DOMAIN vault
    /\ \A n \in DOMAIN vault : \E o \in store :
          /\ o.kind # "overlay" /\ o.value = vault[n].value /\ o.label = vault[n].label
          /\ {KeyRef(w) : w \in o.wraps} = vault[n].readers
          /\ secrets.ok => secrets.map[n] = o
    /\ envs.ok => EnvList = DOMAIN bound
    /\ \A e \in DOMAIN bound : \E o \in store :
          /\ o.kind = "overlay" /\ DOMAIN o.entries = DOMAIN bound[e]
          /\ \A x \in DOMAIN bound[e] :
                IF IsSecret(o.entries[x])
                THEN o.entries[x].secret \in store /\ o.entries[x].secret.value = bound[e][x]
                ELSE o.entries[x].plain = bound[e][x]
          /\ envs.ok => envs.map[e] = o

(* As long as commands run one at a time: once a rekey has finished, no     *)
(* registered name and no overlay refers to an object that it replaced      *)
(* (commands/secret.rs rekey, which repoints the names and then the         *)
(* overlays).  It speaks of the objects that were registered when the rekey *)
(* ran: an overlay that was bound before its secret was rotated holds an    *)
(* object that is no longer registered, which no rekey replaces, and a      *)
(* rekey that is killed before it saves the overlays has retired nothing.   *)
RetiredUnreferenced == overlaps = 0 =>
    /\ secrets.ok => Range(secrets.map) \cap retired = {}
    /\ envs.ok => \A e \in DOMAIN envs.map : \A x \in DOMAIN envs.map[e].entries :
          IsSecret(envs.map[e].entries[x]) => envs.map[e].entries[x].secret \notin retired
=============================================================================
