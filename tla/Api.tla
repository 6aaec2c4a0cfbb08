-------------------------------- MODULE Api --------------------------------
(***************************************************************************)
(* The read-only HTTP API (bole-api/src/): how a request's headers become   *)
(* a principal, an actor and an accessor, and what each endpoint answers    *)
(* with that accessor.  Endpoints change nothing, so they are operators     *)
(* over the state of Governance.  A response is [status] or                 *)
(* [status, body]; JSON layout and wording are left out.                    *)
(*                                                                         *)
(* A request's credentials are                                              *)
(*   [scheme, value, date, verifies, subject, peer]                         *)
(* scheme is "none" without an Authorization header, "malformed" when it     *)
(* holds no scheme, else the scheme; value is the token or the key id;       *)
(* verifies says whether the signature over method, target, date and body    *)
(* is that of the registered key; subject is the client-subject header.      *)
(***************************************************************************)
EXTENDS Governance

CONSTANTS
  Config,   \* [tokens, keys, mtls: functions to actors, proxies: a set]
  Clock,    \* the server's time
  MaxSkew,  \* MAX_SKEW_SECS
  Requests  \* the credentials requests may carry

Status(code) == [status |-> code]
Ok(body) == [status |-> 200, body |-> body]
Anonymous == [kind |-> "anonymous"]
Rejected == [kind |-> "rejected"]
Principal(kind, id) == [kind |-> kind, id |-> id]

(* A signed request: the window is tested before the key is looked up, and   *)
(* an unknown key and a bad signature are refused alike.                     *)
VerifySigned(req) ==
  IF /\ req.date \in (Clock - MaxSkew)..(Clock + MaxSkew)
     /\ req.value \in DOMAIN Config.keys
     /\ req.verifies
    THEN Principal("key", req.value) ELSE Rejected

(* An Authorization header that is not understood is an error, never an      *)
(* anonymous request.  The proxy header counts only from a trusted peer.     *)
ResolvePrincipal(req) ==
  CASE req.scheme = "bearer" -> Principal("token", req.value)
    [] req.scheme = "signature" -> VerifySigned(req)
    [] req.scheme \notin {"none", "bearer", "signature"} -> Rejected
    [] req.scheme = "none" -> IF req.subject # None /\ req.peer \in Config.proxies
                                THEN Principal("mtls", req.subject) ELSE Anonymous

ActorFor(p) ==
  LET table == CASE p.kind = "token" -> Config.tokens
                 [] p.kind = "key" -> Config.keys
                 [] p.kind = "mtls" -> Config.mtls
                 [] OTHER -> <<>>
  IN IF p.kind \in {"token", "key", "mtls"} /\ p.id \in DOMAIN table THEN table[p.id] ELSE None

(* Credentials that map to no actor are refused; only a request that shows   *)
(* none is anonymous.                                                        *)
RequestAuth(req) ==
  LET p == ResolvePrincipal(req)
  IN IF p = Rejected \/ (p # Anonymous /\ ActorFor(p) = None) THEN None
     ELSE AccessorFor(ActorFor(p))

Authenticated(req, answer) ==
  IF RequestAuth(req) = None THEN Status(401) ELSE answer

-----------------------------------------------------------------------------
(* Endpoints.                                                               *)
GetStatus(req) == Ok(Cardinality(DOMAIN HeadOf))

TimelinesList(req) ==
  LET acc == RequestAuth(req) IN
  Authenticated(req, Ok({<<n, HeadOf[n]>> : n \in ListRefsServed(acc)}))

TimelinesGet(req, n) ==
  LET acc == RequestAuth(req) IN
  Authenticated(req, IF RefServed(acc, n) THEN Ok(HeadOf[n]) ELSE Status(404))

SnapshotMetadata(req, s) ==
  LET acc == RequestAuth(req) IN
  Authenticated(req,
    IF s \in DOMAIN TreeOf THEN Ok(GetSnapshotFiltered(acc, s)) ELSE Status(404))

SnapshotBlob(req, s, p) ==
  LET acc == RequestAuth(req) IN
  Authenticated(req,
    IF s \notin DOMAIN TreeOf THEN Status(404)
    ELSE IF p \in GetSnapshotFiltered(acc, s) THEN Ok(p) ELSE Status(404))

(* The page of an announced repository takes `main', or the first timeline   *)
(* it has, from all refs, and filters only the files of the head.            *)
RepoTree(req, owned, main) ==
  LET acc == RequestAuth(req) IN
  Authenticated(req,
    IF owned = {} THEN Ok([head |-> None, files |-> {}])
    ELSE LET t == IF main \in owned THEN main ELSE CHOOSE n \in owned : TRUE
         IN Ok([head |-> HeadOf[t], files |-> GetSnapshotFiltered(acc, HeadOf[t])]))

ReposList(req) == Authenticated(req, Ok(Cardinality(DOMAIN HeadOf)))

-----------------------------------------------------------------------------
(* Properties.                                                              *)

(* The point lookup is the twin of the listing: for every caller, a timeline *)
(* answers under its own name exactly when the listing shows it; one that is *)
(* hidden answers as one that does not exist; and a blob is served exactly   *)
(* when the filtered metadata names its path (timelines.rs, snapshots.rs).   *)
HiddenLooksAbsent ==
  \A req \in Requests :
    LET list == TimelinesList(req)
    IN list.status = 200 =>
         /\ \A n \in Names :
              IF \E e \in list.body : e[1] = n
                THEN TimelinesGet(req, n).status = 200
                ELSE TimelinesGet(req, n) = Status(404)
         /\ \A s \in DOMAIN TreeOf :
              LET shown == SnapshotMetadata(req, s).body
              IN \A p \in TreeOf[s] : SnapshotBlob(req, s, p).status = 200 <=> p \in shown
=============================================================================
