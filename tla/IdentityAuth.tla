---------------------------- MODULE IdentityAuth ----------------------------
(***************************************************************************)
(* resolve_principal (crates/authz-llm-proxy/src/auth.rs) with the         *)
(* identity cache and the verification of tokens (crates/authz-identity/   *)
(* src/cache.rs, adapters.rs), by concurrent handlers, while time passes   *)
(* and the identity provider publishes and withdraws keys.                 *)
(*                                                                         *)
(* The identity a token names is the token itself: whoever is told `from`  *)
(* acts with the claims of that token.                                     *)
(***************************************************************************)
EXTENDS Naturals, ProxyConfig

CONSTANTS
    Handlers,       \* handlers; each serves one request after the other
    Tokens,         \* well-formed tokens
    Malformed,      \* credentials that are no token, nor begin as a token does
    Alg,            \* [Tokens -> algorithm of the header]
    CacheKey,       \* [Tokens -> the first 32 bytes]
    SignedBy,       \* [Tokens -> the key that signed it, or something else]
    Expires,        \* [Tokens -> second]
    Keys,           \* keys the identity provider may publish
    Secret,         \* the shared secret of HS256
    Ttl,            \* identity.cache_ttl_secs
    FetchLimit,     \* the 10 seconds a JWKS request may take
    Leeway,         \* of the expiry test (60 seconds in jsonwebtoken)
    MaxClock,       \* bound on the seconds that pass
    MaxRotations,   \* bound on the changes of the published keys
    Configs         \* configurations to start with

Algorithms == {"HS256", "RS", "other"}
CacheKeys  == {CacheKey[t] : t \in Tokens}

ASSUME IdentityConstantsOK ==
    /\ Malformed \notin Tokens
    /\ {"header", "none", "refused"} \cap (Tokens \cup {Malformed}) = {}
    /\ Alg \in [Tokens -> Algorithms]
    /\ CacheKey = [t \in Tokens |-> CacheKey[t]]
    /\ SignedBy = [t \in Tokens |-> SignedBy[t]]
    /\ Expires \in [Tokens -> Nat]
    /\ Secret \notin Keys
    /\ Ttl \in Nat /\ FetchLimit \in Nat /\ Leeway \in Nat
    /\ MaxClock \in Nat /\ MaxRotations \in Nat
    /\ Configs \subseteq StartingConfigs

VARIABLES
    cfg,        \* the configuration, fixed at the start
    now,        \* the current second
    jwks,       \* keys published now
    last,       \* the last second in which each key was published
    rotations,  \* changes of jwks so far
    cache,      \* entries of the identity cache
    pc,         \* where each handler stands
    cred,       \* the credentials of its request
    sentAt,     \* when it sent its JWKS request
    fetched,    \* the keys it was sent
    who,        \* the outcome: a token's identity, the header's, or refused
    doneAt      \* when it had the outcome

issuer  == <<jwks, last, rotations>>
outcome == <<who, doneAt>>
vars    == <<cfg, now, issuer, cache, pc, cred, sentAt, fetched, outcome>>

Credentials == Tokens \cup {Malformed, "header", "none"}
NoEntry     == [from |-> Malformed, at |-> 0]
Entries     == [from : Tokens, at : Nat]

TypeOK ==
    /\ cfg \in Settings
    /\ now \in Nat
    /\ jwks \subseteq Keys
    /\ last \in [Keys -> Nat] /\ rotations \in Nat
    /\ cache \in [CacheKeys -> Entries \cup {NoEntry}]
    /\ pc \in [Handlers -> {"idle", "resolve", "verify", "fetch", "keys", "done"}]
    /\ cred \in [Handlers -> Credentials]
    /\ sentAt \in [Handlers -> Nat]
    /\ fetched \in [Handlers -> SUBSET Keys]
    /\ who \in [Handlers -> Tokens \cup {"header", "none", "refused"}]
    /\ doneAt \in [Handlers -> Nat]

Init ==
    /\ cfg \in Configs
    /\ now = 0 /\ rotations = 0
    /\ jwks = Keys /\ last = [k \in Keys |-> 0]
    /\ cache = [c \in CacheKeys |-> NoEntry]
    /\ pc = [r \in Handlers |-> "idle"]
    /\ cred = [r \in Handlers |-> "none"]
    /\ sentAt = [r \in Handlers |-> 0] /\ fetched = [r \in Handlers |-> {}]
    /\ who = [r \in Handlers |-> "none"] /\ doneAt = [r \in Handlers |-> 0]

-----------------------------------------------------------------------------
Production == cfg.mode = "production"

\* Tokens are verified as soon as there is something to verify them with.
Verifies == Production \/ cfg.hmac \/ cfg.jwks

Move(r, l) == pc' = [pc EXCEPT ![r] = l]

Answer(r, w) ==
    /\ Move(r, "done")
    /\ who' = [who EXCEPT ![r] = w]
    /\ doneAt' = [doneAt EXCEPT ![r] = now]
    /\ sentAt' = [sentAt EXCEPT ![r] = 0] /\ fetched' = [fetched EXCEPT ![r] = {}]

(***************************************************************************)
(* Time, and the identity provider.                                        *)
(***************************************************************************)
Tick ==
    /\ now < MaxClock
    /\ now' = now + 1
    /\ last' = [k \in Keys |-> IF k \in jwks THEN now + 1 ELSE last[k]]
    /\ UNCHANGED <<cfg, jwks, rotations, cache, pc, cred, sentAt, fetched, outcome>>

Rotate ==
    /\ rotations < MaxRotations
    /\ rotations' = rotations + 1
    /\ \E k \in Keys : jwks' \in {jwks \ {k}, jwks \cup {k}}
    /\ last' = [k \in Keys |-> IF k \in jwks \cup jwks' THEN now ELSE last[k]]
    /\ UNCHANGED <<cfg, now, cache, pc, cred, sentAt, fetched, outcome>>

-----------------------------------------------------------------------------
Arrive(r) ==
    /\ pc[r] = "idle"
    /\ \E c \in Credentials : cred' = [cred EXCEPT ![r] = c]
    /\ Move(r, "resolve")
    /\ UNCHANGED <<cfg, now, issuer, cache, sentAt, fetched, outcome>>

\* Defect: the headers are believed in every mode.
HeadersBelieved == TRUE

HeadersAllowed == cfg.headers /\ ~Production

\* No bearer token: headers identify in development, where they are allowed.
ResolveHeader(r) ==
    /\ pc[r] = "resolve"
    /\ cred[r] \in {"header", "none"}
    /\ Answer(r, IF cred[r] = "header" /\ HeadersAllowed THEN "header" ELSE "refused")
    /\ UNCHANGED <<cfg, now, issuer, cache, cred>>

\* IdentityCache::get: an entry older than the time to live is not used.
Fresh(e) == e # NoEntry /\ now - e.at <= Ttl

\* Defect: a hit renews its entry.
HitAndRenew(r) ==
    LET e == cache[CacheKey[cred[r]]] IN
    /\ pc[r] = "resolve" /\ cred[r] \in Tokens
    /\ Fresh(e)
    /\ cache' = [cache EXCEPT ![CacheKey[cred[r]]].at = now]
    /\ Answer(r, e.from)
    /\ UNCHANGED <<cfg, now, issuer, cred>>

Hit(r) ==
    LET e == cache[CacheKey[cred[r]]] IN
    /\ pc[r] = "resolve" /\ cred[r] \in Tokens
    /\ Fresh(e)
    /\ Answer(r, e.from)
    /\ UNCHANGED <<cfg, now, issuer, cache, cred>>

Miss(r) ==
    /\ pc[r] = "resolve" /\ cred[r] \in Tokens
    /\ ~Fresh(cache[CacheKey[cred[r]]])
    /\ Move(r, "verify")
    /\ UNCHANGED <<cfg, now, issuer, cache, cred, sentAt, fetched, outcome>>

\* What decode_header and the payload refuse; nothing malformed is cached.
RefuseMalformed(r) ==
    /\ pc[r] = "resolve" /\ cred[r] = Malformed
    /\ Answer(r, "refused")
    /\ UNCHANGED <<cfg, now, issuer, cache, cred>>

-----------------------------------------------------------------------------
\* validate_exp is set in production only.
InTime(t) == Production => now <= Expires[t] + Leeway

\* The identity is cached under the key of its token and answered.
CacheAndAnswer(r) ==
    /\ cache' = [cache EXCEPT ![CacheKey[cred[r]]] = [from |-> cred[r], at |-> now]]
    /\ Answer(r, cred[r])

\* With nothing to verify it with, a token is taken at its word.
Unverified(r) ==
    /\ pc[r] = "verify"
    /\ ~Verifies
    /\ CacheAndAnswer(r)
    /\ UNCHANGED <<cfg, now, issuer, cred>>

VerifiesHs256(t) == Alg[t] = "HS256" /\ cfg.hmac /\ SignedBy[t] = Secret /\ InTime(t)

VerifyHs256(r) ==
    /\ pc[r] = "verify"
    /\ Verifies /\ Alg[cred[r]] # "RS"
    /\ IF VerifiesHs256(cred[r])
       THEN CacheAndAnswer(r)
       ELSE Answer(r, "refused") /\ UNCHANGED cache
    /\ UNCHANGED <<cfg, now, issuer, cred>>

Fetch(r) ==
    /\ pc[r] = "verify"
    /\ Verifies /\ Alg[cred[r]] = "RS"
    /\ \/ /\ cfg.jwks
          /\ sentAt' = [sentAt EXCEPT ![r] = now]
          /\ Move(r, "fetch")
          /\ UNCHANGED <<fetched, outcome>>
       \/ ~cfg.jwks /\ Answer(r, "refused")
    /\ UNCHANGED <<cfg, now, issuer, cache, cred>>

\* The identity provider answers with the keys of that moment ...
ServeKeys(r) ==
    /\ pc[r] = "fetch"
    /\ fetched' = [fetched EXCEPT ![r] = jwks]
    /\ Move(r, "keys")
    /\ UNCHANGED <<cfg, now, issuer, cache, cred, sentAt, outcome>>

\* ... and its answer counts if it comes within the limit of the request.
WithinLimit(r) == now - sentAt[r] <= FetchLimit

VerifyWithKeys(r) ==
    /\ pc[r] = "keys"
    /\ WithinLimit(r)
    /\ SignedBy[cred[r]] \in fetched[r] /\ InTime(cred[r])
    /\ CacheAndAnswer(r)
    /\ UNCHANGED <<cfg, now, issuer, cred>>

\* Defect: the request has no limit of time.
FailsOnceServed(r) ==
    /\ pc[r] = "keys"
    /\ Answer(r, "refused")
    /\ UNCHANGED <<cfg, now, issuer, cache, cred>>

\* The request fails or takes too long, or no key of the answer fits: of a token
\* without a key id only the first key is tried.
FetchFails(r) ==
    /\ pc[r] \in {"fetch", "keys"}
    /\ Answer(r, "refused")
    /\ UNCHANGED <<cfg, now, issuer, cache, cred>>

-----------------------------------------------------------------------------
\* The answered request is over; the handler's locals go with it.
Leave(r) ==
    /\ pc[r] = "done"
    /\ Move(r, "idle")
    /\ cred' = [cred EXCEPT ![r] = "none"]
    /\ who' = [who EXCEPT ![r] = "none"] /\ doneAt' = [doneAt EXCEPT ![r] = 0]
    /\ UNCHANGED <<cfg, now, issuer, cache, sentAt, fetched>>

Steps(r) ==
    \/ ResolveHeader(r) \/ Hit(r) \/ Miss(r) \/ RefuseMalformed(r)
    \/ Unverified(r) \/ VerifyHs256(r) \/ Fetch(r) \/ VerifyWithKeys(r) \/ FetchFails(r)

Next == Tick \/ Rotate \/ \E r \in Handlers : Arrive(r) \/ ServeKeys(r) \/ Steps(r) \/ Leave(r)

Spec == Init /\ [][Next]_vars

\* Tasks that are ready run, and a JWKS request ends within its limit.
FairSpec == Spec /\ \A r \in Handlers : WF_vars(Steps(r))

-----------------------------------------------------------------------------
(***************************************************************************)
(* Properties.                                                             *)
(***************************************************************************)
LastPublished(k) == IF k \in jwks THEN now ELSE last[k]

\* Second s is no more than `lag` after token t could be found good: by the
\* shared secret, or by a key that was still published when it was asked for.
GoodWithin(lag, t, s) ==
    /\ Verifies => \/ cfg.hmac /\ SignedBy[t] = Secret
                   \/ /\ SignedBy[t] \in Keys
                      /\ s <= LastPublished(SignedBy[t]) + FetchLimit + lag
    /\ Production => s <= Expires[t] + Leeway + lag

\* Whatever handlers, rotations and cache do, an identity outlives its token and
\* the publication of its key by no more than the time to live of the cache,
\* the leeway and the limit of one request for keys (auth.rs:18-35,
\* cache.rs:30-37): no hit, race or late answer prolongs it further.
BoundedAfterlife ==
    \A r \in Handlers : who[r] \in Tokens => GoodWithin(Ttl, who[r], doneAt[r])

\* The strengthening: what the cache holds was good when it was put there, and is
\* found under the key of its own token; keys on their way were published when
\* they were asked for.
CacheSound ==
    /\ \A c \in CacheKeys : cache[c] # NoEntry =>
          /\ CacheKey[cache[c].from] = c
          /\ cache[c].at <= now
          /\ GoodWithin(0, cache[c].from, cache[c].at)
    /\ \A r \in Handlers : pc[r] = "keys" =>
          sentAt[r] <= now /\ \A k \in fetched[r] : sentAt[r] <= LastPublished(k)

\* An identity is that of a token with the same cache key as the one presented,
\* and without a token there is only the header's, outside production, however
\* file and environment combine (auth.rs:17-56, config.rs:161-165).
OwnOrSameKey ==
    \A r \in Handlers :
        /\ who[r] \in Tokens => cred[r] \in Tokens /\ CacheKey[who[r]] = CacheKey[cred[r]]
        /\ who[r] = "header" => cred[r] = "header" /\ ~Production

\* A production proxy requires signed bundles and knows no header identity,
\* whichever of file and environment made it one (config.rs:161-165).
ProductionIsClosed == Production => cfg.signed /\ ~cfg.headers

\* Every request gets its outcome: unlike the upstream call, the one to the
\* identity provider has a limit of time (adapters.rs:144-146).
Resolved == \A r \in Handlers : pc[r] = "resolve" ~> pc[r] = "done"

(***************************************************************************)
(* What a test says and the code does only in the order of that test.      *)
(***************************************************************************)
\* regression_suite.rs:162, "Invalid JWT should yield HTTP 401": the outcome of
\* a token that does not verify is a refusal.  The cache is asked first, and
\* its key is the same for every token with the same header.
InvalidTokenRefused ==
    \A r \in Handlers :
        cred[r] \in Tokens /\ Verifies /\ SignedBy[cred[r]] \notin Keys \cup {Secret}
            => who[r] \in {"none", "refused"}

=============================================================================
