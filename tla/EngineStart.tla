---------------------------- MODULE EngineStart ----------------------------
(***************************************************************************)
(* The proxy's AuthzEngine::from_config (authz-llm-proxy/src/engine.rs)    *)
(* beside the commands of PolicyStore: the proxy starts, reads the         *)
(* deployed revision and, where a signature is required, the key file, and *)
(* then serves one bundle until it is stopped.  Nothing in the proxy calls *)
(* BundleCache::store again: a later deploy waits for a restart.           *)
(***************************************************************************)
EXTENDS PolicyStore

CONSTANT
    Unsigned        \* the revision name and signature of the dev fallback

ASSUME EngineConstantsOK ==
    Unsigned \notin RevIds /\ Unsigned \notin Keys /\ Unsigned # NoBundle

\* What the hot cache holds: the revision it names, the text it evaluates, the
\* bundle its signature comes from, and the key the file held at the check.
Served == [id : RevIds \cup {Unsigned}, content : Contents,
           bundle : Bundles \cup {NoBundle}, key : Keys \cup {NoSigner}]

NotServing == [id |-> Unsigned, content |-> Absent, bundle |-> NoBundle, key |-> NoSigner]

VARIABLES
    stage,   \* of the proxy process: down, loaded, fallback or serving
    strict,  \* it was started in production mode or with require_signed_bundle
    hot      \* what it holds

engine     == <<stage, strict, hot>>
engineVars == <<vars, engine>>

EngineInit ==
    /\ Init
    /\ stage = "down" /\ strict = FALSE
    /\ hot = NotServing

-----------------------------------------------------------------------------
Serve(b) == stage' = "serving" /\ hot' = b /\ UNCHANGED strict
Exit     == stage' = "down" /\ hot' = NotServing /\ strict' = FALSE

\* The configuration is read at each start.  policy_set_from_deployed parses the
\* text of the revision, not of its bundle.
LoadDeployed ==
    /\ stage = "down"
    /\ deployed \in Revisions
    /\ hot' = [id |-> deployed.id, content |-> deployed.content,
               bundle |-> deployed.bundle, key |-> NoSigner]
    /\ stage' = "loaded"
    /\ strict' \in BOOLEAN
    /\ UNCHANGED vars

\* With no readable deployed revision a proxy that requires signatures exits,
\* and is down as before; in development it goes on to the text under edit.
FallBack ==
    /\ stage = "down"
    /\ deployed \notin Revisions
    /\ stage' = "fallback"
    /\ UNCHANGED <<vars, strict, hot>>

\* Defect: the fallback takes the text under edit as it is.
ServeAnything ==
    /\ stage = "fallback"
    /\ active \in Contents
    /\ Serve([id |-> Unsigned, content |-> active, bundle |-> NoBundle, key |-> NoSigner])
    /\ UNCHANGED vars

ServeActive ==
    /\ stage = "fallback"
    /\ \/ /\ active \in Contents \ Invalid
          /\ Serve([id |-> Unsigned, content |-> active, bundle |-> NoBundle, key |-> NoSigner])
       \/ active \notin Contents \ Invalid /\ Exit
    /\ UNCHANGED vars

\* "deployed revision has no signature" ends the start.
HasSignature == hot.bundle # NoBundle

\* The proxy knows one path only, whatever the commands were told to use.
KeyRead == IF keyfile[DefaultPath] \in Keys THEN keyfile[DefaultPath] ELSE NoSigner

\* verify_bundle runs only where the key file can be read as a key, and only
\* its Err is looked at: a signature by another key is Ok(false), which `?`
\* lets through.
VerifyBundle ==
    /\ stage = "loaded"
    /\ strict
    /\ IF HasSignature
       THEN Serve([hot EXCEPT !.key = KeyRead])
       ELSE Exit
    /\ UNCHANGED vars

SkipVerification ==
    /\ stage = "loaded"
    /\ ~strict
    /\ Serve(hot)
    /\ UNCHANGED vars

\* The process is stopped, or dies, at any point.
StopEngine ==
    /\ stage # "down"
    /\ Exit
    /\ UNCHANGED vars

Start == LoadDeployed \/ FallBack \/ ServeActive \/ VerifyBundle \/ SkipVerification

EngineNext ==
    \/ Next /\ UNCHANGED engine
    \/ Start
    \/ StopEngine

EngineSpec == EngineInit /\ [][EngineNext]_engineVars

\* A proxy that is started gets to run; nobody is obliged to stop it.
FairEngineSpec == EngineSpec /\ WF_engineVars(Start)

-----------------------------------------------------------------------------
\* Where a signature is required, what the proxy evaluates is a committed text
\* under the name it was committed by, and the signature the proxy shows for it
\* is over that name and that text, by a key the command line generated: the
\* chain commit, sign, deploy, start never mixes two revisions.
ServesWhatWasSigned ==
    stage = "serving" /\ strict =>
        /\ hot.id \in RevIds
        /\ hot.content = hot.id[1]
        /\ Signs(hot.bundle, hot)
        /\ hot.bundle.key \in drawn

\* A proxy never serves a text validate_dsl refuses, not even the text under
\* edit that the development fallback takes without a commit.
ServesValidText == stage = "serving" => hot.content \in Contents \ Invalid

(***************************************************************************)
(* What the documents say and the code does not do.                        *)
(***************************************************************************)
\* docs/SECURITY.md:53-56, "When PAAC boots ... it verifies the signature
\* against the configured Ed25519 public key.  If verification fails, PAAC
\* refuses to load the bundle": a proxy that read a key serves no bundle that
\* was signed with another one.  A `policy sign` with a --key-path of its own is
\* enough, or two first runs side by side, which both find no key file.
VerifiedBeforeServing ==
    stage = "serving" /\ hot.key # NoSigner => hot.bundle.key = hot.key

\* docs/PRODUCT_OVERVIEW.md:125, "deployed to PAAC without downtime (hot-reloaded
\* in memory)": a revision that stays deployed while a proxy serves is served.
DeployReachesEngine ==
    \A i \in RevIds :
        (stage = "serving" /\ deployed \in Revisions /\ deployed.id = i)
            ~> (hot.id = i \/ stage # "serving" \/ deployed \notin Revisions \/ deployed.id # i)

=============================================================================
