---------------------------- MODULE ProxyConfig ----------------------------
(***************************************************************************)
(* The configuration a proxy starts with: crates/authz-llm-proxy/src/      *)
(* config.rs and the beginning of main.rs.  A setting is reduced to what   *)
(* the identity and the engine look at; a secret or an address is there or *)
(* is not.                                                                 *)
(***************************************************************************)

Modes == {"development", "production"}

Settings == [mode    : Modes,
             signed  : BOOLEAN,   \* require_signed_bundle
             hmac    : BOOLEAN,   \* identity.jwt_hmac_secret is set
             jwks    : BOOLEAN,   \* identity.jwks_url is set
             headers : BOOLEAN]   \* identity.allow_header_identity

\* What the environment may say; PAAC_MODE of any other value is development.
Environments == [mode   : Modes \cup {"unset"},
                 signed : {"unset", "yes", "no"},
                 hmac   : BOOLEAN,
                 jwks   : BOOLEAN]

\* Defect: the environment is applied after the mode has closed the headers.
ApplyEnvLast(c, e) ==
    [mode    |-> IF e.mode = "unset" THEN c.mode ELSE e.mode,
     signed  |-> e.signed = "yes" \/ (e.signed = "unset" /\ (c.signed \/ c.mode = "production")),
     hmac    |-> c.hmac \/ e.hmac,
     jwks    |-> c.jwks \/ e.jwks,
     headers |-> c.headers /\ c.mode # "production"]

\* The environment overrides the file, and production closes what is open.
ApplyEnv(c, e) ==
    LET mode == IF e.mode = "unset" THEN c.mode ELSE e.mode IN
    [mode    |-> mode,
     signed  |-> mode = "production" \/ e.signed = "yes" \/ (e.signed = "unset" /\ c.signed),
     hmac    |-> c.hmac \/ e.hmac,
     jwks    |-> c.jwks \/ e.jwks,
     headers |-> c.headers /\ mode # "production"]

Valid(c) == c.mode = "production" => (c.hmac \/ c.jwks) /\ ~c.headers

\* Without a file the proxy takes these, and what it ends up with is not
\* validated.
WithoutFile == [mode |-> "development", signed |-> FALSE, hmac |-> FALSE, jwks |-> FALSE,
                headers |-> FALSE]

StartingConfigs ==
    {c \in {ApplyEnv(f, e) : f \in Settings, e \in Environments} : Valid(c)}
        \cup {ApplyEnv(WithoutFile, e) : e \in Environments}

=============================================================================
