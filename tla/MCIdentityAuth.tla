--------------------------- MODULE MCIdentityAuth ---------------------------
(***************************************************************************)
(* Two handlers; a token of the identity provider, one with the same first *)
(* 32 bytes that no published key signed, and one under the shared secret. *)
(***************************************************************************)
EXTENDS IdentityAuth

CONSTANTS r1, r2, oidc, stray, shared, k1, elsewhere

MCTokens   == {oidc, stray, shared}
MCAlg      == [t \in MCTokens |-> IF t = shared THEN "HS256" ELSE "RS"]
MCCacheKey == [t \in MCTokens |-> IF t \in {oidc, stray} THEN "RS" ELSE t]
MCSignedBy == [t \in MCTokens |-> IF t = oidc THEN k1 ELSE IF t = shared THEN Secret
                                  ELSE elsewhere]
MCExpires  == [t \in MCTokens |-> IF t = shared THEN 0 ELSE 1]

\* A production proxy, and development proxies with and without something to
\* verify tokens with; the latter believes headers.
MCConfigs == {c \in StartingConfigs :
    /\ c.hmac = c.jwks
    /\ c.mode = "production" => c.hmac
    /\ c.mode = "development" => ~c.signed /\ c.headers = ~c.hmac}

=============================================================================
