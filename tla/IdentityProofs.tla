--------------------------- MODULE IdentityProofs ---------------------------
(***************************************************************************)
(* Proofs that no identity outlives its token or the publication of its    *)
(* key by more than the bounds of the code, that an identity is that of a  *)
(* token with the cache key of the one presented, and that production      *)
(* stays closed, for any number of handlers, tokens and keys, any          *)
(* assignment of cache keys and any configuration.                         *)
(***************************************************************************)
EXTENDS IdentityAuth, TLAPS

USE DEF issuer, outcome

\* No key was last published in the future.
ClockInv == \A k \in Keys : last[k] <= now

\* Outcomes are only there once a handler is done, and were not made later than
\* now; a handler on its way to a verdict holds a token.
HandlerInv ==
    \A r \in Handlers :
        /\ doneAt[r] <= now
        /\ pc[r] \in {"verify", "fetch", "keys"} => cred[r] \in Tokens
        /\ pc[r] \in {"fetch", "keys"} => sentAt[r] <= now /\ Verifies

\* The inductive invariant.
IInv == TypeOK /\ ClockInv /\ HandlerInv /\ CacheSound /\ BoundedAfterlife

-----------------------------------------------------------------------------
\* The clock and the publication of keys only move forward.
LEMMA Forward ==
    ASSUME TypeOK, ClockInv, Tick \/ Rotate
    PROVE  /\ now \in Nat /\ now' \in Nat /\ now <= now'
           /\ \A k \in Keys : /\ LastPublished(k) \in Nat /\ LastPublished(k)' \in Nat
                              /\ LastPublished(k) <= LastPublished(k)'
           /\ ClockInv'
<1> USE DEF TypeOK, ClockInv, LastPublished
<1>1. CASE Tick
  BY <1>1 DEF Tick
<1>2. CASE Rotate
  <2>1. jwks' \subseteq Keys /\ now' = now
    BY <1>2 DEF Rotate
  <2>2. \A k \in Keys : last'[k] = IF k \in jwks \cup jwks' THEN now ELSE last[k]
    BY <1>2 DEF Rotate
  <2> QED
    BY <2>1, <2>2
<1> QED
  BY <1>1, <1>2

\* What was good stays good while time passes and keys come and go.
LEMMA TimePasses ==
    ASSUME IInv, Tick \/ Rotate
    PROVE  IInv'
<1>1. /\ now \in Nat /\ now' \in Nat /\ now <= now'
      /\ \A k \in Keys : /\ LastPublished(k) \in Nat /\ LastPublished(k)' \in Nat
                         /\ LastPublished(k) <= LastPublished(k)'
      /\ ClockInv'
  BY Forward DEF IInv
<1>2. UNCHANGED <<cfg, cache, pc, cred, sentAt, fetched, outcome>>
  BY DEF Tick, Rotate
<1>3. TypeOK'
  <2>1. CASE Tick
    BY <1>1, <2>1 DEF Tick, IInv, TypeOK
  <2>2. CASE Rotate
    BY <2>2 DEF Rotate, IInv, TypeOK
  <2> QED
    BY <2>1, <2>2
<1>4. HandlerInv'
  BY <1>1, <1>2 DEF IInv, TypeOK, HandlerInv, Verifies, Production
<1>5. ASSUME NEW lag \in Nat, NEW t \in Tokens, NEW s \in Nat, GoodWithin(lag, t, s)
      PROVE  GoodWithin(lag, t, s)'
  <2>1. ASSUME SignedBy[t] \in Keys, s <= LastPublished(SignedBy[t]) + FetchLimit + lag
        PROVE  s <= LastPublished(SignedBy[t])' + FetchLimit + lag
    BY <1>1, <2>1, IdentityConstantsOK
  <2> QED
    BY <1>2, <1>5, <2>1 DEF GoodWithin, Verifies, Production
<1>6. CacheSound'
  <2>1. ASSUME NEW c \in CacheKeys, NEW e, e = cache[c], e # NoEntry
        PROVE  CacheKey[e.from] = c /\ e.at <= now' /\ GoodWithin(0, e.from, e.at)'
    <3>1. e \in Entries
      BY <2>1 DEF IInv, TypeOK
    <3>2. e.from \in Tokens /\ e.at \in Nat
      BY <3>1 DEF Entries
    <3>3. CacheKey[e.from] = c /\ e.at <= now /\ GoodWithin(0, e.from, e.at)
      BY <2>1 DEF IInv, CacheSound
    <3>4. e.at <= now'
      BY <1>1, <3>2, <3>3
    <3> QED
      BY <1>5, <3>2, <3>3, <3>4
  <2>2. ASSUME NEW r \in Handlers, pc[r] = "keys"
        PROVE  sentAt[r] <= now' /\ \A k \in fetched[r] : sentAt[r] <= LastPublished(k)'
    <3>1. sentAt[r] \in Nat /\ fetched[r] \subseteq Keys
      BY DEF IInv, TypeOK
    <3> QED
      BY <1>1, <2>2, <3>1 DEF IInv, CacheSound
  <2> QED
    BY <1>2, <2>1, <2>2 DEF CacheSound
<1>7. BoundedAfterlife'
  <2>1. ASSUME NEW r \in Handlers, NEW t \in Tokens, NEW s \in Nat, t = who[r], s = doneAt[r]
        PROVE  GoodWithin(Ttl, t, s)'
    BY <1>5, <2>1, IdentityConstantsOK DEF IInv, BoundedAfterlife
  <2>2. \A r \in Handlers : doneAt[r] \in Nat
    BY DEF IInv, TypeOK
  <2> QED
    BY <1>2, <2>1, <2>2 DEF BoundedAfterlife
<1> QED
  BY <1>1, <1>3, <1>4, <1>6, <1>7 DEF IInv
-----------------------------------------------------------------------------
\* A step of a handler leaves what was good as it is.
LEMMA HandlerStepKeepsGood ==
    ASSUME UNCHANGED <<cfg, now, issuer>>, NEW lag, NEW t, NEW s
    PROVE  GoodWithin(lag, t, s)' <=> GoodWithin(lag, t, s)
BY DEF GoodWithin, LastPublished, Verifies, Production

\* The parts of the invariant that an answer can disturb.
AnswerInv == TypeOK /\ HandlerInv /\ BoundedAfterlife

KeysOnTheirWay ==
    \A r \in Handlers : pc[r] = "keys" =>
        sentAt[r] <= now /\ \A k \in fetched[r] : sentAt[r] <= LastPublished(k)

\* An answer keeps the bounds if the identity it gives, if any, is within them.
LEMMA AnswerKeeps ==
    ASSUME IInv, NEW r \in Handlers, NEW w \in Tokens \cup {"header", "refused"},
           Answer(r, w), w \in Tokens => GoodWithin(Ttl, w, now),
           UNCHANGED <<cfg, now, issuer, cred>>,
           cache' \in [CacheKeys -> Entries \cup {NoEntry}]
    PROVE  AnswerInv' /\ KeysOnTheirWay' /\ ClockInv'
<1> USE DEF Answer, Move
<1>1. now \in Nat /\ TypeOK'
  BY DEF IInv, TypeOK
<1>2. HandlerInv'
  BY <1>1 DEF IInv, TypeOK, HandlerInv, Verifies, Production
<1>3. KeysOnTheirWay'
  BY DEF IInv, TypeOK, CacheSound, KeysOnTheirWay, LastPublished
<1>4. BoundedAfterlife'
  <2>1. ASSUME NEW q \in Handlers, NEW t \in Tokens, NEW s, t = who'[q], s = doneAt'[q]
        PROVE  GoodWithin(Ttl, t, s)'
    <3>1. GoodWithin(Ttl, t, s)
      BY <2>1 DEF IInv, TypeOK, BoundedAfterlife
    <3> QED
      BY <3>1, HandlerStepKeepsGood
  <2> QED
    BY <2>1 DEF BoundedAfterlife
<1> QED
  BY <1>1, <1>2, <1>3, <1>4 DEF AnswerInv, IInv, ClockInv

\* An answer from the cache, a refusal or a header's name leaves the cache alone.
LEMMA PlainAnswerKeeps ==
    ASSUME IInv, NEW r \in Handlers, NEW w \in Tokens \cup {"header", "refused"},
           Answer(r, w), w \in Tokens => GoodWithin(Ttl, w, now),
           UNCHANGED <<cfg, now, issuer, cache, cred>>
    PROVE  IInv'
<1>1. AnswerInv' /\ KeysOnTheirWay' /\ ClockInv'
  BY AnswerKeeps DEF IInv, TypeOK
<1>2. ASSUME NEW c \in CacheKeys, NEW e, e = cache[c], e # NoEntry
      PROVE  CacheKey[e.from] = c /\ e.at <= now /\ GoodWithin(0, e.from, e.at)'
  BY <1>2, HandlerStepKeepsGood DEF IInv, CacheSound
<1>3. CacheSound'
  BY <1>1, <1>2 DEF CacheSound, KeysOnTheirWay
<1> QED
  BY <1>1, <1>3 DEF IInv, AnswerInv

\* So does an identity that is found good and put into the cache.
LEMMA CachedAnswerKeeps ==
    ASSUME IInv, NEW r \in Handlers, cred[r] \in Tokens, CacheAndAnswer(r),
           GoodWithin(0, cred[r], now), UNCHANGED <<cfg, now, issuer, cred>>
    PROVE  IInv'
<1> DEFINE new == [from |-> cred[r], at |-> now]
<1>1. now \in Nat /\ new \in Entries /\ CacheKey[cred[r]] \in CacheKeys
  BY DEF IInv, TypeOK, Entries, CacheKeys
<1>2. cache' = [cache EXCEPT ![CacheKey[cred[r]]] = new] /\ Answer(r, cred[r])
  BY DEF CacheAndAnswer
<1>3. cache' \in [CacheKeys -> Entries \cup {NoEntry}]
  BY <1>1, <1>2 DEF IInv, TypeOK
<1>4. GoodWithin(Ttl, cred[r], now)
  <2>1. ASSUME NEW x, NEW y, x \in Nat, y \in Nat, now <= x + y + 0
        PROVE  now <= x + y + Ttl
    BY <2>1, <1>1, IdentityConstantsOK
  <2>2. SignedBy[cred[r]] \in Keys => LastPublished(SignedBy[cred[r]]) \in Nat
    BY DEF IInv, TypeOK, LastPublished
  <2>3. Expires[cred[r]] \in Nat /\ Leeway \in Nat /\ FetchLimit \in Nat
    BY IdentityConstantsOK
  <2> QED
    BY <2>1, <2>2, <2>3 DEF GoodWithin
<1>5. AnswerInv' /\ KeysOnTheirWay' /\ ClockInv'
  BY <1>2, <1>3, <1>4, AnswerKeeps
<1>6. ASSUME NEW c \in CacheKeys, NEW e, e = cache'[c], e # NoEntry
      PROVE  CacheKey[e.from] = c /\ e.at <= now /\ GoodWithin(0, e.from, e.at)'
  <2>1. CASE c = CacheKey[cred[r]]
    <3>1. e = new
      BY <1>2, <1>6, <2>1 DEF IInv, TypeOK
    <3>2. GoodWithin(0, e.from, e.at)
      BY <3>1
    <3> QED
      BY <1>1, <2>1, <3>1, <3>2, HandlerStepKeepsGood
  <2>2. CASE c # CacheKey[cred[r]]
    <3>1. e = cache[c]
      BY <1>2, <1>6, <2>2 DEF IInv, TypeOK
    <3> QED
      BY <1>6, <3>1, HandlerStepKeepsGood DEF IInv, CacheSound
  <2> QED
    BY <2>1, <2>2
<1>7. CacheSound'
  BY <1>5, <1>6 DEF CacheSound, KeysOnTheirWay
<1> QED
  BY <1>5, <1>7 DEF IInv, AnswerInv
\* Steps that neither answer nor touch the cache keep it too.
LEMMA QuietStepKeeps ==
    ASSUME IInv, TypeOK', HandlerInv', KeysOnTheirWay',
           UNCHANGED <<cfg, now, issuer, cache, outcome>>
    PROVE  IInv'
<1>1. ASSUME NEW c \in CacheKeys, NEW e, e = cache[c], e # NoEntry
      PROVE  CacheKey[e.from] = c /\ e.at <= now /\ GoodWithin(0, e.from, e.at)'
  BY <1>1, HandlerStepKeepsGood DEF IInv, CacheSound
<1>2. CacheSound'
  BY <1>1 DEF CacheSound, KeysOnTheirWay
<1>3. ASSUME NEW q \in Handlers, NEW t \in Tokens, NEW s, t = who[q], s = doneAt[q]
      PROVE  GoodWithin(Ttl, t, s)'
  BY <1>3, HandlerStepKeepsGood DEF IInv, BoundedAfterlife
<1>4. BoundedAfterlife'
  BY <1>3 DEF BoundedAfterlife
<1> QED
  BY <1>2, <1>4 DEF IInv, ClockInv

\* Every step of a handler keeps the invariant.
LEMMA StepsKeep ==
    ASSUME IInv, NEW r \in Handlers, Arrive(r) \/ ServeKeys(r) \/ Steps(r) \/ Leave(r)
    PROVE  IInv'
<1> USE DEF IInv
<1>0. now \in Nat /\ ("none" \notin Tokens)
  BY IdentityConstantsOK DEF TypeOK
<1>1. CASE Arrive(r)
  <2>1. TypeOK' /\ HandlerInv' /\ KeysOnTheirWay'
    BY <1>1 DEF Arrive, Move, TypeOK, HandlerInv, CacheSound, KeysOnTheirWay, LastPublished,
                Verifies, Production
  <2> QED
    BY <1>1, <2>1, QuietStepKeeps DEF Arrive
<1>2. CASE ResolveHeader(r)
  <2>1. {"header", "refused"} \cap Tokens = {}
    BY IdentityConstantsOK
  <2> QED
    BY <1>2, <2>1, PlainAnswerKeeps DEF ResolveHeader
<1>3. CASE Hit(r)
  <2> DEFINE c == CacheKey[cred[r]]
             e == cache[c]
  <2>1. cred[r] \in Tokens /\ c \in CacheKeys /\ e # NoEntry /\ now - e.at <= Ttl
    BY <1>3 DEF Hit, Fresh, CacheKeys
  <2>2. e \in Entries /\ e.from \in Tokens /\ e.at \in Nat /\ e.at <= now
    BY <2>1 DEF TypeOK, CacheSound, Entries
  <2>3. GoodWithin(0, e.from, e.at)
    BY <2>1 DEF CacheSound
  <2> HIDE DEF e
  <2>4. ASSUME NEW x \in Nat, NEW y \in Nat, e.at <= x + y + 0
        PROVE  now <= x + y + Ttl
    BY <1>0, <2>1, <2>2, <2>4, IdentityConstantsOK
  <2>5. SignedBy[e.from] \in Keys => LastPublished(SignedBy[e.from]) \in Nat
    BY DEF TypeOK, LastPublished
  <2>6. Expires[e.from] \in Nat /\ Leeway \in Nat /\ FetchLimit \in Nat
    BY <2>2, IdentityConstantsOK
  <2>7. GoodWithin(Ttl, e.from, now)
    BY <2>3, <2>4, <2>5, <2>6 DEF GoodWithin
  <2>8. Answer(r, e.from) /\ UNCHANGED <<cfg, now, issuer, cache, cred>>
    BY <1>3 DEF Hit, e
  <2> QED
    BY <2>2, <2>7, <2>8, PlainAnswerKeeps
<1>4. CASE Miss(r)
  <2>1. TypeOK' /\ HandlerInv' /\ KeysOnTheirWay'
    BY <1>4 DEF Miss, Move, TypeOK, HandlerInv, CacheSound, KeysOnTheirWay, LastPublished,
                Verifies, Production
  <2> QED
    BY <1>4, <2>1, QuietStepKeeps DEF Miss
<1>5. CASE RefuseMalformed(r)
  BY <1>5, PlainAnswerKeeps, IdentityConstantsOK DEF RefuseMalformed
<1>6. CASE Unverified(r)
  <2>1. cred[r] \in Tokens /\ GoodWithin(0, cred[r], now)
    BY <1>6 DEF Unverified, HandlerInv, GoodWithin, Verifies
  <2> QED
    BY <1>6, <2>1, CachedAnswerKeeps DEF Unverified
<1>7. CASE VerifyHs256(r)
  <2>1. CASE VerifiesHs256(cred[r])
    <3>1. cred[r] \in Tokens
      BY <1>7 DEF VerifyHs256, HandlerInv
    <3>2. GoodWithin(0, cred[r], now)
      BY <1>0, <2>1, <3>1, IdentityConstantsOK DEF VerifiesHs256, InTime, GoodWithin
    <3> QED
      BY <1>7, <2>1, <3>1, <3>2, CachedAnswerKeeps DEF VerifyHs256
  <2>2. CASE ~VerifiesHs256(cred[r])
    BY <1>7, <2>2, PlainAnswerKeeps, IdentityConstantsOK DEF VerifyHs256
  <2> QED
    BY <2>1, <2>2
<1>8. CASE Fetch(r)
  <2>1. CASE cfg.jwks /\ Move(r, "fetch")
    <3>1. TypeOK' /\ HandlerInv' /\ KeysOnTheirWay'
      BY <1>8, <2>1, <1>0, IdentityConstantsOK DEF Fetch, Answer, Move, TypeOK, HandlerInv, CacheSound, KeysOnTheirWay,
                  LastPublished, Verifies, Production
    <3> QED
      BY <1>8, <2>1, <3>1, QuietStepKeeps DEF Fetch, Answer, Move, TypeOK
  <2>2. CASE Answer(r, "refused")
    BY <1>8, <2>2, PlainAnswerKeeps, IdentityConstantsOK DEF Fetch
  <2> QED
    BY <1>8, <2>1, <2>2 DEF Fetch
<1>9. CASE ServeKeys(r)
  <2>1. TypeOK' /\ HandlerInv'
    BY <1>9 DEF ServeKeys, Move, TypeOK, HandlerInv, Verifies, Production
  <2>2. KeysOnTheirWay'
    BY <1>9 DEF ServeKeys, Move, TypeOK, HandlerInv, CacheSound, KeysOnTheirWay, LastPublished
  <2> QED
    BY <1>9, <2>1, <2>2, QuietStepKeeps DEF ServeKeys
<1>10. CASE VerifyWithKeys(r)
  <2> DEFINE k == SignedBy[cred[r]]
  <2>1. cred[r] \in Tokens /\ k \in fetched[r] /\ now - sentAt[r] <= FetchLimit
    BY <1>10 DEF VerifyWithKeys, HandlerInv, WithinLimit
  <2>2. k \in Keys /\ LastPublished(k) \in Nat /\ sentAt[r] \in Nat /\ sentAt[r] <= LastPublished(k)
    BY <1>10, <2>1 DEF VerifyWithKeys, TypeOK, CacheSound, LastPublished
  <2>3. now <= LastPublished(k) + FetchLimit + 0
    BY <1>0, <2>1, <2>2, IdentityConstantsOK
  <2>4. Production => now <= Expires[cred[r]] + Leeway + 0
    BY <1>0, <1>10, <2>1, IdentityConstantsOK DEF VerifyWithKeys, InTime
  <2>5. GoodWithin(0, cred[r], now)
    BY <2>2, <2>3, <2>4 DEF GoodWithin
  <2> QED
    BY <1>10, <2>1, <2>5, CachedAnswerKeeps DEF VerifyWithKeys
<1>11. CASE FetchFails(r)
  BY <1>11, PlainAnswerKeeps, IdentityConstantsOK DEF FetchFails
<1>12. CASE Leave(r)
  <2>1. TypeOK' /\ HandlerInv' /\ KeysOnTheirWay'
    BY <1>0, <1>12 DEF Leave, Move, TypeOK, Credentials, HandlerInv, CacheSound, KeysOnTheirWay,
                       LastPublished, Verifies, Production
  <2>2. ASSUME NEW c \in CacheKeys, NEW e, e = cache[c], e # NoEntry
        PROVE  CacheKey[e.from] = c /\ e.at <= now /\ GoodWithin(0, e.from, e.at)'
    BY <1>12, <2>2, HandlerStepKeepsGood DEF Leave, CacheSound
  <2>3. CacheSound'
    BY <1>12, <2>1, <2>2 DEF Leave, CacheSound, KeysOnTheirWay
  <2>4. ASSUME NEW q \in Handlers, NEW t \in Tokens, NEW s, t = who'[q], s = doneAt'[q]
        PROVE  GoodWithin(Ttl, t, s)'
    <3>1. q # r /\ t = who[q] /\ s = doneAt[q]
      BY <1>0, <1>12, <2>4 DEF Leave, TypeOK
    <3> QED
      BY <1>12, <3>1, HandlerStepKeepsGood DEF Leave, BoundedAfterlife
  <2> QED
    BY <1>12, <2>1, <2>3, <2>4 DEF Leave, BoundedAfterlife, ClockInv
<1> QED
  BY <1>1, <1>2, <1>3, <1>4, <1>5, <1>6, <1>7, <1>8, <1>9, <1>10, <1>11, <1>12 DEF Steps

-----------------------------------------------------------------------------
\* The environment turns settings into settings.
LEMMA ApplyEnvIsSetting ==
    ASSUME NEW f \in Settings, NEW e \in Environments
    PROVE  ApplyEnv(f, e) \in Settings
<1> DEFINE mode == IF e.mode = "unset" THEN f.mode ELSE e.mode
<1>1. f.mode \in Modes /\ e.mode \in Modes \cup {"unset"}
  BY DEF Settings, Environments
<1>2. mode \in Modes
  BY <1>1
<1>3. /\ (mode = "production" \/ e.signed = "yes" \/ (e.signed = "unset" /\ f.signed)) \in BOOLEAN
      /\ (f.hmac \/ e.hmac) \in BOOLEAN
      /\ (f.jwks \/ e.jwks) \in BOOLEAN
      /\ (f.headers /\ mode # "production") \in BOOLEAN
  BY Zenon
<1> QED
  BY <1>2, <1>3, Zenon DEF ApplyEnv, Settings

\* So a proxy starts with settings, with a file or without.
LEMMA StartingConfigsAreSettings == StartingConfigs \subseteq Settings
<1>1. WithoutFile \in Settings
  BY DEF WithoutFile, Settings, Modes
<1> QED
  BY <1>1, ApplyEnvIsSetting DEF StartingConfigs

\* The invariant holds at the start and is kept by every step.
LEMMA Initially == Init => IInv
<1> SUFFICES ASSUME Init
             PROVE  IInv
  OBVIOUS
<1>1. TypeOK
  <2>1. cfg \in Settings
    BY IdentityConstantsOK, StartingConfigsAreSettings DEF Init
  <2> QED
    BY <2>1 DEF Init, TypeOK, Credentials
<1>2. ClockInv /\ HandlerInv
  BY DEF Init, ClockInv, HandlerInv
<1>3. CacheSound
  BY DEF Init, CacheSound
<1>4. BoundedAfterlife
  BY IdentityConstantsOK DEF Init, BoundedAfterlife
<1> QED
  BY <1>1, <1>2, <1>3, <1>4 DEF IInv

\* ... by time, the identity provider and the handlers alike.
LEMMA Stepwise == IInv /\ [Next]_vars => IInv'
<1> SUFFICES ASSUME IInv, [Next]_vars
             PROVE  IInv'
  OBVIOUS
<1>1. CASE Tick \/ Rotate
  BY <1>1, TimePasses
<1>2. ASSUME NEW r \in Handlers, Arrive(r) \/ ServeKeys(r) \/ Steps(r) \/ Leave(r)
      PROVE  IInv'
  BY <1>2, StepsKeep
<1>3. CASE UNCHANGED vars
  BY <1>3 DEF vars, IInv, TypeOK, ClockInv, HandlerInv, CacheSound, BoundedAfterlife,
              GoodWithin, LastPublished, Verifies, Production
<1> QED
  BY <1>1, <1>2, <1>3 DEF Next

\* No identity outlives its token, or the publication of the key that signed it,
\* by more than the time to live of the cache, the leeway and the limit of one
\* request for keys (auth.rs:18-35, cache.rs:30-37, adapters.rs:144-146).
THEOREM AfterlifeBounded == Spec => []BoundedAfterlife
<1>1. IInv => BoundedAfterlife
  BY DEF IInv
<1> QED
  BY Initially, Stepwise, <1>1, PTL DEF Spec

\* What the cache holds was good when it was put there, under its own key.
THEOREM CacheIsSound == Spec => []CacheSound
<1>1. IInv => CacheSound
  BY DEF IInv
<1> QED
  BY Initially, Stepwise, <1>1, PTL DEF Spec

-----------------------------------------------------------------------------
(***************************************************************************)
(* Whose identity it is.                                                   *)
(***************************************************************************)
\* A handler has an outcome only while it stands at "done", so that a new request
\* never meets the outcome of the one before.
OutcomeInv == \A r \in Handlers : pc[r] # "done" => who[r] = "none"

OwnIInv == IInv /\ OutcomeInv /\ OwnOrSameKey

\* An answer keeps it if the identity it gives is one the credentials allow.
LEMMA OwnAnswerKeeps ==
    ASSUME OwnIInv, NEW r \in Handlers, NEW w, Answer(r, w), UNCHANGED <<cfg, cred>>,
           w \in Tokens => cred[r] \in Tokens /\ CacheKey[w] = CacheKey[cred[r]],
           w = "header" => cred[r] = "header" /\ ~Production
    PROVE  OutcomeInv' /\ OwnOrSameKey'
<1>1. /\ pc' = [pc EXCEPT ![r] = "done"] /\ who' = [who EXCEPT ![r] = w]
      /\ DOMAIN pc = Handlers /\ DOMAIN who = Handlers
  BY DEF Answer, Move, OwnIInv, IInv, TypeOK
<1> QED
  BY <1>1 DEF OwnIInv, OutcomeInv, OwnOrSameKey, Production

\* Handlers answer with the token they were shown or with what the cache holds
\* under its key, and with a header's name only where headers are allowed.
LEMMA OwnStepsKeep ==
    ASSUME OwnIInv, NEW r \in Handlers, Arrive(r) \/ ServeKeys(r) \/ Steps(r) \/ Leave(r)
    PROVE  OutcomeInv' /\ OwnOrSameKey'
<1>0. {"header", "none", "refused"} \cap (Tokens \cup {Malformed}) = {} /\ Malformed \notin Tokens
  BY IdentityConstantsOK
<1>t. /\ DOMAIN pc = Handlers /\ DOMAIN cred = Handlers /\ DOMAIN who = Handlers
      /\ OutcomeInv /\ OwnOrSameKey
      /\ pc[r] = "verify" => cred[r] \in Tokens
      /\ pc[r] = "keys" => cred[r] \in Tokens
  BY DEF OwnIInv, IInv, TypeOK, HandlerInv
<1>1. CASE Arrive(r)
  <2>1. who[r] = "none" /\ who' = who
    BY <1>t, <1>1 DEF Arrive, OutcomeInv
  <2> QED
    BY <1>0, <1>t, <1>1, <2>1 DEF Arrive, Move, OutcomeInv, OwnOrSameKey, Production
<1>2. CASE ResolveHeader(r)
  BY <1>0, <1>2, OwnAnswerKeeps DEF ResolveHeader, HeadersAllowed
<1>3. CASE Hit(r)
  <2> DEFINE c == CacheKey[cred[r]]
  <2>1. cred[r] \in Tokens /\ c \in CacheKeys /\ cache[c] # NoEntry
    BY <1>3 DEF Hit, Fresh, CacheKeys
  <2>2. cache[c] \in Entries /\ CacheKey[cache[c].from] = c
    BY <2>1 DEF OwnIInv, IInv, TypeOK, CacheSound
  <2>3. cache[c].from \in Tokens
    BY <2>2 DEF Entries
  <2>4. Answer(r, cache[c].from) /\ UNCHANGED <<cfg, cred>>
    BY <1>3 DEF Hit
  <2> HIDE DEF c
  <2> QED
    BY <1>0, <2>1, <2>2, <2>3, <2>4, OwnAnswerKeeps DEF c
<1>4. CASE Miss(r) \/ ServeKeys(r)
  BY <1>t, <1>4 DEF Miss, ServeKeys, Move, OutcomeInv, OwnOrSameKey, Production
<1>5. CASE RefuseMalformed(r) \/ FetchFails(r)
  BY <1>0, <1>5, OwnAnswerKeeps DEF RefuseMalformed, FetchFails
<1>6. CASE Unverified(r) \/ VerifyHs256(r) \/ VerifyWithKeys(r)
  <2>1. CASE CacheAndAnswer(r)
    <3>1. Answer(r, cred[r]) /\ UNCHANGED <<cfg, cred>> /\ cred[r] \in Tokens
      BY <1>t, <1>6, <2>1 DEF CacheAndAnswer, Unverified, VerifyHs256, VerifyWithKeys
    <3> QED
      BY <1>0, <3>1, OwnAnswerKeeps
  <2>2. CASE Answer(r, "refused")
    BY <1>0, <1>6, <2>2, OwnAnswerKeeps DEF Unverified, VerifyHs256, VerifyWithKeys
  <2> QED
    BY <1>6, <2>1, <2>2 DEF Unverified, VerifyHs256, VerifyWithKeys
<1>7. CASE Fetch(r)
  <2>1. CASE Answer(r, "refused")
    BY <1>0, <1>7, <2>1, OwnAnswerKeeps DEF Fetch
  <2>2. CASE Move(r, "fetch") /\ UNCHANGED outcome
    BY <1>t, <1>7, <2>2 DEF Fetch, Move, OutcomeInv, OwnOrSameKey, Production
  <2> QED
    BY <1>7, <2>1, <2>2 DEF Fetch
<1>8. CASE Leave(r)
  BY <1>0, <1>t, <1>8 DEF Leave, Move, OutcomeInv, OwnOrSameKey, Production
<1> QED
  BY <1>1, <1>2, <1>3, <1>4, <1>5, <1>6, <1>7, <1>8 DEF Steps

\* Every step keeps whose identity an answer is.
LEMMA OwnStepwise == OwnIInv /\ [Next]_vars => OwnIInv'
<1> SUFFICES ASSUME OwnIInv, [Next]_vars
             PROVE  OwnIInv'
  OBVIOUS
<1>1. IInv'
  BY Stepwise DEF OwnIInv
<1>2. ASSUME NEW r \in Handlers, Arrive(r) \/ ServeKeys(r) \/ Steps(r) \/ Leave(r)
      PROVE  OutcomeInv' /\ OwnOrSameKey'
  BY <1>2, OwnStepsKeep
<1>3. ASSUME Tick \/ Rotate \/ UNCHANGED vars
      PROVE  OutcomeInv' /\ OwnOrSameKey'
  <2>1. UNCHANGED <<cfg, pc, cred, who>>
    BY <1>3 DEF Tick, Rotate, vars
  <2> QED
    BY <2>1 DEF OwnIInv, OutcomeInv, OwnOrSameKey, Production
<1> QED
  BY <1>1, <1>2, <1>3 DEF Next, OwnIInv

\* An identity is that of a token with the cache key of the one presented, and a
\* header's name is believed only without a token and outside production
\* (auth.rs:17-56, config.rs:161-165).
THEOREM OwnIdentityOrSameKey == Spec => []OwnOrSameKey
<1>1. Init => OwnIInv
  BY Initially, IdentityConstantsOK DEF Init, OwnIInv, OutcomeInv, OwnOrSameKey
<1>2. OwnIInv => OwnOrSameKey
  BY DEF OwnIInv
<1> QED
  BY <1>1, OwnStepwise, <1>2, PTL DEF Spec

\* What a test expects of an invalid token in every order (regression_suite.rs:162),
\* the proxy does once no two tokens share a cache key: that the key is cut to 32
\* bytes (auth.rs:18) is the only reason why one is ever believed, whatever is
\* cached, rotated or late.
THEOREM WholeKeysRefuseInvalidTokens ==
    ASSUME \A t, u \in Tokens : CacheKey[t] = CacheKey[u] => t = u
    PROVE  Spec => []InvalidTokenRefused
<1>1. OwnIInv => InvalidTokenRefused
  <2> SUFFICES ASSUME OwnIInv, NEW r \in Handlers, cred[r] \in Tokens, Verifies,
                      SignedBy[cred[r]] \notin Keys \cup {Secret}
               PROVE  who[r] \in {"none", "refused"}
    BY DEF InvalidTokenRefused
  <2>1. who[r] \in Tokens \cup {"header", "none", "refused"}
    BY DEF OwnIInv, IInv, TypeOK
  <2>2. who[r] # "header"
    BY IdentityConstantsOK DEF OwnIInv, OwnOrSameKey
  <2>3. ASSUME who[r] \in Tokens PROVE FALSE
    <3>1. who[r] = cred[r]
      BY <2>3 DEF OwnIInv, OwnOrSameKey
    <3>2. GoodWithin(Ttl, who[r], doneAt[r])
      BY <2>3 DEF OwnIInv, IInv, BoundedAfterlife
    <3> QED
      BY <3>1, <3>2 DEF GoodWithin
  <2> QED
    BY <2>1, <2>2, <2>3
<1>2. Init => OwnIInv
  BY Initially, IdentityConstantsOK DEF Init, OwnIInv, OutcomeInv, OwnOrSameKey
<1> QED
  BY <1>1, <1>2, OwnStepwise, PTL DEF Spec

\* The mode has the last word on signatures and headers, wherever it was set.
LEMMA StartsClosed ==
    ASSUME NEW c \in StartingConfigs, c.mode = "production"
    PROVE  c.signed /\ ~c.headers
<1>1. PICK f \in Settings \cup {WithoutFile}, e \in Environments : c = ApplyEnv(f, e)
  BY DEF StartingConfigs
<1> QED
  BY <1>1, Zenon DEF ApplyEnv

\* A production proxy requires signed bundles and takes no header for an identity,
\* whichever of file and environment made it one (config.rs:161-165).
THEOREM ProductionStaysClosed == Spec => []ProductionIsClosed
<1>1. Init => cfg \in Configs
  BY DEF Init
<1>2. cfg \in Configs /\ [Next]_vars => (cfg \in Configs)'
  BY DEF Next, vars, Tick, Rotate, Arrive, ServeKeys, Leave, Steps, ResolveHeader, Hit, Miss,
         RefuseMalformed, Unverified, VerifyHs256, Fetch, VerifyWithKeys, FetchFails
<1>3. cfg \in Configs => ProductionIsClosed
  BY StartsClosed, IdentityConstantsOK DEF ProductionIsClosed, Production
<1> QED
  BY <1>1, <1>2, <1>3, PTL DEF Spec

=============================================================================
