---------------------------- MODULE AuthGateProofs ----------------------------
(***************************************************************************)
(* Proofs about AuthGate, for any environment and token that jwt.go can    *)
(* tell apart, any number of routes, key rotations and outages.            *)
(***************************************************************************)
EXTENDS AuthGate, TLAPS

-----------------------------------------------------------------------------
(* The resolved policy *)

\* The test decoder goes with the mode dev and with nothing else, and dev
\* never loads keys.
LEMMA DevPolicy ==
  ASSUME NEW e \in Environment
  PROVE  LET p == resolveAuthPolicy(e)
         IN  /\ p.mode = "dev" => p.test /\ ~ p.jwksRequired
             /\ p.mode # "dev" => ~ p.test
<1>1. CASE RequestedMode(e) = "dev" /\ isTestJWTAllowedEnv(e)
  BY <1>1 DEF resolveAuthPolicy
<1>2. CASE ~ (RequestedMode(e) = "dev" /\ isTestJWTAllowedEnv(e))
  <2>1. CASE RequestedMode(e) = "jwks_rbac"
    BY <1>2, <2>1 DEF resolveAuthPolicy
  <2>2. CASE RequestedMode(e) # "jwks_rbac"
    BY <1>2, <2>2 DEF resolveAuthPolicy
  <2>. QED
    BY <2>1, <2>2
<1>. QED
  BY <1>1, <1>2

\* Only a policy other than dev loads keys, and main serves under one only with
\* every JWT setting present.
LEMMA KeysMeanStrict ==
  ASSUME NEW e \in Environment, ~ StartupRefused(e), JwksWanted(e)
  PROVE  /\ resolveAuthPolicy(e).mode # "dev"
         /\ RequiredIssuer(e) # "" /\ RequiredAudience(e) # {}
  BY DevPolicy DEF JwksWanted, StartupRefused, HasRequiredJWTVars

\* The number settings are never negative.
LEMMA TTLIsNat ==
  ASSUME NEW e \in Environment
  PROVE  MaxTokenTTL(e) \in Nat
<1>. DEFINE n == e.maxTTL
<1>1. n \in Seq(Int)
  BY DEF Environment
<1>2. n # <<>> => n[1] \in Int
  BY <1>1
<1>3. MaxTokenTTL(e) = IF n # <<>> /\ n[1] >= 0 THEN n[1] ELSE 0
  BY DEF MaxTokenTTL, parseIntEnvDefault
<1>. HIDE DEF n
<1>. QED
  BY <1>2, <1>3

\* A middleware that holds a key lets a token through only after checking its
\* signature with that key, its algorithm and every claim.
LEMMA KeyedAccess ==
  ASSUME NEW e \in Environment, ~ StartupRefused(e), JwksWanted(e),
         NEW key, key # Nil, NEW t \in Token, ~ Rejected(e, key, t)
  PROVE  /\ t.bearer /\ t.kid /\ t.key = key /\ t.alg \in AllowedAlgs(e)
         /\ t.time = "live" /\ t.sub
         /\ t.iss = RequiredIssuer(e) /\ t.aud \cap RequiredAudience(e) # {}
         /\ MaxTokenTTL(e) = 0 \/ (t.iat /\ t.ttl \in 0..MaxTokenTTL(e))
<1>1. t.bearer /\ ParseWithClaims(e, key, t) /\ validateStandardClaims(e, t)
  BY DEF Rejected
<1>2. t.time = "live"
  BY <1>1 DEF ParseWithClaims, validateStandardClaims
<1>3. MaxTokenTTL(e) = 0 \/ (t.iat /\ t.ttl \in 0..MaxTokenTTL(e))
  <2>1. MaxTokenTTL(e) > 0 => t.iat /\ t.ttl >= 0 /\ t.ttl <= MaxTokenTTL(e)
    BY <1>1, Zenon DEF validateStandardClaims, WithinTTL
  <2>2. t.ttl \in Int
    BY DEF Token
  <2>3. MaxTokenTTL(e) > 0 => t.ttl \in 0..MaxTokenTTL(e)
    BY <2>1, <2>2, TTLIsNat
  <2>. QED
    BY <2>1, <2>3, TTLIsNat
<1>4. /\ t.sub /\ t.iss = RequiredIssuer(e)
      /\ t.aud \cap RequiredAudience(e) # {}
  BY <1>1, KeysMeanStrict DEF validateStandardClaims
<1>. QED
  BY <1>1, <1>2, <1>3, <1>4 DEF ParseWithClaims

\* A middleware without a key lets a token through only in the mode dev, which
\* main accepts only of an explicitly insecure, non-production process.
LEMMA KeylessAccess ==
  ASSUME NEW e \in Environment, ~ StartupRefused(e),
         NEW t \in Token, ~ Rejected(e, Nil, t)
  PROVE  /\ resolveAuthPolicy(e).mode = "dev"
         /\ AppEnv(e) = "dev" \/ AllowInsecureDev(e)
         /\ ~ IsProdStartup(e) /\ ~ JwksWanted(e)
<1>1. resolveAuthPolicy(e).test
  BY DEF Rejected
<1>2. resolveAuthPolicy(e).mode = "dev"
  BY <1>1, DevPolicy
<1>3. ~ resolveAuthPolicy(e).jwksRequired
  BY <1>2, DevPolicy
<1>. QED
  BY <1>2, <1>3 DEF StartupRefused, JwksWanted
-----------------------------------------------------------------------------
(* The process *)

\* A process past the startup checks passed them; keys are only held where the
\* policy wants them, and are keys the provider has published; the last answer
\* was computed from a key that the route held at that moment.
GateInv ==
  /\ env \in Environments
  /\ phase \in {"register", "serving"} => ~ StartupRefused(env)
  /\ jwks \in [1..Routes -> published \cup {Nil}]
  /\ idpKey \in published
  /\ \A r \in 1..Routes : jwks[r] # Nil => phase # "boot" /\ JwksWanted(env)
  /\ answer # <<>> =>
       /\ ~ StartupRefused(env)
       /\ answer.route \in 1..Routes /\ answer.token \in Tokens
       /\ answer.held \in published \cup {Nil}
       /\ answer.held # Nil => JwksWanted(env)
       /\ answer.code = Code(env, answer.held, answer.route, answer.token)

LEMMA GateInvariant == Spec => []GateInv
<1>1. Init => GateInv
  BY DEF Init, GateInv
<1>2. ASSUME GateInv, [Next]_vars PROVE GateInv'
  <2> USE <1>2 DEF GateInv, process, provider
  <2>1. CASE Validate
    BY <2>1 DEF Validate
  <2>2. CASE SkipJwks
    BY <2>2 DEF SkipJwks, NextRoute
  <2>3. CASE FetchJwks
    BY <2>3 DEF FetchJwks, NextRoute
  <2>4. CASE Listen
    BY <2>4 DEF Listen
  <2>5. ASSUME NEW r \in 1..Routes, NEW t \in Tokens, Request(r, t) PROVE GateInv'
    BY <2>5 DEF Request
  <2>6. ASSUME NEW r \in 1..Routes, Refresh(r) PROVE GateInv'
    BY <2>6 DEF Refresh
  <2>7. ASSUME NEW k \in Keys, Rotate(k) PROVE GateInv'
    BY <2>7 DEF Rotate
  <2>8. CASE Outage
    BY <2>8 DEF Outage
  <2>9. CASE UNCHANGED vars
    BY <2>9 DEF vars
  <2>. QED
    BY <2>1, <2>2, <2>3, <2>4, <2>5, <2>6, <2>7, <2>8, <2>9 DEF Next, Startup
<1>. QED
  BY <1>1, <1>2, PTL DEF Spec

\* In every process that jwt.go lets start, whatever its settings and legacy
\* switches, only a verified token gets past the middleware, unless the
\* process is explicitly insecure and not in production.
THEOREM AccessTheorem == Spec => []AccessJustified
<1>1. ASSUME GateInv, answer # <<>>, answer.code # 401
      PROVE  \/ /\ AppEnv(env) = "dev" \/ AllowInsecureDev(env)
                /\ ~ IsProdStartup(env) /\ ~ JwksWanted(env)
             \/ VerifiedToken(answer.token)
  <2>. DEFINE t == answer.token
  <2>1. /\ env \in Environment /\ t \in Token /\ ~ StartupRefused(env)
        /\ answer.held \in published \cup {Nil}
        /\ answer.held # Nil => JwksWanted(env)
    BY <1>1, AuthAssumption DEF GateInv
  <2>2. ~ Rejected(env, answer.held, t)
    BY <1>1 DEF GateInv, Code
  <2>. HIDE DEF t
  <2>3. CASE answer.held = Nil
    BY <2>1, <2>2, <2>3, KeylessAccess
  <2>4. CASE answer.held # Nil
    <3>1. answer.held \in published /\ JwksWanted(env)
      BY <2>1, <2>4
    <3>2. VerifiedToken(t)
      BY <2>1, <2>2, <2>4, <3>1, KeyedAccess DEF VerifiedToken
    <3>. QED
      BY <3>2 DEF t
  <2>. QED
    BY <2>3, <2>4
<1>2. GateInv => AccessJustified
  BY <1>1 DEF AccessJustified
<1>. QED
  BY <1>2, GateInvariant, PTL

\* A route whose loading loop gave up answers 401 to everything, for any
\* number of routes that did get keys.
THEOREM FailClosedTheorem == Spec => []FailClosed
<1>1. GateInv => FailClosed
  <2>. SUFFICES ASSUME GateInv, answer # <<>>, resolveAuthPolicy(env).mode # "dev",
                       answer.held = Nil
                PROVE  answer.code = 401
    BY DEF FailClosed
  <2>1. /\ env \in Environment /\ answer.token \in Token /\ ~ StartupRefused(env)
        /\ answer.code = Code(env, Nil, answer.route, answer.token)
    BY AuthAssumption DEF GateInv
  <2>2. Rejected(env, Nil, answer.token)
    BY <2>1, KeylessAccess
  <2>. QED
    BY <2>1, <2>2 DEF Code
<1>. QED
  BY <1>1, GateInvariant, PTL

\* What ci_jwks.go's settings and tokens amount to once a route has its key.
LEMMA CiAccess ==
  ASSUME NEW e \in Environment, ~ StartupRefused(e), JwksWanted(e), CiSettings(e),
         NEW key, key # Nil, NEW roles
  PROVE  Rejected(e, key, makeToken(key, roles)) <=>
           CiTooLong(e) \/ (resolveAuthPolicy(e).roles /\ ~ hasMinimumRBACRoles(roles))
<1>. DEFINE t == makeToken(key, roles)
<1>1. /\ RequiredIssuer(e) = "ci-jwks" /\ RequiredAudience(e) = {"vault-api"}
      /\ AllowedAlgs(e) = {"RS256"} /\ e.jwksURL
  <2>1. RequiredIssuer(e) = "ci-jwks"
    <3>1. e.issuer = <<"", "ci-jwks">>
      BY Zenon DEF CiSettings
    <3>2. ASSUME NEW names, names = <<"", "ci-jwks">>
          PROVE  firstNonEmptyEnv(names) = "ci-jwks"
      BY <3>2 DEF firstNonEmptyEnv
    <3>. QED
      BY <3>1, <3>2, Zenon DEF RequiredIssuer
  <2>2. RequiredAudience(e) = {"vault-api"}
    <3>1. e.audience = <<{}, {"vault-api"}>>
      BY Zenon DEF CiSettings
    <3>. QED
      BY <3>1 DEF RequiredAudience, parseCSVEnvDefault
  <2>3. AllowedAlgs(e) = {"RS256"} /\ e.jwksURL
    BY Zenon DEF CiSettings, AllowedAlgs, parseCSVEnvDefault
  <2>. QED
    BY <2>1, <2>2, <2>3
<1>2. /\ t.bearer /\ t.key = key /\ t.kid /\ t.alg = "RS256" /\ t.time = "live" /\ t.iat
      /\ t.ttl = CiLifetime /\ t.iss = "ci-jwks" /\ t.aud = {"vault-api"} /\ t.sub /\ t.roles = roles
  BY DEF makeToken
<1>. HIDE DEF t
<1>3. ParseWithClaims(e, key, t)
  BY <1>1, <1>2 DEF ParseWithClaims
<1>4. validateStandardClaims(e, t) <=> ~ CiTooLong(e)
  <2>1. WithinTTL(e, t) <=> ~ CiTooLong(e)
    <3>1. t.ttl \in Nat
      BY <1>2 DEF CiLifetime
    <3>2. WithinTTL(e, t) <=> (MaxTokenTTL(e) > 0 => t.ttl <= MaxTokenTTL(e))
      <4>1. t.ttl >= 0
        BY <3>1
      <4>. QED
        BY <1>2, <4>1, Zenon DEF WithinTTL
    <3>. QED
      BY <1>2, <3>1, <3>2, TTLIsNat DEF CiTooLong
  <2>2. t.aud \cap RequiredAudience(e) # {}
    BY <1>1, <1>2
  <2>. QED
    BY <1>1, <1>2, <2>1, <2>2 DEF validateStandardClaims
<1>5. strictConfigValid(e)
  BY <1>1 DEF strictConfigValid
<1>6. Rejected(e, key, t) <=>
        CiTooLong(e) \/ (resolveAuthPolicy(e).roles /\ ~ hasMinimumRBACRoles(t.roles))
  BY <1>2, <1>3, <1>4, <1>5, Zenon DEF Rejected
<1>. QED
  BY <1>2, <1>6 DEF t

\* The end-to-end tests get the answers they expect from any process that was
\* started with their settings, in whatever profile and mode, unless it limits
\* the lifetime of tokens to less than theirs.
THEOREM CiTheorem == Spec => []CiTokensServed
<1>1. GateInv => CiTokensServed
  <2>. SUFFICES ASSUME GateInv, answer # <<>>, CiSettings(env), answer.held # Nil
                PROVE  /\ answer.token = makeToken(answer.held, {"auditor"}) =>
                            answer.code = IF CiTooLong(env) THEN 401 ELSE 200
                       /\ answer.token = makeToken(answer.held, {"ingester"}) =>
                            answer.code = IF CiTooLong(env) THEN 401
                                          ELSE IF answer.route = 1 THEN 403 ELSE 200
                       /\ answer.token = makeToken(answer.held, {}) =>
                            answer.code = IF CiTooLong(env) \/ resolveAuthPolicy(env).roles
                                            THEN 401 ELSE 403
    BY DEF CiTokensServed
  <2>1. /\ env \in Environment /\ ~ StartupRefused(env) /\ JwksWanted(env)
        /\ answer.code = Code(env, answer.held, answer.route, answer.token)
    BY AuthAssumption DEF GateInv
  <2>2. ASSUME NEW roles, answer.token = makeToken(answer.held, roles)
        PROVE  /\ ContextRoles(answer.held, answer.token) = roles
               /\ Rejected(env, answer.held, answer.token) <=>
                    CiTooLong(env)
                      \/ (resolveAuthPolicy(env).roles /\ ~ hasMinimumRBACRoles(roles))
    <3>1. ContextRoles(answer.held, answer.token) = roles
      BY <2>2 DEF ContextRoles, makeToken
    <3>. QED
      BY <2>1, <2>2, <3>1, CiAccess
  <2>3. ASSUME answer.token = makeToken(answer.held, {"auditor"})
        PROVE  answer.code = IF CiTooLong(env) THEN 401 ELSE 200
    BY <2>1, <2>2, <2>3 DEF Code, Permitted, hasMinimumRBACRoles
  <2>4. ASSUME answer.token = makeToken(answer.held, {"ingester"})
        PROVE  answer.code = IF CiTooLong(env) THEN 401
                             ELSE IF answer.route = 1 THEN 403 ELSE 200
    BY <2>1, <2>2, <2>4 DEF Code, Permitted, hasMinimumRBACRoles
  <2>5. ASSUME answer.token = makeToken(answer.held, {})
        PROVE  answer.code = IF CiTooLong(env) \/ resolveAuthPolicy(env).roles
                               THEN 401 ELSE 403
    BY <2>1, <2>2, <2>5 DEF Code, Permitted, hasMinimumRBACRoles
  <2>. QED
    BY <2>3, <2>4, <2>5
<1>. QED
  BY <1>1, GateInvariant, PTL
=============================================================================
