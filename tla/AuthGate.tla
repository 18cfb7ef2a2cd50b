------------------------------- MODULE AuthGate -------------------------------
(***************************************************************************)
(* Authentication of vault-api (services/vault-api/middleware/jwt.go): the *)
(* policy resolved from the environment, the startup guardrails, the JWKS  *)
(* loading done by each of the JWT middlewares main.go registers, and what *)
(* a protected route answers.                                              *)
(*                                                                         *)
(* Every r.With(middleware.JWT) calls JWT once, in order, before the       *)
(* server listens; each call loads its own JWKS and keeps it for good.     *)
(* The identity provider, its outages and its key rotations are the        *)
(* environment.  Tokens are abstracted to what the checks tell apart.      *)
(***************************************************************************)
EXTENDS Integers, Sequences

CONSTANTS Environments, \* the environments a process may be started in
          Tokens,       \* what clients may send as Authorization
          Keys,         \* signing keys of the identity provider
          Forged,       \* a signature no published key verifies
          Nil,          \* a nil *keyfunc.JWKS
          Routes,       \* number of JWT middlewares; the first guards /audit
          DefaultAttempts \* JWKS fetches if the environment does not say (12)

Profiles == {"", "dev", "test", "prod", "staging"}
Switches == {"", "true", "false", "garbled"}
Issuers == {"", "ci-jwks", "other"}
Audiences == {"vault-api", "other"}
Algs == {"RS256", "HS256"}

\* The variables jwt.go reads, as they stand in the environment: "other" is
\* any other AUTH_POLICY, "test" any of the test environments besides dev,
\* "staging" any other name.  Where two names are tried in order (ENV before
\* APP_ENV and its like, JWT_ISSUER before JWT_REQUIRED_ISSUER, and so for
\* the audience) there is a pair.  A list is the set of its non-blank entries,
\* a number is <<n>>, or <<>> if it is unset or no number.
Environment ==
  [policy : {"", "dev", "jwks_strict", "jwks_rbac", "other"},
   app : Profiles \X Profiles, deployment : {"", "prod"}, jwksURL : BOOLEAN,
   issuer : Issuers \X Issuers, audience : (SUBSET Audiences) \X (SUBSET Audiences),
   algs : SUBSET Algs, attempts : Seq(Int), maxTTL : Seq(Int),
   insecure : Switches, legacyRoles : Switches, legacyClaims : Switches,
   legacyKid : Switches, legacyTest : Switches]

\* time: "skewed" is an exp, iat or nbf outside its bound by less than the
\* clock skew, "past" by more.  iat: there is one; then ttl is exp minus iat,
\* in seconds, negative if exp is the earlier.  words: the role names the raw
\* string contains.
Token ==
  [bearer : BOOLEAN, key : Keys \cup {Forged}, kid : BOOLEAN, alg : Algs,
   time : {"live", "skewed", "past", "noexp"}, iat : BOOLEAN, ttl : Int,
   iss : Issuers, aud : SUBSET Audiences, sub : BOOLEAN,
   roles : SUBSET {"auditor", "ingester", "viewer"},
   words : SUBSET {"auditor", "ingester"}]

ASSUME AuthAssumption ==
  /\ Environments \subseteq Environment
  /\ Tokens \subseteq Token
  /\ Forged \notin Keys /\ Nil \notin Keys
  /\ Routes \in Nat \ {0}
  /\ DefaultAttempts \in Nat

VARIABLES env,        \* the environment of this process
          phase,      \* "boot", "register", "serving" or "exited"
          route,      \* the route whose middleware is being built
          attempt,    \* failed JWKS fetches for that route
          jwks,       \* route -> the provider's key it holds, or Nil
          up,         \* the JWKS endpoint answers
          idpKey,     \* the key the provider signs with and publishes
          published,  \* every key it has published
          answer      \* the last request and its answer, or <<>>

process == <<env, phase, route, attempt>>
provider == <<up, idpKey, published>>
vars == <<env, phase, route, attempt, jwks, up, idpKey, published, answer>>
-----------------------------------------------------------------------------
(* The settings, as the code parses them *)

firstNonEmptyEnv(names) == IF names[1] # "" THEN names[1] ELSE names[2]

parseCSVEnvDefault(list, default) == IF list # {} THEN list ELSE default

parseIntEnvDefault(n, fallback) == IF n # <<>> /\ n[1] >= 0 THEN n[1] ELSE fallback

\* The fallback is FALSE at every call.
parseBoolEnvDefault(v) == v = "true"

AppEnv(e) == firstNonEmptyEnv(e.app)

AllowInsecureDev(e) == parseBoolEnvDefault(e.insecure)

RequiredIssuer(e) == firstNonEmptyEnv(e.issuer)

RequiredAudience(e) == parseCSVEnvDefault(e.audience[1], e.audience[2])

\* Mutant: an unset list allows nothing.
AllowedAlgs_NoDefault(e) == e.algs

AllowedAlgs(e) == parseCSVEnvDefault(e.algs, {"RS256"})

MaxAttempts(e) == parseIntEnvDefault(e.attempts, DefaultAttempts)

MaxTokenTTL(e) == parseIntEnvDefault(e.maxTTL, 0)
-----------------------------------------------------------------------------
(* Policy resolution and startup guardrails *)

isTestJWTAllowedEnv(e) == AllowInsecureDev(e) \/ AppEnv(e) \in {"", "dev", "test"}

IsProdStartup(e) == AppEnv(e) = "prod" \/ e.deployment = "prod"

\* AUTH_POLICY, or what the legacy switches amount to.
RequestedMode(e) ==
  LET roles == parseBoolEnvDefault(e.legacyRoles)
      strict == \/ e.jwksURL
                \/ parseBoolEnvDefault(e.legacyKid)
                \/ parseBoolEnvDefault(e.legacyClaims)
  IN  IF e.policy # "" THEN e.policy
      ELSE IF roles THEN "jwks_rbac"
      ELSE IF ~ strict /\ parseBoolEnvDefault(e.legacyTest) THEN "dev"
      ELSE "jwks_strict"

\* dev outside a test environment, and any unknown mode, become jwks_strict.
resolveAuthPolicy(e) ==
  LET strict == [mode |-> "jwks_strict", test |-> FALSE, jwksRequired |-> e.jwksURL,
                 claims |-> TRUE, kid |-> TRUE, roles |-> FALSE]
  IN  IF RequestedMode(e) = "dev" /\ isTestJWTAllowedEnv(e)
      THEN [mode |-> "dev", test |-> TRUE, jwksRequired |-> FALSE,
            claims |-> FALSE, kid |-> FALSE, roles |-> FALSE]
      ELSE IF RequestedMode(e) = "jwks_rbac"
      THEN [strict EXCEPT !.mode = "jwks_rbac", !.jwksRequired = TRUE, !.roles = TRUE]
      ELSE strict

HasRequiredJWTVars(e) == e.jwksURL /\ RequiredIssuer(e) # "" /\ RequiredAudience(e) # {}

\* Mutant: the resolved policy is trusted as it is.
StartupRefused_OnlyVars(e) ==
  resolveAuthPolicy(e).mode # "dev" /\ ~ HasRequiredJWTVars(e)

\* ValidateAuthStartupConfig returns an error.
StartupRefused(e) ==
  LET mode == resolveAuthPolicy(e).mode
  IN  \/ mode = "dev" /\ ~ (AppEnv(e) = "dev" \/ AllowInsecureDev(e))
      \/ mode = "dev" /\ IsProdStartup(e)
      \/ mode # "dev" /\ ~ HasRequiredJWTVars(e)

JwksWanted(e) == resolveAuthPolicy(e).jwksRequired /\ e.jwksURL

strictConfigValid(e) ==
  LET p == resolveAuthPolicy(e)
  IN  /\ p.jwksRequired => e.jwksURL
      /\ p.claims => RequiredIssuer(e) # "" /\ RequiredAudience(e) # {}
-----------------------------------------------------------------------------
(* What one protected route answers *)

\* jwt.ParseWithClaims over keyfunc: the algorithm is allowed, the kid names a
\* key held, the signature verifies, and exp, iat and nbf hold without leeway.
ParseWithClaims(e, key, t) ==
  t.alg \in AllowedAlgs(e) /\ t.kid /\ t.key = key /\ t.time \in {"live", "noexp"}

\* With a limit on the lifetime a token must have both ends, in order.
WithinTTL(e, t) == MaxTokenTTL(e) > 0 => t.iat /\ t.ttl >= 0 /\ t.ttl <= MaxTokenTTL(e)

validateStandardClaims(e, t) ==
  /\ t.sub
  /\ t.time \in {"live", "skewed"}
  /\ RequiredIssuer(e) # "" => t.iss = RequiredIssuer(e)
  /\ RequiredAudience(e) # {} => t.aud \cap RequiredAudience(e) # {}
  /\ WithinTTL(e, t)

hasMinimumRBACRoles(roles) == roles \cap {"auditor", "ingester"} # {}

\* Mutant: a middleware without keys lets the handler decide.
Rejected_FailOpen(e, key, t) ==
  LET p == resolveAuthPolicy(e)
  IN  \/ ~ t.bearer
      \/ p.jwksRequired /\ ~ strictConfigValid(e)
      \/ /\ key # Nil
         /\ ~ (ParseWithClaims(e, key, t) /\ validateStandardClaims(e, t))

\* The middleware answers 401.
Rejected(e, key, t) ==
  LET p == resolveAuthPolicy(e)
  IN  \/ ~ t.bearer
      \/ p.jwksRequired /\ (~ strictConfigValid(e) \/ (e.jwksURL /\ key = Nil))
      \/ /\ key # Nil
         /\ \/ ~ ParseWithClaims(e, key, t)
            \/ p.kid /\ ~ t.kid
            \/ ~ validateStandardClaims(e, t)
            \/ p.roles /\ ~ hasMinimumRBACRoles(t.roles)
      \/ key = Nil /\ ~ p.test

\* The roles put into the context: the token's claim, or the words it contains.
ContextRoles(key, t) == IF key # Nil THEN t.roles ELSE t.words

\* The role check of the handler: GetAudit, or hasCheckpointAccess.
Permitted(r, roles) == IF r = 1 THEN "auditor" \in roles ELSE hasMinimumRBACRoles(roles)

\* The answer to token t of route r, whose middleware holds this key.
Code(e, key, r, t) ==
  IF Rejected(e, key, t) THEN 401
  ELSE IF Permitted(r, ContextRoles(key, t)) THEN 200
  ELSE 403
-----------------------------------------------------------------------------
Init ==
  /\ env \in Environments
  /\ phase = "boot"
  /\ route = 1
  /\ attempt = 0
  /\ jwks = [r \in 1..Routes |-> Nil]
  /\ up \in BOOLEAN
  /\ idpKey \in Keys
  /\ published = {idpKey}
  /\ answer = <<>>

\* ValidateAuthStartupConfig, the first thing main does.
Validate ==
  /\ phase = "boot"
  /\ phase' = IF StartupRefused(env) THEN "exited" ELSE "register"
  /\ UNCHANGED <<env, route, attempt, jwks, provider, answer>>

\* The middleware of this route is done; the next one is built.
NextRoute ==
  /\ route' = route + 1
  /\ attempt' = 0
  /\ UNCHANGED <<env, phase>>

\* JWT on a route that needs no keys, or that has used up its attempts.
SkipJwks ==
  /\ phase = "register" /\ route <= Routes
  /\ ~ JwksWanted(env) \/ attempt = MaxAttempts(env)
  /\ NextRoute
  /\ UNCHANGED <<jwks, provider, answer>>

\* Mutant: the loop waits for the endpoint, however long that takes.
FetchJwks_Forever ==
  /\ phase = "register" /\ route <= Routes
  /\ JwksWanted(env) /\ attempt < MaxAttempts(env)
  /\ up
  /\ jwks' = [jwks EXCEPT ![route] = idpKey]
  /\ NextRoute
  /\ UNCHANGED <<provider, answer>>

\* One round of the loading loop: keyfunc.Get succeeds or is tried again.
FetchJwks ==
  /\ phase = "register" /\ route <= Routes
  /\ JwksWanted(env) /\ attempt < MaxAttempts(env)
  /\ \/ /\ up
        /\ jwks' = [jwks EXCEPT ![route] = idpKey]
        /\ NextRoute
     \/ /\ ~ up
        /\ attempt' = attempt + 1
        /\ UNCHANGED <<jwks, env, phase, route>>
  /\ UNCHANGED <<provider, answer>>

\* ListenAndServe, once every route is registered; main ends if it fails.
Listen ==
  /\ phase = "register" /\ route > Routes
  /\ phase' \in {"serving", "exited"}
  /\ UNCHANGED <<env, route, attempt, jwks, provider, answer>>

\* A request to a protected route.  It reads its middleware's keys once.
Request(r, t) ==
  /\ phase = "serving"
  /\ answer' = [route |-> r, token |-> t, held |-> jwks[r],
                code |-> Code(env, jwks[r], r, t)]
  /\ UNCHANGED <<process, jwks, provider>>

\* keyfunc's hourly refresh of the keys a route holds; a failed one keeps them.
Refresh(r) ==
  /\ jwks[r] # Nil /\ jwks[r] # idpKey /\ up
  /\ jwks' = [jwks EXCEPT ![r] = idpKey]
  /\ UNCHANGED <<process, provider, answer>>

\* The provider retires its key for a new one; its endpoint comes and goes.
Rotate(k) ==
  /\ k \notin published
  /\ idpKey' = k
  /\ published' = published \cup {k}
  /\ UNCHANGED <<process, jwks, up, answer>>

Outage ==
  /\ up' = ~ up
  /\ UNCHANGED <<process, jwks, idpKey, published, answer>>

Startup == Validate \/ SkipJwks \/ FetchJwks \/ Listen

Next ==
  \/ Startup
  \/ \E r \in 1..Routes : Refresh(r) \/ \E t \in Tokens : Request(r, t)
  \/ \E k \in Keys : Rotate(k)
  \/ Outage

Spec == Init /\ [][Next]_vars

\* main runs until it serves or exits, and keyfunc's ticker of every loaded JWKS
\* fires for ever.  Clients and the provider owe nothing.
FairSpec == Spec /\ WF_vars(Startup) /\ \A r \in 1..Routes : WF_vars(Refresh(r))
-----------------------------------------------------------------------------
(* Properties *)

\* A token that passes everything the deployment asks for.
VerifiedToken(t) ==
  /\ t.bearer /\ t.kid /\ t.key \in published /\ t.alg \in AllowedAlgs(env)
  /\ t.time = "live" /\ t.sub
  /\ t.iss = RequiredIssuer(env) /\ t.aud \cap RequiredAudience(env) # {}
  /\ MaxTokenTTL(env) = 0 \/ (t.iat /\ t.ttl \in 0..MaxTokenTTL(env))

\* Who gets past the middleware: in an explicitly insecure, non-production
\* process anybody; everywhere else, whatever combination of settings and
\* legacy switches it started with, only the bearer of a token that a key of
\* the provider signed and whose every claim was checked.
AccessJustified ==
  answer # <<>> /\ answer.code # 401 =>
    \/ (AppEnv(env) = "dev" \/ AllowInsecureDev(env)) /\ ~ IsProdStartup(env) /\ ~ JwksWanted(env)
    \/ VerifiedToken(answer.token)

\* Fail closed: a process that should have keys answers nothing but 401 on a
\* route whose loading loop gave up, although its other routes may have keys.
FailClosed ==
  answer # <<>> /\ resolveAuthPolicy(env).mode # "dev" /\ answer.held = Nil =>
    answer.code = 401

\* exp minus iat of the tokens scripts/ci_jwks.go makes: an hour.
CiLifetime == 3600

\* The tokens scripts/ci_jwks.go makes for the end-to-end tests, signed with
\* the key it serves, and the settings it writes for them.
makeToken(key, roles) ==
  [bearer |-> TRUE, key |-> key, kid |-> TRUE, alg |-> "RS256", time |-> "live",
   iat |-> TRUE, ttl |-> CiLifetime, iss |-> "ci-jwks", aud |-> {"vault-api"}, sub |-> TRUE,
   roles |-> roles, words |-> {}]

CiSettings(e) ==
  e.jwksURL /\ e.issuer = <<"", "ci-jwks">> /\ e.audience = <<{}, {"vault-api"}>> /\ e.algs = {}

\* The lifetime those settings leave to the environment.
CiTooLong(e) == MaxTokenTTL(e) > 0 /\ CiLifetime > MaxTokenTTL(e)

\* What tests/e2e/smoke_test.go expects of such a process on a route that has
\* its keys: an auditor may read the audit log, an ingester gets 403 there and
\* 200 elsewhere, and a token without roles is refused, by jwks_rbac with 401.
\* JWT_MAX_TOKEN_TTL_SECONDS, which those settings leave alone, refuses them
\* all if it is positive and shorter than the tokens live, and changes nothing
\* if it is zero, negative, garbled or exactly their lifetime.
CiTokensServed ==
  answer # <<>> /\ CiSettings(env) /\ answer.held # Nil =>
    /\ answer.token = makeToken(answer.held, {"auditor"}) =>
         answer.code = IF CiTooLong(env) THEN 401 ELSE 200
    /\ answer.token = makeToken(answer.held, {"ingester"}) =>
         answer.code = IF CiTooLong(env) THEN 401 ELSE IF answer.route = 1 THEN 403 ELSE 200
    /\ answer.token = makeToken(answer.held, {}) =>
         answer.code = IF CiTooLong(env) \/ resolveAuthPolicy(env).roles THEN 401 ELSE 403

\* Startup ends, in listening or in an exit, even if the provider never answers.
StartupSettles == <>(phase \in {"serving", "exited"})

\* jwt.go:182: auth is fail-closed only until the JWKS is available.
JwksRecovers ==
  <>[]up => \A r \in 1..Routes :
              (phase = "serving" /\ JwksWanted(env)) ~> (jwks[r] # Nil)
=============================================================================
