------------------------------ MODULE MCAuthGate ------------------------------
(* Environments and tokens for model checking AuthGate. *)
EXTENDS AuthGate

\* The settings scripts/ci_jwks.go writes, in production.
Base ==
  [policy |-> "jwks_strict", app |-> <<"prod", "">>, deployment |-> "", jwksURL |-> TRUE,
   issuer |-> <<"", "ci-jwks">>, audience |-> <<{}, {"vault-api"}>>, algs |-> {},
   attempts |-> <<1>>, maxTTL |-> <<>>, insecure |-> "", legacyRoles |-> "",
   legacyClaims |-> "", legacyKid |-> "", legacyTest |-> ""]

\* AUTH_POLICY, or the legacy switches, which are read only without it.
Policies ==
  {[Base EXCEPT !.policy = p] : p \in {"dev", "jwks_strict", "jwks_rbac", "other"}}
    \cup {[Base EXCEPT !.policy = "", !.legacyRoles = s[1], !.legacyClaims = s[2],
                       !.legacyTest = s[3]] :
           s \in {"", "true"} \X {"", "true"} \X {"garbled", "true"}}
    \cup {[Base EXCEPT !.policy = "", !.legacyKid = "true", !.legacyTest = "true"]}

\* One or more of the JWT settings missing, in every profile: the process
\* exits, or is an insecure one.
Incomplete ==
  {[e EXCEPT !.app = a, !.deployment = d, !.insecure = i, !.jwksURL = j[1],
             !.issuer = j[2], !.audience = j[3]] :
     e \in Policies,
     a \in {<<"", "">>, <<"dev", "">>, <<"test", "">>, <<"", "prod">>, <<"staging", "">>,
            <<"dev", "prod">>},
     d \in {"", "prod"}, i \in {"garbled", "true"},
     j \in (BOOLEAN \X {<<"", "">>, <<"", "ci-jwks">>}
              \X {<<{}, {}>>, <<{}, {"vault-api"}>>}) \ {<<TRUE, Base.issuer, Base.audience>>}}

\* Every JWT setting: each policy in production and in an insecure dev process,
\* and single settings with another value.
Complete ==
  Policies
    \cup {[e EXCEPT !.app = <<"dev", "">>, !.insecure = "true"] : e \in Policies}
    \cup {[Base EXCEPT !.issuer = <<"other", "ci-jwks">>],
          [Base EXCEPT !.audience = <<{"other"}, {"vault-api"}>>],
          [Base EXCEPT !.audience = <<{"other", "vault-api"}, {}>>],
          [Base EXCEPT !.algs = {"HS256"}],
          [Base EXCEPT !.attempts = <<>>], [Base EXCEPT !.attempts = <<-1>>],
          [Base EXCEPT !.attempts = <<0>>],
          [Base EXCEPT !.maxTTL = <<CiLifetime>>], [Base EXCEPT !.maxTTL = <<CiLifetime - 1>>],
          [Base EXCEPT !.maxTTL = <<0>>], [Base EXCEPT !.maxTTL = <<-1>>]}

MCEnvironments == Incomplete \cup Complete

MCStrict == {Base}

Good(k) == makeToken(k, {"auditor"})

\* What a client without a token of the provider can send.
Plain == [Good(Forged) EXCEPT !.kid = FALSE, !.roles = {}, !.words = {"auditor"}]

MCFew == {Good(k) : k \in Keys} \cup {Plain}

\* A good token with one defect, or with other roles.
Defective(k) ==
  {[Good(k) EXCEPT !.bearer = FALSE], [Good(k) EXCEPT !.kid = FALSE],
   [Good(k) EXCEPT !.alg = "HS256"],
   [Good(k) EXCEPT !.time = "skewed"], [Good(k) EXCEPT !.time = "past"],
   [Good(k) EXCEPT !.time = "noexp"], [Good(k) EXCEPT !.ttl = CiLifetime + 1],
   [Good(k) EXCEPT !.iat = FALSE, !.ttl = 0],
   [Good(k) EXCEPT !.time = "skewed", !.ttl = -1],
   [Good(k) EXCEPT !.iss = "other"], [Good(k) EXCEPT !.aud = {"other"}],
   [Good(k) EXCEPT !.sub = FALSE], [Good(k) EXCEPT !.roles = {}],
   [Good(k) EXCEPT !.roles = {"viewer"}], [Good(k) EXCEPT !.roles = {"ingester"}]}

\* Good tokens of every key, forged ones, and the defects of one key's tokens.
MCMany == Defective(CHOOSE k \in Keys : TRUE) \cup MCFew \cup {Good(Forged)}
=============================================================================
