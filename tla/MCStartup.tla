------------------------------ MODULE MCStartup ------------------------------
(***************************************************************************)
(* Deployments for TLC: those that differ in at most one setting from the  *)
(* one compose.yaml describes or from the defaults of .env.example.        *)
(***************************************************************************)
EXTENDS Deployment

CONSTANTS api1, api2

Compose == [environment |-> "production", database |-> "postgresql", percent |-> FALSE,
            auth_secret |-> "long", bootstrap_admin_password |-> "own",
            auto_create_schema |-> FALSE, provider |-> "mock",
            openai_api_key |-> "empty"]
Example == [environment |-> "development", database |-> "sqlite", percent |-> FALSE,
            auth_secret |-> "short", bootstrap_admin_password |-> "sample",
            auto_create_schema |-> TRUE, provider |-> "mock",
            openai_api_key |-> "empty"]

Near(s, t) == Cardinality({f \in DOMAIN s : s[f] # t[f]}) <= 1

MCProfiles == {s \in Settings : Near(s, Compose) \/ Near(s, Example)}
MCTexts == {<<>>, <<"one">>, <<"one", "two">>, <<"one", "two", "one">>}
===============================================================================
