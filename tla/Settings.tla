------------------------------- MODULE Settings ------------------------------
(***************************************************************************)
(* The settings a process is started with, config.py, as far as start-up   *)
(* and the provider calls depend on them.  Every process builds its        *)
(* Settings before it does anything else, and one whose settings the       *)
(* validator refuses does nothing at all.                                  *)
(***************************************************************************)

Adapters == {"mock", "openai", "ollama"}

(* A secret is "long" if it passes the length and sample tests; an empty   *)
(* key is what compose.yaml passes on when none is configured.             *)
Settings == [environment : {"development", "test", "production"},
             database : {"sqlite", "postgresql"},
             percent : BOOLEAN,             \* a "%" in RX_DATABASE_URL
             auth_secret : {"short", "long"},
             bootstrap_admin_password : {"unset", "sample", "own"},
             auto_create_schema : BOOLEAN,
             provider : Adapters,
             openai_api_key : {"unset", "empty", "given"}]

(* Settings.validate_production *)
Valid(s) ==
    /\ s.environment = "production" =>
          /\ s.auth_secret = "long"
          /\ s.bootstrap_admin_password # "sample"
          /\ s.database = "postgresql"
    /\ s.provider = "openai" => s.openai_api_key = "given"

(* migrations/env.py hands the URL to a ConfigParser, which takes a "%" as *)
(* the beginning of an interpolation and refuses it.                       *)
Migratable(s) == Valid(s) /\ ~s.percent
===============================================================================
