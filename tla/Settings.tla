------------------------------ MODULE Settings ------------------------------
(***************************************************************************)
(* Where a setting comes from (schemas/settings.py): the environment, the  *)
(* file .env.<name> and the defaults of the class, for each of the groups  *)
(* of settings, and which rows a training reads for it (preprocess.load).  *)
(*                                                                         *)
(* An environment, a .env file and the defaults of a group are functions   *)
(* from the names of the fields they set.  A value is a text or a          *)
(* reference, written file:<path>; files are a function from paths.        *)
(***************************************************************************)
EXTENDS Integers, Sequences

Text(t) == [is |-> "text", text |-> t]
File(p) == [is |-> "file", path |-> p]

\* What FileNotFoundError and ValidationError leave of the program.
Fails == [is |-> "failure"]

Groups == {"data", "registry", "gcp", "mlflow", "obs", "openai", "deepcab"}

\* The classes that replace their source of environment variables.
Resolving == {"obs", "openai", "deepcab"}

\* FileUriEnvSettingsSource: the contents of the file.
Resolve(value, files) == IF value.is # "file" THEN value
                         ELSE IF value.path \in DOMAIN files THEN Text(files[value.path])
                         ELSE Fails

\* The sources of a group, in order; the secrets directory is not configured.
Value(group, field, env, dotenv, files, defaults) ==
  CASE field \in DOMAIN env -> IF group \in Resolving THEN Resolve(env[field], files)
                                                      ELSE env[field]
    [] field \notin DOMAIN env /\ field \in DOMAIN dotenv -> dotenv[field]
    [] OTHER -> defaults[field]

-----------------------------------------------------------------------------
(* The name of the environment.                                            *)

AppEnvs == {"local", "dev", "staging", "prod"}

\* _env_file, when the module is imported: the first that is not empty.
EnvFile(env) ==
  LET set(name) == name \in DOMAIN env /\ env[name] # ""
  IN IF set("DEEPCAB_ENV") THEN env["DEEPCAB_ENV"]
     ELSE IF set("APP_ENV") THEN env["APP_ENV"] ELSE "dev"

\* Settings.app_env: the sources are merged name by name, then DEEPCAB_ENV counts before
\* APP_ENV, wherever each is from; the value must be one of the names.
AppEnv(env, dotenv) ==
  LET set == DOMAIN env \cup DOMAIN dotenv
      merged(name) == IF name \in DOMAIN env THEN env[name] ELSE dotenv[name]
      name == IF "DEEPCAB_ENV" \in set THEN merged("DEEPCAB_ENV")
              ELSE IF "APP_ENV" \in set THEN merged("APP_ENV") ELSE "dev"
  IN IF name \in AppEnvs THEN Text(name) ELSE Fails

-----------------------------------------------------------------------------
(* Users of the settings.                                                  *)

\* get_settings: what the first call found, until the cache is cleared.
Current(cached, fresh) == IF cached = <<>> THEN fresh ELSE cached[1]

Sources == {"local", "query", "cloud"}

\* load: the store unless BigQuery is asked for.
ReadsFrom(source) == IF source = "query" THEN "bigquery" ELSE "parquet"

\* api_key_guard: the key a request has to show, "" for none.
Expected(deepcab, openai) == IF deepcab # "" THEN deepcab ELSE openai
Admits(shown, deepcab, openai) ==
  Expected(deepcab, openai) # "" => shown = Expected(deepcab, openai)

\* _resolve_cors_origins, for a list that is split already; the API does not start with
\* every origin in production.
Origins(listed, appEnv) ==
  IF appEnv = "prod" /\ \E i \in DOMAIN listed : listed[i] = "*" THEN Fails
  ELSE [is |-> "origins", origins |-> SelectSeq(listed, LAMBDA o : o # "")]
=============================================================================
