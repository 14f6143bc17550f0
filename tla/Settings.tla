------------------------------ MODULE Settings ------------------------------
(***************************************************************************)
(* The settings of a process (config.py): what the guard of production     *)
(* refuses, and the two choices other modules derive from them, the        *)
(* signing keys and the model provider.  A value is kept as far as the     *)
(* guard distinguishes it; every environment but production is             *)
(* "development".                                                          *)
(***************************************************************************)

Setting == [
  environment: {"development", "production"},
  database:    {"sqlite", "postgres"},
  privateKey:  BOOLEAN,                          \* JWT_PRIVATE_KEY is set
  publicKey:   BOOLEAN,
  sakanaKey:   {"unset", "placeholder", "real"},
  allowMock:   BOOLEAN,
  origins:     SUBSET {"https", "http", "*"},    \* ALLOWED_ORIGINS
  email:       {"console", "smtp", "memory"},
  smtpHost:    BOOLEAN,
  frontend:    {"http", "https"},                \* FRONTEND_BASE_URL
  auth0Domain: BOOLEAN,
  auth0Issuer: BOOLEAN]

\* Mutated: one of the two signing keys is enough.
Acceptable_AnyKey(s) ==
  /\ s.database = "postgres" /\ (s.privateKey \/ s.publicKey)
  /\ ~s.allowMock /\ s.sakanaKey = "real"
  /\ s.origins = {"https"} /\ s.email # "console" /\ s.frontend = "https"

\* No problem is found by the guard.
Acceptable(s) ==
  /\ s.database # "sqlite"
  /\ s.privateKey /\ s.publicKey
  /\ ~s.allowMock
  /\ s.sakanaKey \notin {"unset", "placeholder"}
  /\ s.origins # {} /\ s.origins \intersect {"*", "http"} = {}
  /\ s.email # "console"
  /\ s.email = "smtp" => s.smtpHost
  /\ s.frontend = "https"
  /\ s.auth0Domain <=> s.auth0Issuer

InProduction(s) == s.environment = "production"

\* Settings() raises, and the process does not start, unless this holds.
Boots(s) == InProduction(s) => Acceptable(s)

\* The provider get_llm_client answers with; with "none" it raises.
LlmEnabled(s) == s.sakanaKey = "real"

Provider(s) ==
  CASE LlmEnabled(s) -> "sakana"
    [] ~LlmEnabled(s) /\ s.allowMock -> "mock"
    [] OTHER -> "none"

\* get_keys uses the configured pair only if both halves are set.
KeysConfigured(s) == s.privateKey /\ s.publicKey
=============================================================================
