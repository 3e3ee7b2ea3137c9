-------------------------------- MODULE Settings --------------------------------
(***************************************************************************)
(* What the environment makes of the process: internal/config/config.go,   *)
(* which loads defaults, overrides them by environment variables, decodes  *)
(* the lot into a Config and validates it, and what of a Config the        *)
(* telemetry packages refuse later.                                        *)
(*                                                                         *)
(* An environment is a function from names of variables, upper-cased, to   *)
(* texts.  koanf and mapstructure are external: of texts only what they    *)
(* decode to matters, and each kind of value has a few texts to stand for  *)
(* all.  Ratios are in hundredths.                                         *)
(***************************************************************************)
EXTENDS Integers

\* The variables the program reads, by the type of the field they end in.
TextVar ==
    {"APP_NAME", "APP_VERSION", "ENV_NAME", "LOG_FORMAT",
     "PG_USER", "PG_PASS", "PG_HOST", "PG_DB", "PG_SSL_MODE", "PG_SCHEMA",
     "REDIS_URL", "LOGTO_OIDC_ENDPOINT", "LOGTO_ISSUER", "LOGTO_ENDPOINT",
     "LOGTO_MGMT_CLIENT_ID", "LOGTO_MGMT_CLIENT_SECRET", "LOGTO_MGMT_API_RESOURCE",
     "LOGTO_APP_CLIENT_ID", "LOGTO_APP_CLIENT_SECRET", "LOGTO_DEVICE_APP_CLIENT_ID",
     "OTEL_SERVICE_NAME", "OTEL_EXPORTER_OTLP_ENDPOINT"}
NumberVar == {"APP_PORT", "PG_PORT", "PG_MAX_CONNS", "PG_MIN_CONNS"}
DurationVar ==
    {"PG_MAX_CONN_LIFETIME", "PG_MAX_CONN_IDLE_TIME", "PG_HEALTH_CHECK_PERIOD",
     "PG_CONNECT_TIMEOUT", "OTEL_EXPORTER_TIMEOUT", "OTEL_EXPORT_INTERVAL"}
FlagVar ==
    {"OTEL_ENABLED", "OTEL_EXPORTER_INSECURE",
     "OTEL_ENABLE_TRACES", "OTEL_ENABLE_METRICS", "OTEL_ENABLE_LOGS"}
RatioVar == {"OTEL_SAMPLER_RATIO"}
Var == TextVar \cup NumberVar \cup DurationVar \cup FlagVar \cup RatioVar

\* What the types of Config accept.  An empty text is zero or false, but no duration.
NumberText == {"", "0", "1", "10", "3033", "5432"}
DurationText == {"0s", "5s", "15s", "30s", "1m", "10m", "1h"}
FlagText == {"", "0", "1", "true", "false"}
RatioText == {"", "0", "0.5", "1", "10"}
FormatText == {"text", "json"}
Text == NumberText \cup DurationText \cup FlagText \cup RatioText \cup FormatText \cup {"word"}

NumberOf(s) ==
    CASE s = "1" -> 1 [] s = "10" -> 10 [] s = "3033" -> 3033 [] s = "5432" -> 5432
      [] OTHER -> 0
FlagOf(s) == s \in {"1", "true"}
RatioOf(s) == CASE s = "0.5" -> 50 [] s = "1" -> 100 [] s = "10" -> 1000 [] OTHER -> 0

\* defaultConfig; "word" is any text that is not empty.  What has no default is empty.
Default(v) ==
    CASE v \in {"APP_NAME", "APP_VERSION", "ENV_NAME", "PG_SSL_MODE", "PG_SCHEMA",
                "REDIS_URL", "LOGTO_OIDC_ENDPOINT", "LOGTO_ISSUER", "LOGTO_ENDPOINT",
                "OTEL_SERVICE_NAME", "OTEL_EXPORTER_OTLP_ENDPOINT"} -> "word"
      [] v = "LOG_FORMAT" -> "text"
      [] v = "APP_PORT" -> "3033" [] v = "PG_PORT" -> "5432"
      [] v = "PG_MAX_CONNS" -> "10" [] v = "PG_MIN_CONNS" -> "1"
      [] v = "PG_MAX_CONN_LIFETIME" -> "1h" [] v = "PG_MAX_CONN_IDLE_TIME" -> "10m"
      [] v = "PG_HEALTH_CHECK_PERIOD" -> "1m" [] v = "PG_CONNECT_TIMEOUT" -> "15s"
      [] v = "OTEL_EXPORTER_TIMEOUT" -> "30s" [] v = "OTEL_EXPORT_INTERVAL" -> "5s"
      [] v = "OTEL_ENABLED" -> "false" [] v \in FlagVar \ {"OTEL_ENABLED"} -> "true"
      [] v = "OTEL_SAMPLER_RATIO" -> "1"
      [] OTHER -> ""

\* A variable that is set counts, even if it is set to nothing; names that are not
\* in Var are other programs'.
Value(e, v) == IF v \in DOMAIN e THEN e[v] ELSE Default(v)

Decodes(e) ==
    /\ \A v \in NumberVar : Value(e, v) \in NumberText
    /\ \A v \in DurationVar : Value(e, v) \in DurationText
    /\ \A v \in FlagVar : Value(e, v) \in FlagText
    /\ \A v \in RatioVar : Value(e, v) \in RatioText

\* validate: what the database needs and no default can guess.
Missing(e) == {v \in {"PG_USER", "PG_PASS", "PG_HOST", "PG_DB"} : Value(e, v) = ""}

Loads(e) == Decodes(e) /\ Missing(e) = {}

Provider == {"traces", "metrics", "logs"}

Enables(p) ==
    CASE p = "traces" -> "OTEL_ENABLE_TRACES" [] p = "metrics" -> "OTEL_ENABLE_METRICS"
      [] p = "logs" -> "OTEL_ENABLE_LOGS"

\* LoadEnv: the fields of Config that decide how the process lives.
Config(e) ==
    [enabled  |-> FlagOf(Value(e, "OTEL_ENABLED")),
     on       |-> {p \in Provider : FlagOf(Value(e, Enables(p)))},
     service  |-> Value(e, "OTEL_SERVICE_NAME"),
     exporter |-> Value(e, "OTEL_EXPORTER_OTLP_ENDPOINT"),
     ratio    |-> RatioOf(Value(e, "OTEL_SAMPLER_RATIO")),
     conns    |-> NumberOf(Value(e, "PG_MAX_CONNS")),
     format   |-> Value(e, "LOG_FORMAT")]

ConfigType ==
    [enabled : BOOLEAN, on : SUBSET Provider, service : Text, exporter : Text,
     ratio : Nat, conns : Nat, format : Text]

\* var cfg Config
ZeroConfig ==
    [enabled |-> FALSE, on |-> {}, service |-> "", exporter |-> "", ratio |-> 0,
     conns |-> 0, format |-> ""]

-----------------------------------------------------------------------------
(* What is refused after the configuration has been loaded *)

\* telemetry.NewOptions: versions, names and times have defaults, these have not.
OptionsValid(c) == c.service # "" /\ c.exporter # ""

\* validateSamplerRatio, of the tracer provider alone.
SamplerValid(c) == c.ratio \in 0..100

\* NewContextWithLogger: its case for "json" is empty, and Go does not fall through.
HasLogHandler(c) == c.format # "json"
=============================================================================
