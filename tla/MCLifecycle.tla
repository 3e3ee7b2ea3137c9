------------------------------ MODULE MCLifecycle ------------------------------
(* Small instances of Lifecycle for TLC. *)
EXTENDS Lifecycle, TLC

CONSTANTS h1, h2, h3

\* A database, and a pool of one connection.
Base ==
    "PG_USER" :> "word" @@ "PG_PASS" :> "word" @@ "PG_HOST" :> "word" @@ "PG_DB" :> "word"
    @@ "PG_MAX_CONNS" :> "1"

Observed == "OTEL_ENABLED" :> "true" @@ Base

\* The providers of S and no others; with all of them the defaults are enough.
Only(S) ==
    [v \in {Enables(p) : p \in Provider \ S} |-> IF v = "OTEL_ENABLE_LOGS" THEN "" ELSE "false"]
    @@ Observed

\* Every set of providers, and every value a step of the start stumbles over.
Starts ==
    {Base} \cup {Only(S) : S \in SUBSET Provider}
    \cup {"PG_PASS" :> "" @@ Base,                   \* required
          "PG_CONNECT_TIMEOUT" :> "" @@ Base,        \* no duration
          "OTEL_SERVICE_NAME" :> "" @@ Observed,
          "OTEL_SERVICE_NAME" :> "" @@ Base,         \* nobody asks for it
          "OTEL_SAMPLER_RATIO" :> "10" @@ Observed,
          "OTEL_SAMPLER_RATIO" :> "10" @@ Only({"logs"}),
          "PG_MAX_CONNS" :> "" @@ Base,              \* no connections
          "LOG_FORMAT" :> "json" @@ Observed,
          "LOG_FORMAT" :> "word" @@ "EDITOR" :> "word" @@ Base}
=============================================================================
