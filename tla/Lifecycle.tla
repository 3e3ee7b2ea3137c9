------------------------------- MODULE Lifecycle -------------------------------
(***************************************************************************)
(* The life of the process: cmd/api/main.go.  main loads the configuration,*)
(* starts the telemetry providers, opens the connection pool, runs the     *)
(* migrations, opens the cache and serves.  A signal makes it shut the     *)
(* server down, for at most gracefulShutdownTimeout, flush the telemetry,  *)
(* and close cache and pool, while the handlers of requests that are still *)
(* running use all of them.                                                *)
(*                                                                         *)
(* humacli, net/http, pgxpool and the exporters are external.  The timeout *)
(* may run out at any instant of a shutdown that has somebody to wait for. *)
(***************************************************************************)
EXTENDS Settings, FiniteSets

CONSTANTS
    Environment, \* environments the process may be started in
    Handler,     \* requests, each with its goroutine
    MaxQueries   \* bound on the queries of one request

ASSUME LifecycleAssumption ==
    /\ \A e \in Environment : DOMAIN e \subseteq STRING /\ \A v \in DOMAIN e : e[v] \in Text
    /\ MaxQueries \in Nat
    /\ IsFiniteSet(Handler)

VARIABLES
    cfg,       \* the configuration, once it is loaded
    provider,  \* each telemetry provider
    hook,      \* whether OnStop has been given a shutdown function
    main,      \* where main, and then OnStop, is
    how,       \* how the process ended
    server, cache, pool,
    timedOut,  \* Shutdown gave up
    err,       \* whether main's variable err, which OnStart and OnStop share, holds an error
    returned,  \* OnStart has assigned what ListenAndServe returned
    alarm,     \* OnStop has logged that the server did not stop
    pc,        \* where each request is
    left       \* queries it still has to run

telemetry == <<cfg, provider, hook>>
errors == <<err, returned, alarm>>
requests == <<pc, left>>
vars == <<telemetry, main, how, server, cache, pool, timedOut, errors, requests>>

\* The order in which providers are started, and shut down.
Rank == [p \in Provider |-> CASE p = "traces" -> 1 [] p = "metrics" -> 2
                              [] p = "logs" -> 3]

First(S) == CHOOSE p \in S : \A q \in S : Rank[p] <= Rank[q]

Boot == {"load", "options", "providers", "pool", "migrate", "cache"}

Stop == {"shutdown", "report", "flush", "closeCache", "closePool", "end"}

Active == {"work", "query"}

TypeOK ==
    /\ cfg \in ConfigType
    /\ provider \in [Provider -> {"off", "running", "flushed", "lost"}]
    /\ hook \in BOOLEAN
    /\ main \in Boot \cup Stop \cup {"serve", "exited"}
    /\ how \in {"none", "config", "init", "boot", "logger", "listen", "stopped", "panicked",
               "killed"}
    /\ server \in {"off", "listening", "failed", "closed"}
    /\ cache \in {"none", "open", "closed"}
    /\ pool \in {"none", "open", "closing", "closed"}
    /\ timedOut \in BOOLEAN
    /\ err \in BOOLEAN /\ returned \in BOOLEAN /\ alarm \in BOOLEAN
    /\ pc \in [Handler -> {"new", "answered", "refused", "cut", "torn"} \cup Active]
    /\ left \in [Handler -> 0..MaxQueries]

Init ==
    /\ cfg = ZeroConfig
    /\ provider = [p \in Provider |-> "off"]
    /\ hook = FALSE
    /\ main = "load" /\ how = "none"
    /\ server = "off" /\ cache = "none" /\ pool = "none"
    /\ timedOut = FALSE
    /\ err = FALSE /\ returned = FALSE /\ alarm = FALSE
    /\ pc = [h \in Handler |-> "new"]
    /\ left = [h \in Handler |-> 0]

-----------------------------------------------------------------------------
(* Start *)

Wanted == IF cfg.enabled THEN cfg.on ELSE {}

Running == {p \in Provider : provider[p] = "running"}

Remaining == Wanted \ Running

\* The process ends.  Handlers go with it, at a query or elsewhere.
Exit(reason) ==
    /\ main' = "exited"
    /\ how' = reason
    /\ pc' = [h \in Handler |-> CASE pc[h] = "query" -> "torn"
                                  [] pc[h] = "work" -> "cut"
                                  [] OTHER -> pc[h]]
    /\ UNCHANGED left

Load ==
    /\ main = "load"
    /\ \E e \in Environment : Loads(e) /\ cfg' = Config(e)
    /\ main' = "options"
    /\ UNCHANGED <<provider, hook, how, server, cache, pool, timedOut, errors, requests>>

\* LoadEnv logs and returns nil, and main panics.
LoadFails ==
    /\ main = "load"
    /\ \E e \in Environment : ~Loads(e)
    /\ Exit("config")
    /\ UNCHANGED <<telemetry, server, cache, pool, timedOut, errors>>

\* NewOptions, unless telemetry is off.
MakeOptions ==
    /\ main = "options" /\ (cfg.enabled => OptionsValid(cfg))
    /\ main' = "providers"
    /\ UNCHANGED <<telemetry, how, server, cache, pool, timedOut, errors, requests>>

OptionsFail ==
    /\ main = "options" /\ cfg.enabled /\ ~OptionsValid(cfg)
    /\ Exit("init")
    /\ UNCHANGED <<telemetry, server, cache, pool, timedOut, errors>>

StartProvider ==
    /\ main = "providers" /\ Remaining # {}
    /\ First(Remaining) = "traces" => SamplerValid(cfg)
    /\ provider' = [provider EXCEPT ![First(Remaining)] = "running"]
    /\ UNCHANGED <<cfg, hook, main, how, server, cache, pool, timedOut, errors, requests>>

\* Mutant: handleErr does not shut down what was started before.
ProviderFailsHastily ==
    /\ main = "providers" /\ Remaining # {}
    /\ UNCHANGED provider
    /\ Exit("init")
    /\ UNCHANGED <<cfg, hook, server, cache, pool, timedOut, errors>>

\* A provider does not start: handleErr shuts down the providers that run, whatever
\* each of them answers, and main panics.
ProviderFails ==
    /\ main = "providers" /\ Remaining # {}
    /\ \E result \in [Running -> {"flushed", "lost"}] :
         provider' = [p \in Provider |->
                        IF p \in Running THEN result[p] ELSE provider[p]]
    /\ Exit("init")
    /\ UNCHANGED <<cfg, hook, server, cache, pool, timedOut, errors>>

\* initializeOpenTelemetry returns.  Its shutdown function comes with the logs.
TelemetryReady ==
    /\ main = "providers" /\ Remaining = {}
    /\ hook' = ("logs" \in Wanted)
    /\ main' = "pool"
    /\ UNCHANGED <<cfg, provider, how, server, cache, pool, timedOut, errors, requests>>

\* The pool is made.  It connects when it is asked to, but wants room for a connection.
OpenPool ==
    /\ main = "pool" /\ cfg.conns > 0
    /\ pool' = "open"
    /\ main' = "migrate"
    /\ UNCHANGED <<telemetry, how, server, cache, timedOut, errors, requests>>

\* RunMigrations: the schema is, or is made, up to date.  Its log lines are the
\* first to go to the logger.
Migrate ==
    /\ main = "migrate" /\ HasLogHandler(cfg)
    /\ main' = "cache"
    /\ UNCHANGED <<telemetry, how, server, cache, pool, timedOut, errors, requests>>

\* A logger without a handler: nil is dereferenced.
LogPanics ==
    /\ main = "migrate" /\ ~HasLogHandler(cfg)
    /\ Exit("logger")
    /\ UNCHANGED <<telemetry, server, cache, pool, timedOut, errors>>

\* The pool or the migrations fail and main panics.  Nobody runs the shutdown
\* function then.
DatabaseFails ==
    /\ main = "pool" \/ (main = "migrate" /\ HasLogHandler(cfg))
    /\ Exit("boot")
    /\ UNCHANGED <<telemetry, server, cache, pool, timedOut, errors>>

\* newRedisClient: no cache is no reason not to start.
OpenCache ==
    /\ main = "cache"
    /\ cache' \in {"none", "open"}
    /\ main' = "serve"
    /\ UNCHANGED <<telemetry, how, server, pool, timedOut, errors, requests>>

\* OnStart, in a goroutine of its own.  After Shutdown it does not listen any more.
Listen ==
    /\ main = "serve" /\ server = "off"
    /\ server' = "listening"
    /\ UNCHANGED <<telemetry, main, how, cache, pool, timedOut, errors, requests>>

\* Listening fails, at once or later.
ListenFails ==
    /\ main = "serve" /\ server \in {"off", "listening"}
    /\ server' = "failed"
    /\ UNCHANGED <<telemetry, main, how, cache, pool, timedOut, errors, requests>>

\* Mutant: an error that only says that the server was closed is dropped.
ListenReturnsQuietly ==
    /\ server \in {"failed", "closed"} /\ ~returned /\ main # "exited"
    /\ err' = (server = "failed")
    /\ returned' = TRUE
    /\ UNCHANGED <<telemetry, main, how, server, cache, pool, timedOut, alarm, requests>>

\* OnStart assigns what ListenAndServe returned, an error in any case, to main's err,
\* at any time after the server has failed or was told to shut down.
ListenReturns ==
    /\ server \in {"failed", "closed"} /\ ~returned /\ main # "exited"
    /\ err' = TRUE
    /\ returned' = TRUE
    /\ UNCHANGED <<telemetry, main, how, server, cache, pool, timedOut, alarm, requests>>

\* OnStart has returned: humacli ends the process and does not call OnStop.
ExitOnListen ==
    /\ main = "serve" /\ returned
    /\ Exit("listen")
    /\ UNCHANGED <<telemetry, server, cache, pool, timedOut, errors>>

-----------------------------------------------------------------------------
(* Requests *)

Arrive(h) ==
    /\ pc[h] = "new" /\ server = "listening" /\ main # "exited"
    /\ pc' = [pc EXCEPT ![h] = "work"]
    /\ \E n \in 0..MaxQueries : left' = [left EXCEPT ![h] = n]
    /\ UNCHANGED <<telemetry, main, how, server, cache, pool, timedOut, errors>>

Querying == {h \in Handler : pc[h] = "query"}

\* A connection is taken from the pool for a query or a transaction.
StartQuery(h) ==
    /\ pc[h] = "work" /\ left[h] > 0
    /\ pool = "open" /\ Cardinality(Querying) < cfg.conns
    /\ pc' = [pc EXCEPT ![h] = "query"]
    /\ UNCHANGED <<telemetry, main, how, server, cache, pool, timedOut, errors, left>>

EndQuery(h) ==
    /\ pc[h] = "query"
    /\ pc' = [pc EXCEPT ![h] = "work"]
    /\ left' = [left EXCEPT ![h] = @ - 1]
    /\ UNCHANGED <<telemetry, main, how, server, cache, pool, timedOut, errors>>

\* A closed pool hands out nothing: the handler gives up, with work half done.
Refuse(h) ==
    /\ pc[h] = "work" /\ left[h] > 0
    /\ pool \in {"closing", "closed"}
    /\ pc' = [pc EXCEPT ![h] = "refused"]
    /\ UNCHANGED <<telemetry, main, how, server, cache, pool, timedOut, errors, left>>

Answer(h) ==
    /\ pc[h] = "work" /\ left[h] = 0
    /\ pc' = [pc EXCEPT ![h] = "answered"]
    /\ UNCHANGED <<telemetry, main, how, server, cache, pool, timedOut, errors, left>>

-----------------------------------------------------------------------------
(* Stop *)

\* A signal: OnStop.  Shutdown closes the listener, then waits.
Signal ==
    /\ main = "serve"
    /\ main' = "shutdown"
    /\ server' = IF server = "failed" THEN server ELSE "closed"
    /\ UNCHANGED <<telemetry, how, cache, pool, timedOut, errors, requests>>

Idle == \A h \in Handler : pc[h] \notin Active

\* Mutant: the server is closed, not shut down.
ShutdownDoneAtOnce ==
    /\ main = "shutdown"
    /\ err' = FALSE
    /\ main' = "report"
    /\ UNCHANGED <<telemetry, how, server, cache, pool, timedOut, returned, alarm, requests>>

ShutdownDone ==
    /\ main = "shutdown" /\ Idle
    /\ err' = FALSE
    /\ main' = "report"
    /\ UNCHANGED <<telemetry, how, server, cache, pool, timedOut, returned, alarm, requests>>

\* Mutant: Shutdown is given a context without a deadline.
ShutdownTimeoutNever ==
    /\ FALSE
    /\ UNCHANGED vars

ShutdownTimeout ==
    /\ main = "shutdown" /\ ~Idle
    /\ timedOut' = TRUE
    /\ err' = TRUE
    /\ main' = "report"
    /\ UNCHANGED <<telemetry, how, server, cache, pool, returned, alarm, requests>>

\* OnStop logs what Shutdown answered.  It reads err again, or what it has just
\* assigned to it, as the compiler likes: OnStart may have assigned in between.
Report ==
    /\ main = "report"
    /\ alarm' \in {err, timedOut}
    /\ main' = "flush"
    /\ UNCHANGED <<telemetry, how, server, cache, pool, timedOut, err, returned, requests>>

\* Mutant: shutdown returns at the first error.
FlushUntilError ==
    /\ main = "flush" /\ hook
    /\ IF Running = {} \/ \E p \in Provider : provider[p] = "lost"
       THEN main' = "closeCache" /\ UNCHANGED provider
       ELSE /\ \E result \in {"flushed", "lost"} :
                 provider' = [provider EXCEPT ![First(Running)] = result]
            /\ UNCHANGED main
    /\ UNCHANGED <<cfg, hook, how, server, cache, pool, timedOut, errors, requests>>

\* otelShutdown: every provider in turn, its error joined to the others.
Flush ==
    /\ main = "flush" /\ hook
    /\ IF Running = {}
       THEN main' = "closeCache" /\ UNCHANGED provider
       ELSE /\ \E result \in {"flushed", "lost"} :
                 provider' = [provider EXCEPT ![First(Running)] = result]
            /\ UNCHANGED main
    /\ UNCHANGED <<cfg, hook, how, server, cache, pool, timedOut, errors, requests>>

\* Without a shutdown function the call panics; what is deferred still runs.
FlushPanics ==
    /\ main = "flush" /\ ~hook
    /\ how' = "panicked"
    /\ main' = "closeCache"
    /\ UNCHANGED <<telemetry, server, cache, pool, timedOut, errors, requests>>

CloseCache ==
    /\ main = "closeCache"
    /\ cache' = IF cache = "open" THEN "closed" ELSE cache
    /\ main' = "closePool"
    /\ UNCHANGED <<telemetry, how, server, pool, timedOut, errors, requests>>

\* Mutant: the pool is not closed.
ClosePoolNever ==
    /\ main = "closePool"
    /\ main' = "end"
    /\ UNCHANGED <<telemetry, how, server, cache, pool, timedOut, errors, requests>>

\* Close refuses new queries, then waits for the connections in use.
ClosePool ==
    /\ main = "closePool"
    /\ \/ pool = "open" /\ pool' = "closing" /\ UNCHANGED main
       \/ /\ pool = "closing" /\ Querying = {}
          /\ pool' = "closed"
          /\ main' = "end"
    /\ UNCHANGED <<telemetry, how, server, cache, timedOut, errors, requests>>

End ==
    /\ main = "end"
    /\ Exit(IF how = "panicked" THEN how ELSE "stopped")
    /\ UNCHANGED <<telemetry, server, cache, pool, timedOut, errors>>

\* SIGKILL, or any signal before humacli waits for one.
Kill ==
    /\ main # "exited"
    /\ Exit("killed")
    /\ UNCHANGED <<telemetry, server, cache, pool, timedOut, errors>>

-----------------------------------------------------------------------------

Request(h) == Arrive(h) \/ StartQuery(h) \/ EndQuery(h) \/ Refuse(h) \/ Answer(h)

Next ==
    \/ Load \/ LoadFails \/ MakeOptions \/ OptionsFail
    \/ StartProvider \/ ProviderFails \/ TelemetryReady
    \/ OpenPool \/ Migrate \/ LogPanics \/ DatabaseFails \/ OpenCache
    \/ Listen \/ ListenFails \/ ListenReturns \/ ExitOnListen
    \/ Signal \/ ShutdownDone \/ ShutdownTimeout \/ Report
    \/ Flush \/ FlushPanics \/ CloseCache \/ ClosePool \/ End
    \/ Kill
    \/ \E h \in Handler : Request(h)

Spec == Init /\ [][Next]_vars

\* main goes on, its timer runs out, and Postgres ends the queries it was given.
\* Nothing is assumed of Logto: a handler may stay at work for ever.
Fairness ==
    /\ WF_vars(ShutdownDone) /\ WF_vars(ShutdownTimeout) /\ WF_vars(Report)
    /\ WF_vars(Flush) /\ WF_vars(FlushPanics)
    /\ WF_vars(CloseCache) /\ WF_vars(ClosePool) /\ WF_vars(End)
    /\ \A h \in Handler : WF_vars(EndQuery(h))

FairSpec == Spec /\ Fairness

-----------------------------------------------------------------------------
(* Properties *)

\* While a request runs, what it uses is there, unless Shutdown gave up on it:
\* the pool hands out connections, the cache is not closed, and the telemetry the
\* configuration asks for is up.
ResourcesOutliveRequests ==
    ~Idle /\ ~timedOut =>
        /\ pool = "open" /\ cfg.conns > 0 /\ cache # "closed"
        /\ Running = Wanted

\* A stop cuts no query short, not even of a request it has given up; a
\* request ends without an answer only if it ran out of the five seconds, or the
\* listener failed, or the process was killed.
StopIsGraceful ==
    /\ how \in {"stopped", "panicked"} /\ main = "exited" =>
         \A h \in Handler : pc[h] # "torn"
    /\ how # "killed" =>
         \A h \in Handler : pc[h] \in {"cut", "refused"} => timedOut \/ how = "listen"

\* Whoever received the shutdown function runs it to the end: an orderly stop,
\* and a start that fails in initializeOpenTelemetry, leave no provider running,
\* whatever errors the exporters return on the way.
NoProviderIsLeftRunning == how \in {"stopped", "init"} => Running = {}

\* A stop that ran out of time is reported, whatever OnStart does to err meanwhile.
\* (The converse does not hold: an orderly stop may be reported as a failure.)
StopTimeoutIsReported == timedOut /\ main # "report" /\ how # "killed" => alarm

\* Once begun, a stop ends, with handlers that hang and exporters that fail.
StopEnds == (main = "shutdown") ~> (main = "exited")

\* pkg/telemetry/shutdown.go:5-6 of a provider's shutdown function: "It should be
\* called when the application exits to ensure all telemetry data is flushed."
\* Here only of a process that a signal has made to stop.
TelemetryIsFlushed == main = "exited" /\ how \in {"stopped", "panicked"} => Running = {}

\* .env.example:35 of the formats a log may have: "LOG_FORMAT=text # or "json"".
\* A start is not to fail because of one of them.
DocumentedFormatsStart == how = "logger" => cfg.format \notin FormatText

-----------------------------------------------------------------------------
(* The inductive invariant *)

Closing == {"closeCache", "closePool", "end"}

\* Who may be at work in each phase; a query at work is one that was to be run.
PhaseInv ==
    /\ main \in Boot => server = "off" /\ \A h \in Handler : pc[h] = "new"
    /\ main \in {"report", "flush"} \cup Closing => Idle \/ timedOut
    /\ main \in Boot \cup {"serve", "shutdown"} => ~timedOut
    /\ main = "exited" => Idle
    /\ server = "listening" => main \in {"serve", "exited"}
    /\ \A h \in Querying : left[h] > 0

\* What is open in each phase.
ResourceInv ==
    /\ main \in {"migrate", "cache", "serve", "shutdown", "report", "flush", "closeCache"} =>
         pool = "open"
    /\ main \in {"load", "options", "providers", "pool"} => pool = "none"
    /\ pool # "none" => cfg.conns > 0
    /\ main = "closePool" => pool \in {"open", "closing"}
    /\ main = "end" => pool = "closed"
    /\ pool \in {"closing", "closed"} => main \in {"closePool", "end", "exited"}
    /\ pool = "closed" => Querying = {}
    /\ cache = "closed" => main \in {"closePool", "end", "exited"}

\* No more queries than connections.
ConnectionInv == Cardinality(Querying) <= cfg.conns

\* What runs is what is wanted; it ends late, and completely unless OnStop had no
\* function for it.
ProviderInv ==
    /\ main \in {"load", "options"} => Running = {}
    /\ main = "providers" => Running \subseteq Wanted
    /\ main \in {"pool", "migrate", "cache", "serve", "shutdown", "report"} => Running = Wanted
    /\ (\E p \in Provider : provider[p] \in {"flushed", "lost"}) =>
         main \in {"flush", "exited"} \cup Closing
    /\ main \in Closing => Running = {} \/ how = "panicked"
    /\ NoProviderIsLeftRunning

HowInv ==
    /\ main = "exited" => how # "none"
    /\ how = "panicked" => main \in Closing \cup {"exited"}
    /\ how \notin {"none", "panicked"} => main = "exited"
    /\ \A h \in Handler : pc[h] \in {"cut", "torn"} => main = "exited"

\* Nobody overwrites the error of a timeout by none.
ErrorInv == timedOut /\ main = "report" => err

IInv ==
    /\ TypeOK /\ ErrorInv /\ StopTimeoutIsReported /\ PhaseInv /\ ResourceInv /\ ConnectionInv
    /\ ProviderInv /\ HowInv /\ StopIsGraceful
=============================================================================
