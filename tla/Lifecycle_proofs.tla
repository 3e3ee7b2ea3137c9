---------------------------- MODULE Lifecycle_proofs ----------------------------
(***************************************************************************)
(* What Lifecycle promises of a stop, for any environments, requests and   *)
(* numbers of connections and queries.                                     *)
(***************************************************************************)
EXTENDS Lifecycle, TLAPS, FiniteSetTheorems

\* LoadEnv returns a Config with every field of its type.
LEMMA LoadTypes == \A e \in Environment : Config(e) \in ConfigType
<1> SUFFICES ASSUME NEW e \in Environment PROVE Config(e) \in ConfigType
    OBVIOUS
<1>1. ASSUME NEW v PROVE Default(v) \in Text
    BY DEF Default, Text, NumberText, DurationText, FlagText, RatioText, FormatText
<1>2. ASSUME NEW v PROVE Value(e, v) \in Text
    BY <1>1, LifecycleAssumption DEF Value
<1>3. ASSUME NEW s PROVE FlagOf(s) \in BOOLEAN /\ NumberOf(s) \in Nat /\ RatioOf(s) \in Nat
    BY DEF FlagOf, NumberOf, RatioOf
<1> QED
    BY <1>2, <1>3 DEF Config, ConfigType

\* Of several providers one comes first.
LEMMA FirstIsOne == \A S \in SUBSET Provider : S # {} => First(S) \in S
<1> SUFFICES ASSUME NEW S \in SUBSET Provider, S # {} PROVE First(S) \in S
    OBVIOUS
<1>1. \E p \in S : \A q \in S : Rank[p] <= Rank[q]
  <2>1. Rank["traces"] = 1 /\ Rank["metrics"] = 2 /\ Rank["logs"] = 3
    BY DEF Rank, Provider
  <2>2. S \subseteq {"traces", "metrics", "logs"}
    BY DEF Provider
  <2>3. CASE "traces" \in S
    BY <2>1, <2>2, <2>3
  <2>4. CASE "traces" \notin S /\ "metrics" \in S
    BY <2>1, <2>2, <2>4
  <2>5. CASE "traces" \notin S /\ "metrics" \notin S
    <3>1. S = {"logs"}
      BY <2>2, <2>5
    <3> QED
      BY <2>1, <3>1
  <2> QED
    BY <2>3, <2>4, <2>5
<1> QED
    BY <1>1 DEF First

LEMMA InitIInv == Init => IInv
<1> SUFFICES ASSUME Init PROVE IInv
    OBVIOUS
<1> USE LifecycleAssumption DEF Init, Boot, Stop, Closing, Active
<1>1. TypeOK
  <2>1. 0 \in 0..MaxQueries
    OBVIOUS
  <2>2. ZeroConfig \in ConfigType
    BY DEF ZeroConfig, ConfigType, Text, NumberText
  <2> QED
    BY <2>1, <2>2 DEF TypeOK
<1>2. PhaseInv /\ ResourceInv /\ HowInv /\ StopIsGraceful /\ ErrorInv /\ StopTimeoutIsReported
    BY DEF PhaseInv, ResourceInv, HowInv, StopIsGraceful, ErrorInv, StopTimeoutIsReported,
           Querying, Idle
<1>3. ConnectionInv
  <2>1. Querying = {}
    BY DEF Querying
  <2>2. cfg.conns = 0
    BY DEF ZeroConfig
  <2> QED
    BY <2>1, <2>2, FS_EmptySet DEF ConnectionInv
<1>4. ProviderInv
    BY DEF ProviderInv, NoProviderIsLeftRunning, Running
<1> QED
    BY <1>1, <1>2, <1>3, <1>4 DEF IInv

\* Every step keeps the types.
LEMMA TypeStep == TypeOK /\ PhaseInv /\ [Next]_vars => TypeOK'
<1> SUFFICES ASSUME TypeOK, PhaseInv, [Next]_vars PROVE TypeOK'
    OBVIOUS
<1> USE LifecycleAssumption DEF TypeOK, Boot, Stop, Active, telemetry, errors, requests
<1>1. CASE Load
    BY <1>1, LoadTypes DEF Load
<1>2. CASE LoadFails
    BY <1>2 DEF LoadFails, Exit
<1>3. CASE MakeOptions
    BY <1>3 DEF MakeOptions
<1>4. CASE OptionsFail
    BY <1>4 DEF OptionsFail, Exit
<1>5. CASE StartProvider
  <2>1. provider' \in [Provider -> {"off", "running", "flushed", "lost"}]
    BY <1>5 DEF StartProvider
  <2> QED
    BY <1>5, <2>1 DEF StartProvider
<1>6. CASE ProviderFails
    BY <1>6 DEF ProviderFails, Exit, Running
<1>7. CASE TelemetryReady
    BY <1>7 DEF TelemetryReady
<1>8. CASE OpenPool
    BY <1>8 DEF OpenPool
<1>9. CASE Migrate
    BY <1>9 DEF Migrate
<1>10. CASE LogPanics
    BY <1>10 DEF LogPanics, Exit
<1>11. CASE DatabaseFails
    BY <1>11 DEF DatabaseFails, Exit
<1>12. CASE OpenCache
    BY <1>12 DEF OpenCache
<1>13. CASE Listen
    BY <1>13 DEF Listen
<1>14. CASE ListenFails
    BY <1>14 DEF ListenFails
<1>15. CASE ListenReturns
    BY <1>15 DEF ListenReturns
<1>16. CASE ExitOnListen
    BY <1>16 DEF ExitOnListen, Exit
<1>17. CASE Signal
    BY <1>17 DEF Signal
<1>18. CASE ShutdownDone
  <2>1. main' = "report" /\ UNCHANGED <<cfg, provider, hook, how, server, cache, pool, pc, left>>
    BY <1>18 DEF ShutdownDone
  <2>2. err' \in BOOLEAN /\ UNCHANGED <<timedOut, returned, alarm>>
    BY <1>18 DEF ShutdownDone
  <2> QED
    BY <2>1, <2>2
<1>19. CASE ShutdownTimeout
    BY <1>19 DEF ShutdownTimeout
<1>20. CASE Report
    BY <1>20 DEF Report
<1>21. CASE Flush
    BY <1>21 DEF Flush
<1>22. CASE FlushPanics
    BY <1>22 DEF FlushPanics
<1>23. CASE CloseCache
    BY <1>23 DEF CloseCache
<1>24. CASE ClosePool
    BY <1>24 DEF ClosePool
<1>25. CASE End
    BY <1>25 DEF End, Exit
<1>26. CASE Kill
    BY <1>26 DEF Kill, Exit
<1>27. ASSUME NEW h \in Handler, Request(h) PROVE TypeOK'
  <2>1. CASE Arrive(h)
    BY <2>1 DEF Arrive
  <2>2. CASE StartQuery(h)
    BY <2>2 DEF StartQuery
  <2>3. CASE EndQuery(h)
    BY <2>3 DEF EndQuery, PhaseInv, Querying
  <2>4. CASE Refuse(h)
    BY <2>4 DEF Refuse
  <2>5. CASE Answer(h)
    BY <2>5 DEF Answer
  <2> QED
    BY <1>27, <2>1, <2>2, <2>3, <2>4, <2>5 DEF Request
<1>28. CASE UNCHANGED vars
    BY <1>28 DEF vars
<1> QED
    BY <1>1, <1>2, <1>3, <1>4, <1>5, <1>6, <1>7, <1>8, <1>9, <1>10, <1>11, <1>12,
       <1>13, <1>14, <1>15, <1>16, <1>17, <1>18, <1>19, <1>20, <1>21, <1>22, <1>23,
       <1>24, <1>25, <1>26, <1>27, <1>28
    DEF Next

\* Who is at work in a phase.
LEMMA PhaseStep == TypeOK /\ PhaseInv /\ [Next]_vars => PhaseInv'
<1> SUFFICES ASSUME TypeOK, PhaseInv, [Next]_vars PROVE PhaseInv'
    OBVIOUS
<1> USE DEF TypeOK, PhaseInv, Idle, Querying, Boot, Stop, Active, Closing,
           telemetry, errors, requests
<1>1. CASE Load
    BY <1>1 DEF Load
<1>2. CASE LoadFails
    BY <1>2 DEF LoadFails, Exit
<1>3. CASE MakeOptions
    BY <1>3 DEF MakeOptions
<1>4. CASE OptionsFail
    BY <1>4 DEF OptionsFail, Exit
<1>5. CASE StartProvider
    BY <1>5 DEF StartProvider
<1>6. CASE ProviderFails
    BY <1>6 DEF ProviderFails, Exit
<1>7. CASE TelemetryReady
    BY <1>7 DEF TelemetryReady
<1>8. CASE OpenPool
    BY <1>8 DEF OpenPool
<1>9. CASE Migrate
    BY <1>9 DEF Migrate
<1>10. CASE LogPanics
    BY <1>10 DEF LogPanics, Exit
<1>11. CASE DatabaseFails
    BY <1>11 DEF DatabaseFails, Exit
<1>12. CASE OpenCache
    BY <1>12 DEF OpenCache
<1>13. CASE Listen
    BY <1>13 DEF Listen
<1>14. CASE ListenFails
    BY <1>14 DEF ListenFails
<1>15. CASE ListenReturns
    BY <1>15 DEF ListenReturns
<1>16. CASE ExitOnListen
    BY <1>16 DEF ExitOnListen, Exit
<1>17. CASE Signal
    BY <1>17 DEF Signal
<1>18. CASE ShutdownDone
    BY <1>18 DEF ShutdownDone
<1>19. CASE ShutdownTimeout
    BY <1>19 DEF ShutdownTimeout
<1>20. CASE Report
    BY <1>20 DEF Report
<1>21. CASE Flush
    BY <1>21 DEF Flush
<1>22. CASE FlushPanics
    BY <1>22 DEF FlushPanics
<1>23. CASE CloseCache
    BY <1>23 DEF CloseCache
<1>24. CASE ClosePool
    BY <1>24 DEF ClosePool
<1>25. CASE End
    BY <1>25 DEF End, Exit
<1>26. CASE Kill
    BY <1>26 DEF Kill, Exit
<1>27. ASSUME NEW h \in Handler, Request(h) PROVE PhaseInv'
  <2>1. CASE Arrive(h)
    BY <2>1 DEF Arrive
  <2>2. CASE StartQuery(h)
    BY <2>2 DEF StartQuery
  <2>3. CASE EndQuery(h)
    BY <2>3 DEF EndQuery
  <2>4. CASE Refuse(h)
    BY <2>4 DEF Refuse
  <2>5. CASE Answer(h)
    BY <2>5 DEF Answer
  <2> QED
    BY <1>27, <2>1, <2>2, <2>3, <2>4, <2>5 DEF Request
<1>28. CASE UNCHANGED vars
    BY <1>28 DEF vars
<1> QED
    BY <1>1, <1>2, <1>3, <1>4, <1>5, <1>6, <1>7, <1>8, <1>9, <1>10, <1>11, <1>12,
       <1>13, <1>14, <1>15, <1>16, <1>17, <1>18, <1>19, <1>20, <1>21, <1>22, <1>23,
       <1>24, <1>25, <1>26, <1>27, <1>28
    DEF Next

\* What is open in a phase.
LEMMA ResourceStep == TypeOK /\ PhaseInv /\ ResourceInv /\ [Next]_vars => ResourceInv'
<1> SUFFICES ASSUME TypeOK, PhaseInv, ResourceInv, [Next]_vars PROVE ResourceInv'
    OBVIOUS
<1> USE DEF TypeOK, PhaseInv, ResourceInv, Querying, Boot, Stop, Active, Closing,
           telemetry, errors, requests
<1>1. CASE Load
    BY <1>1 DEF Load
<1>2. CASE LoadFails
    BY <1>2 DEF LoadFails, Exit
<1>3. CASE MakeOptions
    BY <1>3 DEF MakeOptions
<1>4. CASE OptionsFail
    BY <1>4 DEF OptionsFail, Exit
<1>5. CASE StartProvider
    BY <1>5 DEF StartProvider
<1>6. CASE ProviderFails
    BY <1>6 DEF ProviderFails, Exit
<1>7. CASE TelemetryReady
    BY <1>7 DEF TelemetryReady
<1>8. CASE OpenPool
    BY <1>8 DEF OpenPool
<1>9. CASE Migrate
    BY <1>9 DEF Migrate
<1>10. CASE LogPanics
    BY <1>10 DEF LogPanics, Exit
<1>11. CASE DatabaseFails
    BY <1>11 DEF DatabaseFails, Exit
<1>12. CASE OpenCache
    BY <1>12 DEF OpenCache
<1>13. CASE Listen
    BY <1>13 DEF Listen
<1>14. CASE ListenFails
    BY <1>14 DEF ListenFails
<1>15. CASE ListenReturns
    BY <1>15 DEF ListenReturns
<1>16. CASE ExitOnListen
    BY <1>16 DEF ExitOnListen, Exit
<1>17. CASE Signal
    BY <1>17 DEF Signal
<1>18. CASE ShutdownDone
    BY <1>18 DEF ShutdownDone
<1>19. CASE ShutdownTimeout
    BY <1>19 DEF ShutdownTimeout
<1>20. CASE Report
    BY <1>20 DEF Report
<1>21. CASE Flush
    BY <1>21 DEF Flush
<1>22. CASE FlushPanics
    BY <1>22 DEF FlushPanics
<1>23. CASE CloseCache
    BY <1>23 DEF CloseCache
<1>24. CASE ClosePool
    BY <1>24 DEF ClosePool
<1>25. CASE End
    BY <1>25 DEF End, Exit
<1>26. CASE Kill
    BY <1>26 DEF Kill, Exit
<1>27. ASSUME NEW h \in Handler, Request(h) PROVE ResourceInv'
  <2>1. CASE Arrive(h)
    BY <2>1 DEF Arrive
  <2>2. CASE StartQuery(h)
    BY <2>2 DEF StartQuery
  <2>3. CASE EndQuery(h)
    BY <2>3 DEF EndQuery
  <2>4. CASE Refuse(h)
    BY <2>4 DEF Refuse
  <2>5. CASE Answer(h)
    BY <2>5 DEF Answer
  <2> QED
    BY <1>27, <2>1, <2>2, <2>3, <2>4, <2>5 DEF Request
<1>28. CASE UNCHANGED vars
    BY <1>28 DEF vars
<1> QED
    BY <1>1, <1>2, <1>3, <1>4, <1>5, <1>6, <1>7, <1>8, <1>9, <1>10, <1>11, <1>12,
       <1>13, <1>14, <1>15, <1>16, <1>17, <1>18, <1>19, <1>20, <1>21, <1>22, <1>23,
       <1>24, <1>25, <1>26, <1>27, <1>28
    DEF Next

\* When providers are shut down.
LEMMA ProviderStep == TypeOK /\ ProviderInv /\ HowInv /\ [Next]_vars => ProviderInv'
<1> SUFFICES ASSUME TypeOK, ProviderInv, HowInv, [Next]_vars PROVE ProviderInv'
    OBVIOUS
<1> USE DEF TypeOK, ProviderInv, HowInv, NoProviderIsLeftRunning, Running, Wanted, Remaining,
           Boot, Stop, Closing, telemetry, errors, requests
<1>1. CASE Load
    BY <1>1 DEF Load
<1>2. CASE LoadFails
    BY <1>2 DEF LoadFails, Exit
<1>3. CASE MakeOptions
    BY <1>3 DEF MakeOptions
<1>4. CASE OptionsFail
    BY <1>4 DEF OptionsFail, Exit
<1>5. CASE StartProvider
  <2>1. First(Remaining) \in Remaining
    BY <1>5, FirstIsOne DEF StartProvider, ConfigType
  <2> QED
    BY <1>5, <2>1 DEF StartProvider
<1>6. CASE ProviderFails
    BY <1>6 DEF ProviderFails, Exit
<1>7. CASE TelemetryReady
    BY <1>7 DEF TelemetryReady
<1>8. CASE OpenPool
    BY <1>8 DEF OpenPool
<1>9. CASE Migrate
    BY <1>9 DEF Migrate
<1>10. CASE LogPanics
    BY <1>10 DEF LogPanics, Exit
<1>11. CASE DatabaseFails
    BY <1>11 DEF DatabaseFails, Exit
<1>12. CASE OpenCache
    BY <1>12 DEF OpenCache
<1>13. CASE Listen
    BY <1>13 DEF Listen
<1>14. CASE ListenFails
    BY <1>14 DEF ListenFails
<1>15. CASE ListenReturns
    BY <1>15 DEF ListenReturns
<1>16. CASE ExitOnListen
    BY <1>16 DEF ExitOnListen, Exit
<1>17. CASE Signal
    BY <1>17 DEF Signal
<1>18. CASE ShutdownDone
    BY <1>18 DEF ShutdownDone
<1>19. CASE ShutdownTimeout
    BY <1>19 DEF ShutdownTimeout
<1>20. CASE Report
    BY <1>20 DEF Report
<1>21. CASE Flush
    BY <1>21 DEF Flush
<1>22. CASE FlushPanics
    BY <1>22 DEF FlushPanics
<1>23. CASE CloseCache
    BY <1>23 DEF CloseCache
<1>24. CASE ClosePool
    BY <1>24 DEF ClosePool
<1>25. CASE End
    BY <1>25 DEF End, Exit
<1>26. CASE Kill
    BY <1>26 DEF Kill, Exit
<1>27. ASSUME NEW h \in Handler, Request(h) PROVE ProviderInv'
  <2>1. CASE Arrive(h)
    BY <2>1 DEF Arrive
  <2>2. CASE StartQuery(h)
    BY <2>2 DEF StartQuery
  <2>3. CASE EndQuery(h)
    BY <2>3 DEF EndQuery
  <2>4. CASE Refuse(h)
    BY <2>4 DEF Refuse
  <2>5. CASE Answer(h)
    BY <2>5 DEF Answer
  <2> QED
    BY <1>27, <2>1, <2>2, <2>3, <2>4, <2>5 DEF Request
<1>28. CASE UNCHANGED vars
    BY <1>28 DEF vars
<1> QED
    BY <1>1, <1>2, <1>3, <1>4, <1>5, <1>6, <1>7, <1>8, <1>9, <1>10, <1>11, <1>12,
       <1>13, <1>14, <1>15, <1>16, <1>17, <1>18, <1>19, <1>20, <1>21, <1>22, <1>23,
       <1>24, <1>25, <1>26, <1>27, <1>28
    DEF Next

\* What is known of Shutdown's error.
LEMMA ErrorStep ==
    /\ TypeOK /\ PhaseInv /\ HowInv /\ ErrorInv /\ StopTimeoutIsReported
    /\ [Next]_vars
    => (ErrorInv /\ StopTimeoutIsReported)'
<1> SUFFICES ASSUME TypeOK, PhaseInv, HowInv, ErrorInv, StopTimeoutIsReported, [Next]_vars PROVE (ErrorInv /\ StopTimeoutIsReported)'
    OBVIOUS
<1> USE DEF TypeOK, PhaseInv, HowInv, ErrorInv, StopTimeoutIsReported, Boot, Stop, Closing,
           telemetry, errors, requests
<1>1. CASE Load
    BY <1>1 DEF Load
<1>2. CASE LoadFails
    BY <1>2 DEF LoadFails, Exit
<1>3. CASE MakeOptions
    BY <1>3 DEF MakeOptions
<1>4. CASE OptionsFail
    BY <1>4 DEF OptionsFail, Exit
<1>5. CASE StartProvider
    BY <1>5 DEF StartProvider
<1>6. CASE ProviderFails
    BY <1>6 DEF ProviderFails, Exit
<1>7. CASE TelemetryReady
    BY <1>7 DEF TelemetryReady
<1>8. CASE OpenPool
    BY <1>8 DEF OpenPool
<1>9. CASE Migrate
    BY <1>9 DEF Migrate
<1>10. CASE LogPanics
    BY <1>10 DEF LogPanics, Exit
<1>11. CASE DatabaseFails
    BY <1>11 DEF DatabaseFails, Exit
<1>12. CASE OpenCache
    BY <1>12 DEF OpenCache
<1>13. CASE Listen
    BY <1>13 DEF Listen
<1>14. CASE ListenFails
    BY <1>14 DEF ListenFails
<1>15. CASE ListenReturns
    BY <1>15 DEF ListenReturns
<1>16. CASE ExitOnListen
    BY <1>16 DEF ExitOnListen, Exit
<1>17. CASE Signal
    BY <1>17 DEF Signal
<1>18. CASE ShutdownDone
    BY <1>18 DEF ShutdownDone
<1>19. CASE ShutdownTimeout
    BY <1>19 DEF ShutdownTimeout
<1>20. CASE Report
    BY <1>20 DEF Report
<1>21. CASE Flush
    BY <1>21 DEF Flush
<1>22. CASE FlushPanics
    BY <1>22 DEF FlushPanics
<1>23. CASE CloseCache
    BY <1>23 DEF CloseCache
<1>24. CASE ClosePool
    BY <1>24 DEF ClosePool
<1>25. CASE End
    BY <1>25 DEF End, Exit
<1>26. CASE Kill
    BY <1>26 DEF Kill, Exit
<1>27. ASSUME NEW h \in Handler, Request(h) PROVE (ErrorInv /\ StopTimeoutIsReported)'
  <2>1. CASE Arrive(h)
    BY <2>1 DEF Arrive
  <2>2. CASE StartQuery(h)
    BY <2>2 DEF StartQuery
  <2>3. CASE EndQuery(h)
    BY <2>3 DEF EndQuery
  <2>4. CASE Refuse(h)
    BY <2>4 DEF Refuse
  <2>5. CASE Answer(h)
    BY <2>5 DEF Answer
  <2> QED
    BY <1>27, <2>1, <2>2, <2>3, <2>4, <2>5 DEF Request
<1>28. CASE UNCHANGED vars
    BY <1>28 DEF vars
<1> QED
    BY <1>1, <1>2, <1>3, <1>4, <1>5, <1>6, <1>7, <1>8, <1>9, <1>10, <1>11, <1>12,
       <1>13, <1>14, <1>15, <1>16, <1>17, <1>18, <1>19, <1>20, <1>21, <1>22, <1>23,
       <1>24, <1>25, <1>26, <1>27, <1>28
    DEF Next

\* How the process ended.
LEMMA HowStep == TypeOK /\ PhaseInv /\ HowInv /\ [Next]_vars => HowInv'
<1> SUFFICES ASSUME TypeOK, PhaseInv, HowInv, [Next]_vars PROVE HowInv'
    OBVIOUS
<1> USE DEF TypeOK, PhaseInv, HowInv, Boot, Stop, Active, Closing, telemetry, errors, requests
<1>1. CASE Load
    BY <1>1 DEF Load
<1>2. CASE LoadFails
    BY <1>2 DEF LoadFails, Exit
<1>3. CASE MakeOptions
    BY <1>3 DEF MakeOptions
<1>4. CASE OptionsFail
    BY <1>4 DEF OptionsFail, Exit
<1>5. CASE StartProvider
    BY <1>5 DEF StartProvider
<1>6. CASE ProviderFails
    BY <1>6 DEF ProviderFails, Exit
<1>7. CASE TelemetryReady
    BY <1>7 DEF TelemetryReady
<1>8. CASE OpenPool
    BY <1>8 DEF OpenPool
<1>9. CASE Migrate
    BY <1>9 DEF Migrate
<1>10. CASE LogPanics
    BY <1>10 DEF LogPanics, Exit
<1>11. CASE DatabaseFails
    BY <1>11 DEF DatabaseFails, Exit
<1>12. CASE OpenCache
    BY <1>12 DEF OpenCache
<1>13. CASE Listen
    BY <1>13 DEF Listen
<1>14. CASE ListenFails
    BY <1>14 DEF ListenFails
<1>15. CASE ListenReturns
    BY <1>15 DEF ListenReturns
<1>16. CASE ExitOnListen
    BY <1>16 DEF ExitOnListen, Exit
<1>17. CASE Signal
    BY <1>17 DEF Signal
<1>18. CASE ShutdownDone
    BY <1>18 DEF ShutdownDone
<1>19. CASE ShutdownTimeout
    BY <1>19 DEF ShutdownTimeout
<1>20. CASE Report
    BY <1>20 DEF Report
<1>21. CASE Flush
    BY <1>21 DEF Flush
<1>22. CASE FlushPanics
    BY <1>22 DEF FlushPanics
<1>23. CASE CloseCache
    BY <1>23 DEF CloseCache
<1>24. CASE ClosePool
    BY <1>24 DEF ClosePool
<1>25. CASE End
    BY <1>25 DEF End, Exit
<1>26. CASE Kill
    BY <1>26 DEF Kill, Exit
<1>27. ASSUME NEW h \in Handler, Request(h) PROVE HowInv'
  <2>1. CASE Arrive(h)
    BY <2>1 DEF Arrive
  <2>2. CASE StartQuery(h)
    BY <2>2 DEF StartQuery
  <2>3. CASE EndQuery(h)
    BY <2>3 DEF EndQuery
  <2>4. CASE Refuse(h)
    BY <2>4 DEF Refuse
  <2>5. CASE Answer(h)
    BY <2>5 DEF Answer
  <2> QED
    BY <1>27, <2>1, <2>2, <2>3, <2>4, <2>5 DEF Request
<1>28. CASE UNCHANGED vars
    BY <1>28 DEF vars
<1> QED
    BY <1>1, <1>2, <1>3, <1>4, <1>5, <1>6, <1>7, <1>8, <1>9, <1>10, <1>11, <1>12,
       <1>13, <1>14, <1>15, <1>16, <1>17, <1>18, <1>19, <1>20, <1>21, <1>22, <1>23,
       <1>24, <1>25, <1>26, <1>27, <1>28
    DEF Next

\* How requests ended.
LEMMA GraceStep ==
    /\ TypeOK /\ PhaseInv /\ ResourceInv /\ HowInv /\ StopIsGraceful
    /\ [Next]_vars
    => StopIsGraceful'
<1> SUFFICES ASSUME TypeOK, PhaseInv, ResourceInv, HowInv, StopIsGraceful, [Next]_vars PROVE StopIsGraceful'
    OBVIOUS
<1> USE DEF TypeOK, PhaseInv, ResourceInv, HowInv, StopIsGraceful, Idle, Querying,
           Boot, Stop, Active, Closing, telemetry, errors, requests
<1>1. CASE Load
    BY <1>1 DEF Load
<1>2. CASE LoadFails
    BY <1>2 DEF LoadFails, Exit
<1>3. CASE MakeOptions
    BY <1>3 DEF MakeOptions
<1>4. CASE OptionsFail
    BY <1>4 DEF OptionsFail, Exit
<1>5. CASE StartProvider
    BY <1>5 DEF StartProvider
<1>6. CASE ProviderFails
    BY <1>6 DEF ProviderFails, Exit
<1>7. CASE TelemetryReady
    BY <1>7 DEF TelemetryReady
<1>8. CASE OpenPool
    BY <1>8 DEF OpenPool
<1>9. CASE Migrate
    BY <1>9 DEF Migrate
<1>10. CASE LogPanics
    BY <1>10 DEF LogPanics, Exit
<1>11. CASE DatabaseFails
    BY <1>11 DEF DatabaseFails, Exit
<1>12. CASE OpenCache
    BY <1>12 DEF OpenCache
<1>13. CASE Listen
    BY <1>13 DEF Listen
<1>14. CASE ListenFails
    BY <1>14 DEF ListenFails
<1>15. CASE ListenReturns
    BY <1>15 DEF ListenReturns
<1>16. CASE ExitOnListen
    BY <1>16 DEF ExitOnListen, Exit
<1>17. CASE Signal
    BY <1>17 DEF Signal
<1>18. CASE ShutdownDone
    BY <1>18 DEF ShutdownDone
<1>19. CASE ShutdownTimeout
    BY <1>19 DEF ShutdownTimeout
<1>20. CASE Report
    BY <1>20 DEF Report
<1>21. CASE Flush
    BY <1>21 DEF Flush
<1>22. CASE FlushPanics
    BY <1>22 DEF FlushPanics
<1>23. CASE CloseCache
    BY <1>23 DEF CloseCache
<1>24. CASE ClosePool
    BY <1>24 DEF ClosePool
<1>25. CASE End
    BY <1>25 DEF End, Exit
<1>26. CASE Kill
    BY <1>26 DEF Kill, Exit
<1>27. ASSUME NEW h \in Handler, Request(h) PROVE StopIsGraceful'
  <2>1. CASE Arrive(h)
    BY <2>1 DEF Arrive
  <2>2. CASE StartQuery(h)
    BY <2>2 DEF StartQuery
  <2>3. CASE EndQuery(h)
    BY <2>3 DEF EndQuery
  <2>4. CASE Refuse(h)
    BY <2>4 DEF Refuse
  <2>5. CASE Answer(h)
    BY <2>5 DEF Answer
  <2> QED
    BY <1>27, <2>1, <2>2, <2>3, <2>4, <2>5 DEF Request
<1>28. CASE UNCHANGED vars
    BY <1>28 DEF vars
<1> QED
    BY <1>1, <1>2, <1>3, <1>4, <1>5, <1>6, <1>7, <1>8, <1>9, <1>10, <1>11, <1>12,
       <1>13, <1>14, <1>15, <1>16, <1>17, <1>18, <1>19, <1>20, <1>21, <1>22, <1>23,
       <1>24, <1>25, <1>26, <1>27, <1>28
    DEF Next

\* A query starts only where a connection is free, and ends with the process.
LEMMA ConnectionStep ==
    TypeOK /\ PhaseInv /\ ConnectionInv /\ [Next]_vars => ConnectionInv'
<1> SUFFICES ASSUME TypeOK, PhaseInv, ConnectionInv, [Next]_vars PROVE ConnectionInv'
    OBVIOUS
<1>0. cfg.conns \in Nat
    BY DEF TypeOK, ConfigType
<1>1. IsFiniteSet(Querying) /\ Cardinality(Querying) \in Nat
    BY LifecycleAssumption, FS_Subset, FS_CardinalityType DEF Querying
<1>2. ASSUME Querying' \subseteq Querying, cfg' = cfg PROVE ConnectionInv'
  <2>1. Cardinality(Querying') \in Nat /\ Cardinality(Querying') <= Cardinality(Querying)
    BY <1>1, <1>2, FS_Subset, FS_CardinalityType
  <2> QED
    BY <1>0, <1>1, <1>2, <2>1 DEF ConnectionInv
<1>3. ASSUME pc' = pc, cfg' = cfg PROVE ConnectionInv'
    BY <1>2, <1>3 DEF Querying
<1>4. ASSUME NEW reason, Exit(reason), cfg' = cfg PROVE ConnectionInv'
    BY <1>2, <1>4 DEF Exit, Querying
<1>5. ASSUME NEW h \in Handler, StartQuery(h) PROVE ConnectionInv'
  <2>1. Querying' = Querying \cup {h} /\ h \notin Querying
    BY <1>5 DEF StartQuery, Querying, TypeOK
  <2>2. Cardinality(Querying') = Cardinality(Querying) + 1
    BY <1>1, <2>1, FS_AddElement
  <2>3. Cardinality(Querying) < cfg.conns /\ cfg' = cfg
    BY <1>5 DEF StartQuery, telemetry
  <2> QED
    BY <1>0, <1>1, <2>2, <2>3 DEF ConnectionInv
<1>6. ASSUME NEW h \in Handler, Arrive(h) \/ EndQuery(h) \/ Refuse(h) \/ Answer(h)
      PROVE  ConnectionInv'
  <2>1. Querying' \subseteq Querying /\ cfg' = cfg
    BY <1>6 DEF Arrive, EndQuery, Refuse, Answer, Querying, TypeOK, telemetry
  <2> QED
    BY <1>2, <2>1
<1>7. CASE LoadFails \/ OptionsFail \/ ProviderFails \/ LogPanics \/ DatabaseFails
           \/ ExitOnListen \/ End \/ Kill
    BY <1>4, <1>7
    DEF LoadFails, OptionsFail, ProviderFails, LogPanics, DatabaseFails, ExitOnListen, End,
        Kill, telemetry
<1>8. CASE \/ MakeOptions \/ StartProvider \/ TelemetryReady \/ OpenPool \/ Migrate
           \/ OpenCache \/ Listen \/ ListenFails \/ ListenReturns \/ Signal
           \/ ShutdownDone \/ ShutdownTimeout \/ Report \/ Flush \/ FlushPanics
           \/ CloseCache \/ ClosePool \/ UNCHANGED vars
    BY <1>3, <1>8
    DEF MakeOptions, StartProvider, TelemetryReady, OpenPool, Migrate, OpenCache, Listen,
        ListenFails, ListenReturns, Signal, ShutdownDone, ShutdownTimeout, Report, Flush,
        FlushPanics, CloseCache, ClosePool, vars, requests, telemetry
<1>9. CASE Load
  <2>1. Querying' = {}
    BY <1>9 DEF Load, PhaseInv, Boot, Querying, requests
  <2>2. cfg' \in ConfigType
    BY <1>9, LoadTypes DEF Load
  <2> QED
    BY <2>1, <2>2, FS_EmptySet DEF ConnectionInv, ConfigType
<1> QED
    BY <1>5, <1>6, <1>7, <1>8, <1>9 DEF Next, Request

-----------------------------------------------------------------------------
(* Theorems *)

\* The invariant the other results follow from.
THEOREM Invariance == Spec => []IInv
<1>1. IInv /\ [Next]_vars => IInv'
    BY TypeStep, PhaseStep, ResourceStep, ConnectionStep, ProviderStep, ErrorStep,
       HowStep, GraceStep
    DEF IInv
<1> QED
    BY <1>1, InitIInv, PTL DEF Spec

\* Shutdown, flush and closing come in an order in which no request that is
\* within its time loses the pool, the cache or the telemetry under its feet.
THEOREM ResourcesLastLongEnough == Spec => []ResourcesOutliveRequests
<1>1. IInv => ResourcesOutliveRequests
    BY DEF IInv, TypeOK, PhaseInv, ResourceInv, ProviderInv, HowInv,
           ResourcesOutliveRequests, Idle, Active, Boot, Stop, Closing
<1> QED
    BY <1>1, Invariance, PTL

\* dbPool.Close waits for queries that Shutdown has given up; who is within the
\* time limit is answered.
THEOREM GracefulStop == Spec => []StopIsGraceful
<1>1. IInv => StopIsGraceful
    BY DEF IInv
<1> QED
    BY <1>1, Invariance, PTL

\* The clean-up of the providers is complete where it is called.
THEOREM CleanUpIsComplete == Spec => []NoProviderIsLeftRunning
<1>1. IInv => NoProviderIsLeftRunning
    BY DEF IInv, ProviderInv
<1> QED
    BY <1>1, Invariance, PTL

\* OnStart cannot hide the error of a shutdown that ran out of time from OnStop.
THEOREM TimeoutIsReported == Spec => []StopTimeoutIsReported
<1>1. IInv => StopTimeoutIsReported
    BY DEF IInv
<1> QED
    BY <1>1, Invariance, PTL

-----------------------------------------------------------------------------
(* A stop goes forward *)

\* What OnStop and its deferred calls do by themselves.
StopStep ==
    \/ ShutdownDone \/ ShutdownTimeout \/ Report \/ Flush \/ FlushPanics
    \/ CloseCache \/ ClosePool \/ End

\* The stages that are still to come.
StagesLeft(m) ==
    CASE m = "shutdown" -> 5
      [] m = "report" -> 4
      [] m = "flush" -> 3
      [] m = "closeCache" -> 2
      [] m = "closePool" -> 1
      [] OTHER -> 0

\* Nothing that is left to do grows: stages, providers that run, a pool that is open,
\* and, once it is not, queries.
NoFurtherOff ==
    /\ main' = main
    /\ Running' \subseteq Running
    /\ pool' = pool
    /\ pool = "closing" => Querying' \subseteq Querying

\* Something that is left to do shrinks.
Nearer ==
    \/ StagesLeft(main') < StagesLeft(main)
    \/ main' = main /\ Running' \subseteq Running /\ Running' # Running
    \/ main' = main /\ Running' = Running /\ pool = "open" /\ pool' = "closing"
    \/ NoFurtherOff /\ pool = "closing" /\ Querying' # Querying

\* A provider that has been shut down does not run any more.
LEMMA FlushShrinks ==
    ASSUME TypeOK, Flush, main' = main
    PROVE  Running' \subseteq Running /\ Running' # Running
<1> DEFINE p == First(Running)
<1>1. /\ Running # {} /\ Running \in SUBSET Provider
      /\ \E result \in {"flushed", "lost"} : provider' = [provider EXCEPT ![p] = result]
    BY DEF Flush, TypeOK, Running
<1>2. p \in Running
    BY <1>1, FirstIsOne
<1> HIDE DEF p
<1>3. \A q \in Provider : provider'[q] = "running" <=> provider[q] = "running" /\ q # p
    BY <1>1, <1>2 DEF TypeOK
<1>4. Running' = Running \ {p}
    BY <1>3 DEF Running
<1> QED
    BY <1>2, <1>4

\* Requests do not hold a stop up: what they do is to end the queries it waits for.
LEMMA RequestsLetGo ==
    ASSUME TypeOK, NEW h \in Handler, Request(h)
    PROVE  NoFurtherOff
<1> USE DEF TypeOK, NoFurtherOff, Running, Querying, telemetry, errors
<1>1. CASE Arrive(h)
    BY <1>1 DEF Arrive
<1>2. CASE StartQuery(h)
    BY <1>2 DEF StartQuery
<1>3. CASE EndQuery(h)
    BY <1>3 DEF EndQuery
<1>4. CASE Refuse(h)
    BY <1>4 DEF Refuse
<1>5. CASE Answer(h)
    BY <1>5 DEF Answer
<1> QED
    BY <1>1, <1>2, <1>3, <1>4, <1>5 DEF Request

\* Every step of the stop itself brings it nearer to its end.
LEMMA StopSteps ==
    ASSUME TypeOK, StopStep
    PROVE  main' = "exited" \/ Nearer
<1> USE DEF StagesLeft, Nearer, telemetry, Running
<1>1. CASE ShutdownDone
    BY <1>1 DEF ShutdownDone
<1>2. CASE ShutdownTimeout
    BY <1>2 DEF ShutdownTimeout
<1>3. CASE Report
    BY <1>3 DEF Report
<1>4. CASE Flush
  <2>1. CASE main' = main
    BY <1>4, <2>1, FlushShrinks
  <2>2. CASE main' = "closeCache"
    BY <1>4, <2>2 DEF Flush
  <2> QED
    BY <1>4, <2>1, <2>2 DEF Flush
<1>5. CASE FlushPanics
    BY <1>5 DEF FlushPanics
<1>6. CASE CloseCache
    BY <1>6 DEF CloseCache
<1>7. CASE ClosePool
    BY <1>7 DEF ClosePool
<1>8. CASE End
    BY <1>8 DEF End, Exit
<1> QED
    BY <1>1, <1>2, <1>3, <1>4, <1>5, <1>6, <1>7, <1>8 DEF StopStep

\* A stop never goes back.  Each of its steps leaves less to be done, in the order of
\* stages, providers and queries, and nothing that happens meanwhile (a listener that
\* returns late, requests at work, queries that begin before the pool is closed) adds to
\* it: what StopEnds needs besides fairness.
StopGoesForward ==
    [][(main \in Stop) => \/ main' = "exited"
                          \/ Nearer
                          \/ NoFurtherOff /\ ~StopStep]_vars

THEOREM StopIsForward == Spec => StopGoesForward
<1>1. TypeOK /\ [Next]_vars =>
          [(main \in Stop) => \/ main' = "exited"
                              \/ Nearer
                              \/ NoFurtherOff /\ ~StopStep]_vars
  <2> SUFFICES ASSUME TypeOK, Next, main \in Stop, ~StopStep, main' # "exited"
               PROVE  NoFurtherOff
    BY StopSteps
  <2>1. \/ ListenReturns
        \/ \E h \in Handler : Request(h)
    BY DEF Next, Stop, StopStep, Load, LoadFails, MakeOptions, OptionsFail, StartProvider,
           ProviderFails, TelemetryReady, OpenPool, Migrate, LogPanics, DatabaseFails,
           OpenCache, Listen, ListenFails, ExitOnListen, Signal, Kill, Exit
  <2>2. CASE ListenReturns
    BY <2>2 DEF ListenReturns, NoFurtherOff, Running, Querying, telemetry, requests
  <2> QED
    BY <2>1, <2>2, RequestsLetGo
<1>2. IInv => TypeOK
    BY DEF IInv
<1> QED
    BY <1>1, <1>2, Invariance, PTL DEF Spec, StopGoesForward
=============================================================================
