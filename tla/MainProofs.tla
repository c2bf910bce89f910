----------------------------- MODULE MainProofs -----------------------------
(***************************************************************************)
(* The safety invariants of Main, for every number of retries and of       *)
(* failing requests.                                                       *)
(*                                                                         *)
(* SearchInv follows the search for a configuration through the places, in *)
(* order; FitsInv the requests for the master's type from the automatic    *)
(* choice to the constructor; StopInv who has closed quit and stopCh.      *)
(***************************************************************************)
EXTENDS Main, TLAPS

Searched == {"auto", "construct", "isOpenShift", "cleanup", "running"}

(* While the search is on, nothing usable was found before, and main has    *)
(* the defaults unless the file is broken.                                  *)
NothingFound ==
  /\ Usable = {}
  /\ \/ config = DefaultConfig
     \/ config = Nil /\ answers["file"] = "broken"

Found == config # Nil /\ Usable = {config.from} \ {"default"}

SearchInv ==
  /\ at \in {"client", "namespace", "file"} => Usable = {}
  /\ at \in {"current", "other"} => NothingFound
  /\ at = "override" => NothingFound \/ Found
  /\ at \in Searched => Found

(* After the automatic choice a wrong exposer has cost a failed request,    *)
(* and after the constructor another one.                                   *)
FitsInv ==
  /\ at \in {"client", "namespace", "file", "current", "other", "override", "auto"} => ~ automatic
  /\ at = "construct" /\ automatic =>
       /\ config.exposer \in {"route", "ingress"}
       /\ Misfit => openShift /\ probeFaults >= 1
  /\ at \in {"isOpenShift", "running"} /\ Misfit =>
       openShift /\ probeFaults >= (IF automatic THEN 2 ELSE 1)

StopInv ==
  /\ tick \/ ticker # "select" => flags.mode = "oneshot"
  /\ quit => flags.mode = "oneshot" /\ synced
  /\ StopsAsAsked

MainInv == MainTypeOK /\ SearchInv /\ NilOnlyIfBroken /\ FitsInv /\ StopInv

ConfigPhase ==
  \/ CreateClient \/ FindNamespace
  \/ LoadFile \/ FindInCurrent \/ FindElsewhere \/ Override \/ Cleanup
  \/ NewAutoStrategy \/ NewStrategy \/ NewController

RunPhase ==
  \/ Sync \/ TickerFires \/ ReceiveTick \/ HasrunAnswers \/ QuitStops
  \/ SendSignal \/ HandleSigterm \/ ListenFails \/ RunReturns

LEMMA DefaultFacts == DefaultConfig \in Config /\ DefaultConfig # Nil /\ DefaultConfig.from = "default"
<1>1. DefaultConfig \in Config
  BY DEF DefaultConfig, Config, Exposers
<1>2. DefaultConfig.from = "default"
  BY DEF DefaultConfig
<1> QED BY <1>1, <1>2, NilAssumption

LEMMA MainInitInv == MainInit => MainInv
<1> SUFFICES ASSUME MainInit PROVE MainInv
  OBVIOUS
<1>1. MainTypeOK
  <2>1. /\ automatic \in BOOLEAN /\ oc \in BOOLEAN /\ synced \in BOOLEAN
        /\ tick \in BOOLEAN /\ quit \in BOOLEAN /\ stopCh \in BOOLEAN
    BY Zenon DEF MainInit
  <2> QED BY <2>1, MainAssumption DEF MainInit, MainTypeOK
<1>2. SearchInv /\ NilOnlyIfBroken
  BY DEF MainInit, SearchInv, NilOnlyIfBroken, Usable, Searched
<1>3. FitsInv
  BY DEF MainInit, FitsInv
<1>4. StopInv
  BY DEF MainInit, StopInv, StopsAsAsked
<1> QED BY <1>1, <1>2, <1>3, <1>4 DEF MainInv

-----------------------------------------------------------------------------
(* The types.                                                               *)

LEMMA TypeStep == ASSUME MainTypeOK, SearchInv, MainNext PROVE MainTypeOK'
<1> USE DEF MainTypeOK
<1>1. CASE CreateClient
  BY <1>1, MainAssumption DEF CreateClient, runVars
<1>2. CASE FindNamespace \/ Cleanup
  BY <1>2 DEF FindNamespace, Cleanup, configVars, runVars
<1>3. CASE LoadFile
  BY <1>3, DefaultFacts DEF LoadFile, FileAnswer, Loaded, ConfigsAt, Places, runVars
<1>4. CASE FindInCurrent
  BY <1>4 DEF FindInCurrent, TryFindConfig, MapAnswer, Loaded, ConfigsAt, ConfigMaps,
     Places, runVars
<1>5. CASE FindElsewhere
  BY <1>5 DEF FindElsewhere, TryFindConfig, MapAnswer, Loaded, ConfigsAt, ConfigMaps,
     Places, runVars
<1>6. CASE Override
  BY <1>6 DEF Override, Overridden, AfterOverride, Flags, Config, Exposers, runVars
<1>7. CASE NewAutoStrategy
  <2>1. ASSUME NEW found \in BOOLEAN, config \in Config PROVE Chosen(config, found) \in Config
    <3>1. (config.domain \/ ~ found) \in BOOLEAN
      OBVIOUS
    <3> QED BY <2>1, <3>1 DEF Chosen, Config, Exposers
  <2>2. automatic' \in BOOLEAN
    BY <1>7, Zenon DEF NewAutoStrategy
  <2>3. config \in Config
    BY <1>7 DEF NewAutoStrategy, SearchInv, Searched, Found
  <2> QED BY <1>7, <2>1, <2>2, <2>3, MainAssumption DEF NewAutoStrategy, Probe, runVars
<1>8. CASE NewStrategy
  BY <1>8, MainAssumption DEF NewStrategy, Probe, runVars
<1>9. CASE NewController
  BY <1>9, MainAssumption DEF NewController, IsOpenShift, Probe, runVars
<1>10. CASE Sync \/ TickerFires \/ ReceiveTick \/ SendSignal \/ ListenFails \/ RunReturns
  <2>1. synced' \in BOOLEAN /\ tick' \in BOOLEAN /\ quit' = quit /\ stopCh' = stopCh
    BY <1>10, Zenon DEF Sync, TickerFires, ReceiveTick, SendSignal, ListenFails, RunReturns, runVars
  <2> QED BY <1>10, <2>1 DEF Sync, TickerFires, ReceiveTick, SendSignal, ListenFails, RunReturns,
             configVars, runVars
<1>11. CASE HasrunAnswers
  <2>1. quit' \in BOOLEAN
    BY <1>11, Zenon DEF HasrunAnswers
  <2> QED BY <1>11, <2>1 DEF HasrunAnswers, configVars
<1>12. CASE QuitStops \/ HandleSigterm
  <2>1. stopCh' \in BOOLEAN
    BY <1>12, Zenon DEF QuitStops, HandleSigterm, Stop
  <2> QED BY <1>12, <2>1 DEF QuitStops, HandleSigterm, Stop, configVars
<1> QED BY <1>1, <1>2, <1>3, <1>4, <1>5, <1>6, <1>7, <1>8, <1>9, <1>10,
          <1>11, <1>12 DEF MainNext

-----------------------------------------------------------------------------
(* The search.                                                              *)

(* What the places held stays, and so does what is usable.                  *)
LEMMA SameAnswers ==
  ASSUME UNCHANGED answers PROVE Usable' = Usable
BY DEF Usable

LEMMA NewAnswer ==
  ASSUME MainTypeOK, NEW p \in Places, NEW a, answers' = [answers EXCEPT ![p] = a], p \notin Usable
  PROVE  /\ answers'[p] = a
         /\ Usable' = IF a = "usable" THEN Usable \cup {p} ELSE Usable
         /\ p # "file" => answers'["file"] = answers["file"]
BY DEF MainTypeOK, Usable, Places

(* One place of the search after the file.                                  *)
LEMMA TryFindStep ==
  ASSUME MainTypeOK, NothingFound, NEW p \in {"current", "team", "trimmed"}, NEW next,
         TryFindConfig(p, next)
  PROVE  \/ at' = "override" /\ Found'
         \/ at' = next /\ NothingFound'
         \/ at' = "nilPointer" /\ answers'[p] = "null"
<1>1. PICK cms \in ConfigMaps :
        LET a == MapAnswer(cms) IN
          /\ answers' = [answers EXCEPT ![p] = a]
          /\ \/ a = "usable" /\ config' \in ConfigsAt(p) /\ at' = "override"
             \/ a \in {"missing", "broken"} /\ UNCHANGED config /\ at' = next
             \/ a = "null" /\ at' = "nilPointer" /\ UNCHANGED config
  BY DEF TryFindConfig
<1>2. p \in Places /\ p # "file" /\ p \notin Usable /\ Usable = {}
  BY DEF Places, NothingFound
<1>3. /\ answers'[p] = MapAnswer(cms)
      /\ Usable' = IF MapAnswer(cms) = "usable" THEN Usable \cup {p} ELSE Usable
      /\ answers'["file"] = answers["file"]
  BY <1>1, <1>2, NewAnswer
<1>4. CASE MapAnswer(cms) = "usable"
  <2>1. config' \in Config /\ config'.from = p /\ at' = "override"
    BY <1>1, <1>4 DEF ConfigsAt
  <2>2. Usable' = {p}
    BY <1>2, <1>3, <1>4
  <2> QED BY <2>1, <2>2, NilAssumption DEF Found
<1>5. CASE MapAnswer(cms) # "usable"
  BY <1>1, <1>2, <1>3, <1>5 DEF NothingFound
<1> QED BY <1>4, <1>5

LEMMA SearchStep ==
  ASSUME MainTypeOK, SearchInv, NilOnlyIfBroken, MainNext
  PROVE  SearchInv' /\ NilOnlyIfBroken'
<1>1. CASE CreateClient \/ FindNamespace
  BY <1>1, SameAnswers DEF CreateClient, FindNamespace, configVars, SearchInv, NilOnlyIfBroken, Searched
<1>2. CASE LoadFile
  <2>1. PICK file \in {"missing", "unreadable", "good", "bad", "null"} :
          /\ answers' = [answers EXCEPT !["file"] = FileAnswer(file)]
          /\ \/ /\ FileAnswer(file) = "usable" /\ config' \in ConfigsAt("file")
                /\ at' = "override"
             \/ FileAnswer(file) = "missing" /\ config' = DefaultConfig /\ at' = "current"
             \/ FileAnswer(file) = "broken" /\ config' = Nil /\ at' = "current"
             \/ FileAnswer(file) = "null" /\ config' = Nil /\ at' = "nilPointer"
    BY <1>2 DEF LoadFile
  <2>2. "file" \in Places /\ Usable = {}
    BY <1>2 DEF LoadFile, SearchInv, Places
  <2>3. /\ answers'["file"] = FileAnswer(file)
        /\ Usable' = IF FileAnswer(file) = "usable" THEN {"file"} ELSE {}
    BY <2>1, <2>2, NewAnswer
  <2>4. CASE FileAnswer(file) = "usable"
    <3>1. config' \in Config /\ config'.from = "file"
      BY <2>1, <2>4 DEF ConfigsAt
    <3>2. Found'
      BY <2>3, <2>4, <3>1, NilAssumption DEF Found
    <3> QED BY <2>1, <2>4, <3>2 DEF SearchInv, NilOnlyIfBroken, Searched
  <2>5. CASE FileAnswer(file) # "usable"
    BY <2>1, <2>2, <2>3, <2>5 DEF SearchInv, NilOnlyIfBroken, NothingFound, Searched
  <2> QED BY <2>4, <2>5
<1>3. CASE FindInCurrent
  <2>1. NothingFound /\ TryFindConfig("current", "other")
    BY <1>3 DEF FindInCurrent, SearchInv
  <2> QED BY <2>1, TryFindStep DEF SearchInv, NilOnlyIfBroken, Searched, Places
<1>4. CASE FindElsewhere
  <2>1. NothingFound
    BY <1>4 DEF FindElsewhere, SearchInv
  <2>2. CASE \E p \in {"team", "trimmed"} : TryFindConfig(p, "override")
    BY <2>1, <2>2, TryFindStep DEF SearchInv, NilOnlyIfBroken, Searched, Places
  <2>3. CASE at' = "override" /\ UNCHANGED <<answers, config>>
    BY <2>1, <2>3, SameAnswers DEF SearchInv, NilOnlyIfBroken, Searched, NothingFound
  <2> QED BY <1>4, <2>2, <2>3 DEF FindElsewhere
<1>5. CASE Override
  <2>1. NothingFound \/ Found
    BY <1>5 DEF Override, SearchInv
  <2>2. UNCHANGED answers /\ Usable' = Usable
    BY <1>5, SameAnswers DEF Override
  <2>3. CASE config = Nil
    <3>1. NothingFound /\ answers["file"] = "broken"
      BY <2>1, <2>3, DefaultFacts DEF NothingFound, Found
    <3> QED BY <1>5, <2>2, <2>3, <3>1 DEF Override, SearchInv, NilOnlyIfBroken, Searched, NothingFound
  <2>4. CASE config # Nil
    <3>1. config \in Config /\ Found
      BY <2>1, <2>4, DefaultFacts DEF NothingFound, Found, MainTypeOK
    <3>2. config' = Overridden(config)
      BY <1>5, <2>4 DEF Override
    <3>3. config' \in Config /\ config'.from = config.from
      BY <3>1, <3>2 DEF Overridden, Config, Exposers, Flags, MainTypeOK
    <3>4. Found'
      BY <2>2, <3>1, <3>3, NilAssumption DEF Found
    <3>5. at' \in {"cleanup", "auto", "construct"}
      BY <1>5, <2>4 DEF Override, AfterOverride
    <3> QED BY <3>4, <3>5 DEF SearchInv, NilOnlyIfBroken, Searched
  <2> QED BY <2>3, <2>4
<1>6. CASE NewAutoStrategy
  <2>1. Found /\ UNCHANGED answers /\ at' \in {"fatal", "construct"}
    BY <1>6 DEF NewAutoStrategy, SearchInv, Searched
  <2>2. config' = config \/ \E found \in BOOLEAN : config' = Chosen(config, found)
    BY <1>6 DEF NewAutoStrategy
  <2>3. ASSUME NEW found \in BOOLEAN
        PROVE  Chosen(config, found) # Nil /\ Chosen(config, found).from = config.from
    <3>1. (config.domain \/ ~ found) \in BOOLEAN /\ config \in Config
      BY <2>1 DEF Found, MainTypeOK
    <3>2. Chosen(config, found) \in Config
      BY <3>1 DEF Chosen, Config, Exposers
    <3> QED BY <3>2, NilAssumption DEF Chosen
  <2> QED BY <2>1, <2>2, <2>3, SameAnswers DEF SearchInv, NilOnlyIfBroken, Searched, Found
<1>7. CASE Cleanup \/ NewStrategy \/ NewController
  BY <1>7, SameAnswers DEF Cleanup, NewStrategy, NewController, configVars, SearchInv, NilOnlyIfBroken,
     Searched, Found
<1>8. CASE RunPhase
  <2>1. UNCHANGED <<answers, config>> /\ at = "running"
    BY <1>8 DEF RunPhase, Sync, TickerFires, ReceiveTick, HasrunAnswers, QuitStops, SendSignal,
       HandleSigterm, ListenFails, RunReturns, Running, configVars
  <2>2. at' \in {"running", "closedTwice", "fatal", "returned"}
    BY <1>8, <2>1 DEF RunPhase, Sync, TickerFires, ReceiveTick, HasrunAnswers, QuitStops, SendSignal,
       HandleSigterm, ListenFails, RunReturns, Stop
  <2> QED BY <2>1, <2>2, SameAnswers DEF SearchInv, NilOnlyIfBroken, Searched, Found
<1> QED BY <1>1, <1>2, <1>3, <1>4, <1>5, <1>6, <1>7, <1>8 DEF MainNext, RunPhase

-----------------------------------------------------------------------------
(* The master's type.                                                       *)

(* A request that finds something else than the master has failed.          *)
LEMMA ProbeFacts ==
  ASSUME MainTypeOK, NEW found \in BOOLEAN, Probe(found)
  PROVE  /\ probeFaults' \in Nat /\ probeFaults' >= probeFaults
         /\ found # openShift => openShift /\ probeFaults' >= probeFaults + 1
BY MainAssumption DEF MainTypeOK, Probe

LEMMA FitsStep ==
  ASSUME MainTypeOK, SearchInv, FitsInv, MainNext
  PROVE  FitsInv'
<1>1. CASE CreateClient \/ FindNamespace \/ Cleanup
  BY <1>1 DEF CreateClient, FindNamespace, Cleanup, FitsInv, configVars
<1>2. CASE LoadFile \/ FindInCurrent \/ FindElsewhere
  <2>1. UNCHANGED automatic /\ ~ automatic
    BY <1>2 DEF LoadFile, FindInCurrent, FindElsewhere, FitsInv
  <2>2. at' \in {"override", "current", "other", "nilPointer"}
    BY <1>2 DEF LoadFile, FindInCurrent, FindElsewhere, TryFindConfig
  <2> QED BY <2>1, <2>2 DEF FitsInv
<1>3. CASE Override
  <2>1. UNCHANGED automatic /\ ~ automatic
    BY <1>3 DEF Override, FitsInv
  <2>2. at' \in {"nilPointer", "cleanup", "auto", "construct"}
    BY <1>3 DEF Override, AfterOverride
  <2> QED BY <2>1, <2>2 DEF FitsInv
<1>4. CASE NewAutoStrategy
  <2>1. PICK found \in BOOLEAN, nodes \in Nodes :
          /\ Probe(found)
          /\ \/ /\ ~ found /\ ~ config.domain /\ ~ HasDefaultDomain(nodes)
                /\ at' = "fatal"
                /\ UNCHANGED config
             \/ /\ found \/ config.domain \/ HasDefaultDomain(nodes)
                /\ config' = Chosen(config, found)
                /\ at' = "construct"
    BY <1>4 DEF NewAutoStrategy
  <2>2. UNCHANGED openShift
    BY <1>4 DEF NewAutoStrategy
  <2>3. CASE at' = "fatal"
    BY <2>3 DEF FitsInv
  <2>4. CASE at' = "construct" /\ config' = Chosen(config, found)
    <3>1. config'.exposer = IF found THEN "route" ELSE "ingress"
      BY <2>4 DEF Chosen
    <3>2. Misfit' => found # openShift
      BY <2>2, <3>1 DEF Misfit, MainTypeOK
    <3>3. Misfit' => openShift' /\ probeFaults' >= 1
      BY <2>1, <2>2, <3>2, ProbeFacts, MainAssumption DEF MainTypeOK
    <3> QED BY <2>4, <3>1, <3>3 DEF FitsInv
  <2> QED BY <2>1, <2>3, <2>4
<1>5. CASE NewStrategy
  <2>1. PICK found \in BOOLEAN, nodes \in Nodes, parses \in BOOLEAN :
          /\ IF config.exposer \in {"ingress", "ambassador", "route"} THEN Probe(found)
             ELSE UNCHANGED probeFaults
          /\ at' = IF ~ Constructs(found, nodes) THEN "fatal"
                   ELSE IF URLFormatPanics(parses) THEN "nilTemplate" ELSE "isOpenShift"
    BY <1>5 DEF NewStrategy
  <2>2. UNCHANGED <<openShift, config, automatic>> /\ at = "construct"
    BY <1>5 DEF NewStrategy
  <2>3. CASE at' \in {"fatal", "nilTemplate"}
    BY <2>3 DEF FitsInv
  <2>4. CASE at' = "isOpenShift" /\ Constructs(found, nodes)
    <3>1. SUFFICES ASSUME Misfit PROVE openShift /\ probeFaults' >= (IF automatic THEN 2 ELSE 1)
      BY <2>2, <2>4 DEF FitsInv, Misfit
    <3>2. config.exposer \in {"ingress", "ambassador", "route"} /\ found # openShift
      BY <2>4, <3>1 DEF Misfit, Constructs, NewIngressStrategy, NewAmbassadorStrategy,
                        NewRouteStrategy
    <3>3. openShift /\ probeFaults' \in Nat /\ probeFaults' >= probeFaults + 1
      BY <2>1, <3>2, ProbeFacts
    <3>4. automatic => probeFaults >= 1
      BY <2>2, <3>1 DEF FitsInv
    <3> QED BY <3>3, <3>4, MainAssumption DEF MainTypeOK
  <2> QED BY <2>1, <2>3, <2>4
<1>6. CASE NewController
  <2>1. /\ UNCHANGED <<openShift, config, automatic>>
        /\ at = "isOpenShift" /\ at' = "running"
    BY <1>6 DEF NewController
  <2>2. probeFaults' \in Nat /\ probeFaults' >= probeFaults
    BY <1>6, ProbeFacts DEF NewController, IsOpenShift
  <2>3. Misfit' => Misfit
    BY <2>1 DEF Misfit
  <2> QED BY <2>1, <2>2, <2>3, MainAssumption DEF FitsInv, MainTypeOK
<1>7. CASE RunPhase
  <2>1. UNCHANGED <<openShift, config, automatic, probeFaults>> /\ at = "running"
    BY <1>7 DEF RunPhase, Sync, TickerFires, ReceiveTick, HasrunAnswers, QuitStops, SendSignal,
       HandleSigterm, ListenFails, RunReturns, Running, configVars
  <2>2. at' \in {"running", "closedTwice", "fatal", "returned"}
    BY <1>7, <2>1 DEF RunPhase, Sync, TickerFires, ReceiveTick, HasrunAnswers, QuitStops, SendSignal,
       HandleSigterm, ListenFails, RunReturns, Stop
  <2>3. Misfit' => Misfit
    BY <2>1 DEF Misfit
  <2> QED BY <2>1, <2>2, <2>3 DEF FitsInv
<1> QED BY <1>1, <1>2, <1>3, <1>4, <1>5, <1>6, <1>7 DEF MainNext, RunPhase

-----------------------------------------------------------------------------
(* Who stops the controller.                                                *)

LEMMA StopStep ==
  ASSUME MainTypeOK, StopInv, MainNext
  PROVE  StopInv'
<1>1. CASE ConfigPhase
  <2>1. UNCHANGED <<flags, runVars>> /\ at' # "closedTwice"
    BY <1>1 DEF ConfigPhase, CreateClient, FindNamespace, LoadFile, FindInCurrent, FindElsewhere,
       TryFindConfig, Override, AfterOverride, Cleanup, NewAutoStrategy, NewStrategy, NewController,
       configVars
  <2> QED BY <2>1 DEF StopInv, StopsAsAsked, runVars
<1>2. CASE RunPhase
  <2>1. UNCHANGED flags /\ at = "running"
    BY <1>2 DEF RunPhase, Sync, TickerFires, ReceiveTick, HasrunAnswers, QuitStops, SendSignal,
       HandleSigterm, ListenFails, RunReturns, Running, configVars
  <2>2. CASE Sync \/ TickerFires \/ ReceiveTick \/ SendSignal \/ ListenFails \/ RunReturns
    BY <2>1, <2>2 DEF Sync, TickerFires, ReceiveTick, SendSignal, ListenFails, RunReturns,
       StopInv, StopsAsAsked, runVars
  <2>3. CASE HasrunAnswers
    BY <2>1, <2>3 DEF HasrunAnswers, Hasrun, StopInv, StopsAsAsked
  <2>4. CASE QuitStops
    BY <2>1, <2>4 DEF QuitStops, Stop, StopInv, StopsAsAsked
  <2>5. CASE HandleSigterm
    BY <2>1, <2>5 DEF HandleSigterm, Stop, StopInv, StopsAsAsked
  <2> QED BY <1>2, <2>2, <2>3, <2>4, <2>5 DEF RunPhase
<1> QED BY <1>1, <1>2 DEF MainNext, ConfigPhase, RunPhase

-----------------------------------------------------------------------------
LEMMA MainStep == MainInv /\ [MainNext]_mainVars => MainInv'
<1>1. ASSUME MainInv, MainNext PROVE MainInv'
  BY <1>1, TypeStep, SearchStep, FitsStep, StopStep DEF MainInv
<1>2. ASSUME MainInv, UNCHANGED mainVars PROVE MainInv'
  BY <1>2 DEF MainInv, MainTypeOK, SearchInv, NothingFound, Found, Usable, NilOnlyIfBroken, FitsInv,
     Misfit, StopInv, StopsAsAsked, mainVars, configVars, runVars
<1> QED BY <1>1, <1>2

(* Every state main can be in satisfies the strengthened invariant.         *)
THEOREM MainInvariance == MainSpec => []MainInv
BY MainInitInv, MainStep, PTL DEF MainSpec

(* Every variable of main keeps its type, whatever the API server answers.  *)
THEOREM MainTypeCorrect == MainSpec => []MainTypeOK
<1>1. MainInv => MainTypeOK
  BY DEF MainInv
<1> QED BY <1>1, MainInvariance, PTL

(* main follows a nil configuration only when the file is broken and        *)
(* nothing took its place, or a text is a YAML null.                        *)
THEOREM MainNilOnlyIfBroken == MainSpec => []NilOnlyIfBroken
<1>1. MainInv => NilOnlyIfBroken
  BY DEF MainInv
<1> QED BY <1>1, MainInvariance, PTL

(* The configuration in use is the one the search ended with.               *)
THEOREM MainConfigOfSearch == MainSpec => []ConfigOfSearch
<1>1. MainInv => ConfigOfSearch
  BY DEF MainInv, SearchInv, Searched, Found, ConfigOfSearch
<1> QED BY <1>1, MainInvariance, PTL

(* One failed request for the master's type does not make the automatic     *)
(* choice run a strategy that does not fit.                                 *)
THEOREM MainStrategyFits == MainSpec => []StrategyFitsMaster
<1>1. MainInv => StrategyFitsMaster
  BY DEF MainInv, FitsInv, StrategyFitsMaster, Running
<1> QED BY <1>1, MainInvariance, PTL

(* The controller is stopped, or a panic ends it, only after its work is    *)
(* done or a signal has come.                                               *)
THEOREM MainStopsAsAsked == MainSpec => []StopsAsAsked
<1>1. MainInv => StopsAsAsked
  BY DEF MainInv, StopInv
<1> QED BY <1>1, MainInvariance, PTL
=============================================================================
