-------------------------------- MODULE Main --------------------------------
(***************************************************************************)
(* The process around the controller: main, from its flags to its end.     *)
(* It connects, finds a configuration, makes the strategy (NewController   *)
(* and exposestrategy.New), and then waits on stopCh, which the goroutine  *)
(* of the one-shot ticker and the signal handler close.                    *)
(*                                                                         *)
(* What the API server and the file system answer is chosen when it is     *)
(* asked.  Of a configuration the model keeps the exposer, whether it      *)
(* gives a domain, and whether it gives a node IP.                         *)
(***************************************************************************)
EXTENDS Naturals

CONSTANTS
  MaxRetries,           \* how often the client is tried again (30 in the code)
  MaxProbeFaults,       \* bound on the requests for the master's type that fail
  Nil                   \* no configuration

ASSUME MainAssumption == MaxRetries \in Nat /\ MaxProbeFaults \in Nat

VARIABLES
  at,                   \* where main is, or how it ended
  flags,                \* the command line
  openShift,            \* whether the master serves /oapi
  retries,              \* of factory.Client
  answers,              \* history: what the places of a configuration held
  automatic,            \* history: whether NewAutoStrategy chose the exposer
  config,               \* controllerConfig
  probeFaults,          \* requests for the master's type that failed
  oc,                   \* whether the controller has an OpenShift client
  synced,               \* whether the informer has worked off its first list
  signal,               \* "none", "sent" (in signalChan) or "taken"
  ticker,               \* the goroutine: "select", "asking" (in Hasrun) or "done"
  tick,                 \* whether a tick is in ticker.C
  quit, stopCh          \* whether the channels are closed

configVars == <<flags, openShift, retries, answers, automatic, config, probeFaults, oc>>
runVars == <<synced, signal, ticker, tick, quit, stopCh>>
mainVars == <<at, configVars, runVars>>

Places == {"file", "current", "team", "trimmed"}
Exposers == {"none", "ingress", "route", "nodeport", "loadbalancer", "ambassador", "unknown"}
Config == [from : Places \cup {"default"}, exposer : Exposers, domain : BOOLEAN,
           nodeIP : BOOLEAN]
ASSUME NilAssumption == Nil \notin Config

DefaultConfig ==
  [from |-> "default", exposer |-> "none", domain |-> FALSE, nodeIP |-> FALSE]

(* A flag that is not given leaves the configuration's value.               *)
Flags == [mode : {"daemon", "oneshot", "cleanup"}, exposer : {"none", "route"},
          domain : BOOLEAN]

Running == at = "running"
Ended == at \in {"returned", "fatal", "nilPointer", "nilTemplate", "closedTwice"}

MainTypeOK ==
  /\ at \in {"client", "namespace", "file", "current", "other", "override", "auto",
             "construct", "isOpenShift", "cleanup", "running",
             "returned", "fatal", "nilPointer", "nilTemplate", "closedTwice"}
  /\ flags \in Flags
  /\ openShift \in BOOLEAN
  /\ retries \in 0 .. MaxRetries
  /\ answers \in [Places -> {"unread", "missing", "broken", "null", "usable"}]
  /\ automatic \in BOOLEAN
  /\ config \in Config \cup {Nil}
  /\ probeFaults \in 0 .. MaxProbeFaults
  /\ oc \in BOOLEAN
  /\ synced \in BOOLEAN
  /\ signal \in {"none", "sent", "taken"}
  /\ ticker \in {"select", "asking", "done"}
  /\ tick \in BOOLEAN /\ quit \in BOOLEAN /\ stopCh \in BOOLEAN

MainInit ==
  /\ at = "client"
  /\ flags \in Flags
  /\ openShift \in BOOLEAN
  /\ retries = 0
  /\ answers = [p \in Places |-> "unread"]
  /\ automatic = FALSE
  /\ config = Nil
  /\ probeFaults = 0
  /\ oc = FALSE
  /\ synced = FALSE
  /\ signal = "none"
  /\ ticker = "select"
  /\ tick = FALSE /\ quit = FALSE /\ stopCh = FALSE

-----------------------------------------------------------------------------
(* The client and the namespace.                                            *)

(* Mutant: one retry too many.                                              *)
CreateClientOnceMore ==
  /\ at = "client"
  /\ \/ at' = "namespace" /\ UNCHANGED retries
     \/ retries <= MaxRetries /\ retries' = retries + 1 /\ UNCHANGED at
     \/ retries > MaxRetries /\ at' = "fatal" /\ UNCHANGED retries
  /\ UNCHANGED <<flags, openShift, automatic, answers, config, probeFaults, oc, runVars>>

CreateClient ==
  /\ at = "client"
  /\ \/ at' = "namespace" /\ UNCHANGED retries
     \/ retries < MaxRetries /\ retries' = retries + 1 /\ UNCHANGED at
     \/ retries = MaxRetries /\ at' = "fatal" /\ UNCHANGED retries
  /\ UNCHANGED <<flags, openShift, automatic, answers, config, probeFaults, oc, runVars>>

(* The current namespace and the REST configuration, or a fatal error.      *)
FindNamespace ==
  /\ at = "namespace"
  /\ at' \in {"file", "fatal"}
  /\ UNCHANGED <<configVars, runVars>>

-----------------------------------------------------------------------------
(* The configuration.                                                       *)

(* Load of a text: an error, or a configuration; a YAML null makes the      *)
(* pointer nil that Load then follows.                                      *)
Loaded(text) ==
  IF text = "good" THEN "usable" ELSE IF text = "bad" THEN "broken" ELSE "null"

(* LoadFile: a file that is missing gives the default configuration, one    *)
(* that cannot be read gives none.                                          *)
FileAnswer(file) ==
  IF file = "missing" THEN "missing"
  ELSE IF file = "unreadable" THEN "broken"
  ELSE Loaded(file)

(* A configuration that came from place p.                                  *)
ConfigsAt(p) == {c \in Config : c.from = p}

LoadFile ==
  /\ at = "file"
  /\ \E file \in {"missing", "unreadable", "good", "bad", "null"} :
       LET a == FileAnswer(file) IN
         /\ answers' = [answers EXCEPT !["file"] = a]
         /\ \/ a = "usable" /\ config' \in ConfigsAt("file") /\ at' = "override"
            \/ a = "missing" /\ config' = DefaultConfig /\ at' = "current"
            \/ a = "broken" /\ config' = Nil /\ at' = "current"
            \/ a = "null" /\ config' = Nil /\ at' = "nilPointer"
  /\ UNCHANGED <<flags, openShift, automatic, retries, probeFaults, oc, runVars>>

(* The two ConfigMaps of a namespace; "none" is any error of Get.           *)
ConfigMaps == [exposecontroller : {"none", "empty", "good", "bad", "null"},
               ingressConfig : {"none", "nil", "data"}]

(* tryFindConfig: ingress-config only counts where exposecontroller cannot  *)
(* be read, and is used also when MapToConfig fails.                        *)
MapAnswer(cms) ==
  IF cms.exposecontroller = "none"
  THEN IF cms.ingressConfig = "data" THEN "usable" ELSE "missing"
  ELSE IF cms.exposecontroller = "empty" THEN "missing"
  ELSE Loaded(cms.exposecontroller)

(* Mutant: what the search found replaces the configuration even if it is   *)
(* nothing.                                                                 *)
TryFindConfigAssigns(p, next) ==
  \E cms \in ConfigMaps :
    LET a == MapAnswer(cms) IN
      /\ answers' = [answers EXCEPT ![p] = a]
      /\ \/ a = "usable" /\ config' \in ConfigsAt(p) /\ at' = "override"
         \/ a \in {"missing", "broken"} /\ config' = Nil /\ at' = next
         \/ a = "null" /\ at' = "nilPointer" /\ UNCHANGED config

(* Mutant: the search goes on after it has found a configuration.           *)
TryFindConfigGoesOn(p, next) ==
  \E cms \in ConfigMaps :
    LET a == MapAnswer(cms) IN
      /\ answers' = [answers EXCEPT ![p] = a]
      /\ \/ a = "usable" /\ config' \in ConfigsAt(p) /\ at' = next
         \/ a \in {"missing", "broken"} /\ UNCHANGED config /\ at' = next
         \/ a = "null" /\ at' = "nilPointer" /\ UNCHANGED config

TryFindConfig(p, next) ==
  \E cms \in ConfigMaps :
    LET a == MapAnswer(cms) IN
      /\ answers' = [answers EXCEPT ![p] = a]
      /\ \/ a = "usable" /\ config' \in ConfigsAt(p) /\ at' = "override"
         \/ a \in {"missing", "broken"} /\ UNCHANGED config /\ at' = next
         \/ a = "null" /\ at' = "nilPointer" /\ UNCHANGED config

FindInCurrent ==
  /\ at = "current"
  /\ TryFindConfig("current", "other")
  /\ UNCHANGED <<flags, openShift, automatic, retries, probeFaults, oc, runVars>>

(* The namespace its team label names, or, when the Namespace cannot be     *)
(* read, the one its own name begins with; there may be neither.            *)
FindElsewhere ==
  /\ at = "other"
  /\ \/ \E p \in {"team", "trimmed"} : TryFindConfig(p, "override")
     \/ at' = "override" /\ UNCHANGED <<answers, config>>
  /\ UNCHANGED <<flags, openShift, automatic, retries, probeFaults, oc, runVars>>

Overridden(c) ==
  [from |-> c.from, domain |-> c.domain \/ flags.domain, nodeIP |-> c.nodeIP,
   exposer |-> IF flags.exposer = "none" THEN c.exposer ELSE flags.exposer]

AfterOverride(c) ==
  IF flags.mode = "cleanup" THEN "cleanup"
  ELSE IF c.exposer = "none" THEN "auto" ELSE "construct"

Override ==
  /\ at = "override"
  /\ \/ /\ config = Nil
        /\ at' = "nilPointer"
        /\ UNCHANGED config
     \/ /\ config # Nil
        /\ config' = Overridden(config)
        /\ at' = AfterOverride(config')
  /\ UNCHANGED <<flags, openShift, automatic, retries, answers, probeFaults, oc, runVars>>

(* The --cleanup run itself is in IngressController.                        *)
Cleanup ==
  /\ at = "cleanup"
  /\ at' \in {"returned", "fatal"}
  /\ UNCHANGED <<configVars, runVars>>

-----------------------------------------------------------------------------
(* The strategy.                                                            *)

(* typeOfMaster: a request that fails reads as Kubernetes.                  *)
Probe(found) ==
  \/ /\ found = openShift
     /\ UNCHANGED probeFaults
  \/ /\ found = FALSE
     /\ probeFaults < MaxProbeFaults
     /\ probeFaults' = probeFaults + 1

(* getAutoDefaultDomain: the address of the only node, minikube, of the     *)
(* only node labelled for it, or of the stackpoint proxy.                   *)
Nodes == [list : {"error", "one", "mini", "many"}, labelled : 0 .. 2,
          hasIP : BOOLEAN, stackpoint : BOOLEAN]

HasDefaultDomain(nodes) ==
  /\ nodes.list # "error"
  /\ IF nodes.list = "mini" \/ nodes.labelled = 1 THEN nodes.hasIP ELSE nodes.stackpoint

(* NewNodePortStrategy needs the address of the only node.                  *)
HasNodeIP(nodes) == nodes.list \in {"one", "mini"} /\ nodes.hasIP

Chosen(c, found) ==
  [from |-> c.from, nodeIP |-> c.nodeIP,
   exposer |-> IF found THEN "route" ELSE "ingress", domain |-> c.domain \/ ~ found]

(* NewAutoStrategy: the exposer follows the master, and an ingress's domain *)
(* is looked for.                                                           *)
NewAutoStrategy ==
  /\ at = "auto"
  /\ \E found \in BOOLEAN, nodes \in Nodes :
       /\ Probe(found)
       /\ \/ /\ ~ found /\ ~ config.domain /\ ~ HasDefaultDomain(nodes)
             /\ at' = "fatal"
             /\ UNCHANGED config
          \/ /\ found \/ config.domain \/ HasDefaultDomain(nodes)
             /\ config' = Chosen(config, found)
             /\ at' = "construct"
  /\ automatic' = TRUE
  /\ UNCHANGED <<flags, openShift, retries, answers, oc, runVars>>

(* The constructors: whether they come without an error to their end.       *)
(* Those that depend on the master ask it again.                            *)

(* Mutant: the type of the master is not looked at.                         *)
NewIngressStrategyAnywhere(found, nodes) == config.domain \/ HasDefaultDomain(nodes)

NewIngressStrategy(found, nodes) == ~ found /\ (config.domain \/ HasDefaultDomain(nodes))

NewAmbassadorStrategy(found, nodes) == ~ found /\ (config.domain \/ HasDefaultDomain(nodes))

NewRouteStrategy(found) == found

NewNodePortStrategy(nodes) == config.nodeIP \/ HasNodeIP(nodes)

Constructs(found, nodes) ==
  \/ config.exposer = "ingress" /\ NewIngressStrategy(found, nodes)
  \/ config.exposer = "ambassador" /\ NewAmbassadorStrategy(found, nodes)
  \/ config.exposer = "route" /\ NewRouteStrategy(found)
  \/ config.exposer = "nodeport" /\ NewNodePortStrategy(nodes)
  \/ config.exposer = "loadbalancer"

(* getURLFormat, the last thing these two do, drops its errors: it follows  *)
(* the nil template of a text that does not parse, and accepts one that     *)
(* cannot be executed.                                                      *)
URLFormatPanics(parses) == config.exposer \in {"ingress", "ambassador"} /\ ~ parses

(* exposestrategy.New.                                                      *)
NewStrategy ==
  /\ at = "construct"
  /\ \E found \in BOOLEAN, nodes \in Nodes, parses \in BOOLEAN :
       /\ IF config.exposer \in {"ingress", "ambassador", "route"} THEN Probe(found)
          ELSE UNCHANGED probeFaults
       /\ at' = IF ~ Constructs(found, nodes) THEN "fatal"
                ELSE IF URLFormatPanics(parses) THEN "nilTemplate" ELSE "isOpenShift"
  /\ UNCHANGED <<flags, openShift, automatic, retries, answers, config, oc, runVars>>

(* isOpenShift makes the same request and reads it the same way.            *)
IsOpenShift(found) == Probe(found)

(* The rest of NewController: the OpenShift client, without which no OAuth  *)
(* client is ever updated.                                                  *)
NewController ==
  /\ at = "isOpenShift"
  /\ \E found \in BOOLEAN : IsOpenShift(found) /\ oc' = found
  /\ at' = "running"
  /\ UNCHANGED <<flags, openShift, automatic, retries, answers, config, runVars>>

-----------------------------------------------------------------------------
(* Run, Stop and who calls it.                                              *)

(* Close of a closed channel panics, in whatever goroutine.                 *)
Stop ==
  \/ ~ stopCh /\ stopCh' = TRUE /\ UNCHANGED at
  \/ stopCh /\ at' = "closedTwice" /\ UNCHANGED stopCh

(* The informer has worked off its first list (ServiceInformer's HasSynced). *)
Sync ==
  /\ Running
  /\ ~ synced
  /\ synced' = TRUE
  /\ UNCHANGED <<at, configVars, signal, ticker, tick, quit, stopCh>>

TickerFires ==
  /\ Running
  /\ flags.mode = "oneshot"
  /\ ~ tick
  /\ tick' = TRUE
  /\ UNCHANGED <<at, configVars, synced, signal, ticker, quit, stopCh>>

(* select takes any case that is ready.                                     *)
ReceiveTick ==
  /\ Running
  /\ ticker = "select"
  /\ tick
  /\ tick' = FALSE
  /\ ticker' = "asking"
  /\ UNCHANGED <<at, configVars, synced, signal, quit, stopCh>>

(* Mutant: quit is closed whatever Hasrun says.                             *)
HasrunIgnored == TRUE

Hasrun == synced

(* Hasrun waits for the queue's lock, which a handler may hold for longer   *)
(* than the next tick takes to come.                                        *)
HasrunAnswers ==
  /\ Running
  /\ ticker = "asking"
  /\ ticker' = "select"
  /\ \/ ~ Hasrun /\ UNCHANGED <<at, quit>>
     \/ Hasrun /\ ~ quit /\ quit' = TRUE /\ UNCHANGED at
     \/ Hasrun /\ quit /\ at' = "closedTwice" /\ UNCHANGED quit
  /\ UNCHANGED <<configVars, synced, signal, tick, stopCh>>

(* Mutant: the goroutine ends without Stop.                                 *)
QuitStopsNothing ==
  /\ Running
  /\ ticker = "select"
  /\ quit
  /\ ticker' = "done"
  /\ UNCHANGED <<at, configVars, synced, signal, tick, quit, stopCh>>

QuitStops ==
  /\ Running
  /\ ticker = "select"
  /\ quit
  /\ Stop
  /\ ticker' = "done"
  /\ UNCHANGED <<configVars, synced, signal, tick, quit>>

SendSignal ==
  /\ Running
  /\ signal = "none"
  /\ signal' = "sent"
  /\ UNCHANGED <<at, configVars, synced, ticker, tick, quit, stopCh>>

HandleSigterm ==
  /\ Running
  /\ signal = "sent"
  /\ signal' = "taken"
  /\ Stop
  /\ UNCHANGED <<configVars, synced, ticker, tick, quit>>

(* registerHandlers: the daemon's server cannot listen.                     *)
ListenFails ==
  /\ Running
  /\ flags.mode = "daemon"
  /\ at' = "fatal"
  /\ UNCHANGED <<configVars, runVars>>

RunReturns ==
  /\ Running
  /\ stopCh
  /\ at' = "returned"
  /\ UNCHANGED <<configVars, runVars>>

MainNext ==
  \/ CreateClient \/ FindNamespace
  \/ LoadFile \/ FindInCurrent \/ FindElsewhere \/ Override \/ Cleanup
  \/ NewAutoStrategy \/ NewStrategy \/ NewController
  \/ Sync \/ TickerFires \/ ReceiveTick \/ HasrunAnswers \/ QuitStops
  \/ SendSignal \/ HandleSigterm \/ ListenFails \/ RunReturns

MainSpec == MainInit /\ [][MainNext]_mainVars

(* The goroutines run, time passes, and a select that again and again finds *)
(* quit closed takes that case some time.                                   *)
MainFairness ==
  /\ WF_mainVars(CreateClient \/ FindNamespace \/ LoadFile \/ FindInCurrent \/ FindElsewhere
                 \/ Override \/ Cleanup \/ NewAutoStrategy \/ NewStrategy \/ NewController)
  /\ WF_mainVars(TickerFires)
  /\ WF_mainVars(ReceiveTick)
  /\ WF_mainVars(HasrunAnswers)
  /\ SF_mainVars(QuitStops)
  /\ WF_mainVars(HandleSigterm)
  /\ WF_mainVars(RunReturns)

FairMainSpec == MainSpec /\ MainFairness

-----------------------------------------------------------------------------
Usable == {p \in Places : answers[p] = "usable"}

(* main follows a nil configuration only when the file is broken and no     *)
(* ConfigMap took its place, or when a text is a YAML null: a missing file  *)
(* and a search that finds nothing leave the defaults.                      *)
NilOnlyIfBroken ==
  at = "nilPointer" =>
    \/ \E p \in Places : answers[p] = "null"
    \/ answers["file"] = "broken" /\ Usable = {}

(* The configuration comes from where the search found one, and the search  *)
(* ended there; the defaults are used when nothing was found.               *)
ConfigOfSearch ==
  at \in {"auto", "construct", "isOpenShift", "cleanup", "running"} =>
    /\ config # Nil
    /\ Usable = {config.from} \ {"default"}

(* The strategy that runs fits the master unless a request for its type     *)
(* failed, and one failure is not enough for the automatic choice, because  *)
(* the constructor asks again: it then refuses to start.                    *)
Misfit ==
  \/ openShift /\ config.exposer \in {"ingress", "ambassador"}
  \/ ~ openShift /\ config.exposer = "route"

StrategyFitsMaster ==
  Running /\ Misfit => openShift /\ probeFaults >= (IF automatic THEN 2 ELSE 1)

(* Nothing stops the controller before its work is done or a signal asks    *)
(* for it, and the goroutines that stop it do not panic before that; once   *)
(* one of the two has happened, a second close is allowed here.             *)
StopsAsAsked ==
  stopCh \/ at = "closedTwice" => (flags.mode = "oneshot" /\ synced) \/ signal = "taken"

(* A signal ends the process, and a one-shot run ends when the informer has *)
(* worked off its first list, in whatever order ticks, answers and the      *)
(* signal come; the panic of a second close (ControlCHandled) is an end.    *)
EndsEventually ==
  /\ (signal = "sent") ~> Ended
  /\ (flags.mode = "oneshot" /\ synced) ~> Ended

(* "Handle Control-C has well here": a one-shot run that gets a signal ends *)
(* without a panic.                                                         *)
ControlCHandled == signal # "none" => at # "closedTwice"
=============================================================================
