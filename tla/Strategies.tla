----------------------------- MODULE Strategies -----------------------------
(***************************************************************************)
(* The controller with each of the other strategies: exposestrategy.New    *)
(* has made one of them when the process started, and it stays.            *)
(***************************************************************************)
EXTENDS RouteStrategy, ServiceStrategies

VARIABLE strategy

strategyVars == <<handlersVars, routeVars, strategy>>

(* What a strategy can annotate a service with is a URL.                    *)
ASSUME UrlsAssumption == /\ \A route \in Route : UrlOf(route) \in Hosts
                         /\ \A p \in NodePorts : NodeUrl(p) \in Hosts
                         /\ BalancerUrl("ip") \in Hosts
ASSUME RoutesAssumption == Absent \notin Route /\ UserBackend \notin Keys

(* Users leave it to the controller to open their services.                 *)
ASSUME ClosedAssumption == \A s \in UserSpecs : s.type = "ClusterIP" /\ ~ s.mapped

StrategyNames == {"route", "nodeport", "loadbalancer", "ambassador"}

StrategiesTypeOK == HandlersTypeOK /\ RouteTypeOK /\ strategy \in StrategyNames

(* Only the route strategy reads the route configuration.                   *)
StrategiesInit ==
  /\ HandlersInit
  /\ RouteInit
  /\ strategy \in StrategyNames
  /\ strategy # "route" => routeConfig = [usePath |-> FALSE, host |-> NoHost]

(* Add and Remove of the strategy that runs.                                *)
AddStep ==
  \/ strategy = "route" /\ RouteAdd
  \/ strategy = "nodeport" /\ NodePortAdd /\ UNCHANGED routeVars
  \/ strategy = "loadbalancer" /\ LoadBalancerAdd /\ UNCHANGED routeVars
  \/ strategy = "ambassador" /\ AmbassadorAdd /\ UNCHANGED routeVars

RemoveStep ==
  \/ strategy = "route" /\ RouteRemove
  \/ strategy = "nodeport" /\ NodePortRemove /\ UNCHANGED routeVars
  \/ strategy = "loadbalancer" /\ LoadBalancerRemove /\ UNCHANGED routeVars
  \/ strategy = "ambassador" /\ AmbassadorRemove /\ UNCHANGED routeVars

StrategiesNext ==
  /\ \/ HandlersNext /\ UNCHANGED routeVars
     \/ AddStep
     \/ RemoveStep
     \/ Crash /\ RouteCrash
     \/ strategy = "route" /\ EditRoute
     \/ strategy # "route" /\ EditSpec /\ UNCHANGED routeVars
  /\ UNCHANGED strategy

StrategiesSpec == StrategiesInit /\ [][StrategiesNext]_strategyVars

StrategiesFairness ==
  /\ HandlersFairness
  /\ WF_strategyVars(AddStep /\ UNCHANGED strategy)
  /\ WF_strategyVars(RemoveStep /\ UNCHANGED strategy)

FairStrategiesSpec == StrategiesSpec /\ StrategiesFairness

-----------------------------------------------------------------------------
(* The services a strategy accepts.                                         *)
Accepts(svc) ==
  \/ strategy \in {"route", "loadbalancer"}
  \/ strategy = "nodeport" /\ svc.spec.ports = 1
  \/ strategy = "ambassador" /\ ~ AmbassadorPanics(svc)

Exposable(k) ==
  svcs[k] # Absent /\ Marked(svcs[k]) /\ IsServiceWhitelisted(k) /\ Accepts(svcs[k])

(* What a place leads to: the route of the service's name, or the service   *)
(* itself when its type or its mapping opens it.                            *)
BackendsOf(k) ==
  IF strategy = "route" THEN {r.to : r \in {routes[k]} \ {Absent}}
  ELSE IF /\ svcs[k] # Absent
          /\ svcs[k].spec.mapped \/ svcs[k].spec.type # "ClusterIP"
       THEN {k} ELSE {}

Abstract == INSTANCE Exposure WITH
  Clients <- Keys, Places <- Keys, Foreign <- UserBackend,
  backends <- [k \in Keys |-> BackendsOf(k)], overlooked <- [k \in Keys |-> {}]

(* Every strategy implements Exposure: a service is opened only after its   *)
(* owner asked for it, and no step opens one service and closes another.    *)
ImplementsExposure == Abstract!Spec

(* The URL under which the service can be reached, if the strategy knows it. *)
ReachedAt(k) ==
  IF strategy = "route" THEN IF HasUrl(routes[k]) THEN UrlOf(routes[k]) ELSE svcs[k].url
  ELSE IF strategy = "nodeport" THEN NodeUrl(svcs[k].spec.nodePort)
  ELSE IF strategy = "loadbalancer" /\ svcs[k].spec.ip # NoIP THEN BalancerUrl(svcs[k].spec.ip)
  ELSE svcs[k].url

(* Ambassador's annotates no URL: of its services only the mapping counts.  *)
Reachable(k) ==
  /\ svcs[k] # Absent
  /\ CASE strategy = "route" -> routes[k] # Absent /\ routes[k].to = k
       [] strategy = "nodeport" -> svcs[k].spec.type = "NodePort"
       [] strategy = "loadbalancer" -> svcs[k].spec.type = "LoadBalancer"
       [] strategy = "ambassador" -> svcs[k].spec.mapped
  /\ svcs[k].url = ReachedAt(k)

(* A user's route of the service's name leads elsewhere.  Add keeps that    *)
(* target, also when it makes the route again, and annotates its URL.       *)
LedElsewhere(k) ==
  /\ svcs[k] # Absent
  /\ strategy = "route" /\ routes[k] # Absent /\ routes[k].to = UserBackend
  /\ svcs[k].url = ReachedAt(k)

(* With a path but no host in its configuration the route strategy never    *)
(* comes to rest: OpenShift fills in the host, so that at every event the   *)
(* route is deleted and made again.                                         *)
RouteComesToRest == routeConfig.usePath => routeConfig.host # NoHost

(* A service that stays marked ends up reachable and annotated with the URL *)
(* it is reached at, for good, whatever calls failed, whether the process   *)
(* crashed between two of them, and whoever deleted its route or replaced   *)
(* its spec; or else it has the URL of a user's route.                      *)
ReachableEventually ==
  \A k \in Keys :
    RouteComesToRest /\ <>[](Exposable(k) /\ k \notin stale) => <>[](Reachable(k) \/ LedElsewhere(k))


(* No strategy takes back the mark, the ports or the load balancer IP that  *)
(* a user wrote, nor brings back a service the user made anew, not even     *)
(* Ambassador's, which sends a whole service that may be older than the     *)
(* user's write.  The type and the external IPs the strategies do change.   *)
UserChangesKept ==
  [][\A k \in Keys :
       svcs[k] # Absent /\ edits' = edits =>
         /\ svcs'[k] # Absent
         /\ svcs'[k].uid = svcs[k].uid /\ svcs'[k].mark = svcs[k].mark
         /\ svcs'[k].spec.ports = svcs[k].spec.ports /\ svcs'[k].spec.ip = svcs[k].spec.ip]_strategyVars

(* Without RouteUsePath, Add leaves a route alone that it has not made,     *)
(* also one that a user makes while Add runs.                               *)
UserRoutesKept ==
  [][\A k \in Keys :
       /\ ~ routeConfig.usePath
       /\ routes[k] # Absent /\ routes[k].generator = "user"
       /\ pc = "add" /\ edits' = edits
       => routes'[k] = routes[k]]_strategyVars
=============================================================================
