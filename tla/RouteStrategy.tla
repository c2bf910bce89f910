--------------------------- MODULE RouteStrategy ---------------------------
(***************************************************************************)
(* RouteStrategy.Add and Remove, one action per API call.  A route has the *)
(* name of its service, so routes are indexed by service.  Unlike an       *)
(* ingress it has no owner: nobody deletes it with the service.            *)
(*                                                                         *)
(* The exposed URL is the route's host and path; TLS and the protocol that *)
(* follows from it are left out.                                           *)
(***************************************************************************)
EXTENDS EventHandlers

CONSTANTS
  DefaultHost,          \* the host OpenShift gives a route without one
  UserBackend           \* what a user's route leads to

VARIABLES
  routes,               \* the routes in the API server
  seenRoute,            \* the route Get, Create or Update returned
  routeConfig           \* Config.RouteUsePath and RouteHost, the same for a run

routeVars == <<routes, seenRoute, routeConfig>>

NoHost == ""
Path(b) == IF b THEN "/" ELSE ""
RouteHosts == {NoHost, DefaultHost, "configured", "user"}
Route == [host : RouteHosts, path : BOOLEAN, to : Keys \cup {UserBackend},
          generator : {"exposecontroller", "user"}]

RouteTypeOK ==
  /\ routes \in [Keys -> Route \cup {Absent}]
  /\ seenRoute \in Route \cup {Absent}
  /\ routeConfig \in [usePath : BOOLEAN, host : {NoHost, "configured"}]

RouteInit ==
  /\ routes = [k \in Keys |-> Absent]
  /\ seenRoute = Absent
  /\ routeConfig \in [usePath : BOOLEAN, host : {NoHost, "configured"}]

UrlOf(route) == <<route.host, Path(route.path)>>
HasUrl(route) == route.host # NoHost \/ route.path

(* Mutant: a route of another host or path is always made again.            *)
NextCallAlwaysRecreates(route) ==
  IF route = Absent THEN "create"
  ELSE IF route.path # routeConfig.usePath \/ route.host # routeConfig.host THEN "delete"
  ELSE "update"

(* What Add does with what Get returned: with RouteUsePath, a route of      *)
(* another host or path is deleted and made again, whoever wrote it; else   *)
(* only the controller's own route is updated.                              *)
NextCall(route) ==
  IF route = Absent THEN "create"
  ELSE IF routeConfig.usePath /\ (~ route.path \/ route.host # routeConfig.host) THEN "delete"
  ELSE IF route.generator = "exposecontroller" THEN "update"
  ELSE "patch"

GetRoute ==
  /\ Calling("add", "start")
  /\ \/ /\ Fault("get")
        /\ Return
        /\ UNCHANGED seenRoute
     \/ /\ seenRoute' = routes[event.key]
        /\ Continue(NextCall(routes[event.key]))
        /\ UNCHANGED faults
  /\ UNCHANGED <<informerVars, routes, routeConfig>>
  /\ StrategyFrame

DeleteOldRoute ==
  /\ Calling("add", "delete")
  /\ \/ /\ Fault("delete")
        /\ Return
        /\ UNCHANGED routes
     \/ /\ routes[event.key] = Absent         \* NotFound is an error here
        /\ Return
        /\ UNCHANGED <<routes, faults>>
     \/ /\ routes[event.key] # Absent
        /\ routes' = [routes EXCEPT ![event.key] = Absent]
        /\ Continue("create")
        /\ UNCHANGED faults
  /\ UNCHANGED <<informerVars, seenRoute, routeConfig>>
  /\ StrategyFrame

(* A new route, or the one that was deleted with its own target.            *)
RouteFrom(k, host) ==
  [host |-> host, path |-> routeConfig.usePath,
   to |-> IF seenRoute = Absent THEN k ELSE seenRoute.to,
   generator |-> "exposecontroller"]

(* OpenShift fills in the host of a route that has none, if it has a router. *)
Defaulted(host) == IF host = NoHost THEN {NoHost, DefaultHost} ELSE {host}

CreateRoute ==
  /\ Calling("add", "create")
  /\ \/ /\ Fault("write")
        /\ Return
        /\ UNCHANGED <<routes, seenRoute>>
     \/ /\ routes[event.key] # Absent         \* AlreadyExists
        /\ Return
        /\ UNCHANGED <<routes, seenRoute, faults>>
     \/ /\ routes[event.key] = Absent
        /\ \E host \in Defaulted(routeConfig.host) :
             seenRoute' = RouteFrom(event.key, host)
        /\ routes' = [routes EXCEPT ![event.key] = seenRoute']
        /\ Continue("patch")
        /\ UNCHANGED faults
  /\ UNCHANGED <<informerVars, routeConfig>>
  /\ StrategyFrame

(* Update sends the route as Get returned it: nothing changes, but a route  *)
(* that changed since answers NotFound or Conflict.                         *)
UpdateRoute ==
  /\ Calling("add", "update")
  /\ \/ /\ Fault("write")
        /\ Return
     \/ /\ routes[event.key] # seenRoute
        /\ Return
        /\ UNCHANGED faults
     \/ /\ routes[event.key] = seenRoute
        /\ Continue("patch")
        /\ UNCHANGED faults
  /\ UNCHANGED <<informerVars, routeVars>>
  /\ StrategyFrame

(* Without a host and a path there is nothing to annotate.                  *)
AnnotateWithRoute ==
  /\ Calling("add", "patch")
  /\ \/ /\ HasUrl(seenRoute)
        /\ Annotate(UrlOf(seenRoute))
     \/ /\ ~ HasUrl(seenRoute)
        /\ Return
        /\ UNCHANGED <<informerVars, faults>>
        /\ StrategyFrame
  /\ seenRoute' = Absent
  /\ UNCHANGED <<routes, routeConfig>>

RouteAdd ==
  GetRoute \/ DeleteOldRoute \/ CreateRoute \/ UpdateRoute \/ AnnotateWithRoute

(* Remove: the route of the service's name goes, whoever wrote it.          *)
DeleteRoute ==
  /\ Calling("remove", "start")
  /\ \/ /\ Fault("delete")
        /\ Return
        /\ UNCHANGED routes
     \/ /\ routes' = [routes EXCEPT ![event.key] = Absent]
        /\ IF event.new = FinalStateUnknown THEN Return ELSE Continue("patch")
        /\ UNCHANGED faults
  /\ UNCHANGED <<informerVars, seenRoute, routeConfig>>
  /\ StrategyFrame

RouteRemove == DeleteRoute \/ (RemoveAnnotation /\ UNCHANGED routeVars)

(* A user makes a route of a service's name, or deletes one.                *)
EditRoute ==
  \E k \in Keys :
    /\ Edit("route")
    /\ \/ /\ routes[k] = Absent
          /\ \E b \in BOOLEAN :
               routes' = [routes EXCEPT ![k] = [host |-> "user", path |-> b, to |-> UserBackend,
                                                generator |-> "user"]]
       \/ /\ routes[k] # Absent
          /\ routes' = [routes EXCEPT ![k] = Absent]
    /\ UNCHANGED <<informerVars, asked, seenRoute, routeConfig>>

RouteCrash == seenRoute' = Absent /\ UNCHANGED <<routes, routeConfig>>
=============================================================================
