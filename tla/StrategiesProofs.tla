-------------------------- MODULE StrategiesProofs --------------------------
(***************************************************************************)
(* Proofs about Strategies, for every set of services, specs, node ports   *)
(* and faults: the types, what users wrote is kept, and each of the four   *)
(* strategies implements the abstract specification Exposure.  Ambassador  *)
(* writes the informer's store, so that of the informer's invariant only   *)
(* CoreInv holds for all of them; with the other three no change of a      *)
(* service is lost.                                                        *)
(***************************************************************************)
EXTENDS Strategies, EventHandlersProofs

(* The calls belong to Add and Remove, and Add gets to the delete of a      *)
(* route only with RouteUsePath.                                            *)
RouteCallInv ==
  /\ pc \notin {"add", "remove"} => call = "start"
  /\ pc = "add" /\ call = "delete" => routeConfig.usePath

(* A route leads to its service or to where a user lets it lead, and so     *)
(* does the one that Add has read, which is there wherever it is used.      *)
RouteInv ==
  /\ RouteTypeOK
  /\ \A k \in Keys : routes[k] # Absent => routes[k].to \in {k, UserBackend}
  /\ pc = "add" /\ call # "start" =>
       /\ call # "create" => seenRoute # Absent
       /\ seenRoute # Absent => seenRoute.to \in {event.key, UserBackend}

StrategiesInv == HandlersInv /\ RouteCallInv /\ RouteInv /\ strategy \in StrategyNames

-----------------------------------------------------------------------------
(* The initial states.                                                      *)
LEMMA StrategiesInitInv == StrategiesInit => StrategiesInv
<1> SUFFICES ASSUME StrategiesInit PROVE StrategiesInv
  OBVIOUS
<1>1. HandlersInv
  BY HandlersInitInv DEF StrategiesInit
<1>2. RouteCallInv /\ RouteInv
  BY DEF StrategiesInit, HandlersInit, RouteInit, RouteCallInv, RouteInv, RouteTypeOK
<1> QED BY <1>1, <1>2 DEF StrategiesInv, StrategiesInit

(* The steps all strategies share.                                          *)
LEMMA SharedInv ==
  ASSUME StrategiesInv, HandlersNext, UNCHANGED routeVars, strategy' = strategy
  PROVE  StrategiesInv'
<1> USE DEF StrategiesInv
<1>1. HandlersInv' /\ UNCHANGED <<routes, seenRoute, routeConfig>>
  BY HandlersNextInv DEF routeVars
<1>2. CASE pc \in {"add", "remove"}
  BY <1>1, <1>2, HandlersNextFrame DEF RouteCallInv, RouteInv, RouteTypeOK
<1>3. CASE pc \notin {"add", "remove"}
  <2>1. call = "start"
    BY <1>3 DEF RouteCallInv
  <2>2. call' \in {call, "start"}
    BY InformerStepInv, LifeInv, UsersInv
       DEF HandlersNext, Dispatch, UpdateRelatedResources, RelatedPanics, Panic, HandlerDone
  <2> QED BY <1>1, <2>1, <2>2 DEF RouteCallInv, RouteInv, RouteTypeOK
<1> QED BY <1>2, <1>3

(* A step that ends the handler's call and leaves the routes alone.         *)
LEMMA ReturnedInv ==
  ASSUME StrategiesInv, HandlersInv', call' = "start", strategy' = strategy,
         UNCHANGED <<routes, routeConfig>>, seenRoute' \in {seenRoute, Absent}
  PROVE  StrategiesInv'
BY DEF StrategiesInv, RouteCallInv, RouteInv, RouteTypeOK

-----------------------------------------------------------------------------
(* The route strategy.                                                      *)

(* What its calls but the patches do to the handler.                        *)
LEMMA RouteCallHandlers ==
  ASSUME StrategiesInv, GetRoute \/ DeleteOldRoute \/ CreateRoute \/ UpdateRoute \/ DeleteRoute
  PROVE  HandlersInv' /\ UNCHANGED <<event, routeConfig, asked, svcs, edits>>
<1> USE DEF StrategiesInv
<1>1. /\ UNCHANGED <<informerVars, routeConfig, related, life, edits, asked>>
      /\ \/ pc' = pc
         \/ pc = "add" /\ pc' = "related"
         \/ pc = "remove" /\ pc' = "done"
      /\ call' \in {"start", "create", "update", "delete", "patch"}
  BY DEF GetRoute, DeleteOldRoute, CreateRoute, UpdateRoute, DeleteRoute, Calling, Return,
     Continue, NextCall, StrategyFrame, routeVars
<1>2. faults' \in 0 .. MaxFaults
  BY FaultBound DEF GetRoute, DeleteOldRoute, CreateRoute, UpdateRoute, DeleteRoute, HandlersInv
<1>3. UNCHANGED <<event, svcs>>
  BY <1>1 DEF informerVars, vars, loopVars, serverVars
<1>4. edits' \in 0 .. MaxEdits
  BY <1>1 DEF HandlersInv, HandlersTypeOK
<1> QED BY <1>1, <1>2, <1>3, <1>4, StrategyStepInv

(* The event of a running Add or Remove is one of a service.                *)
LEMMA RunningEvent ==
  ASSUME HandlersInv, pc \in {"add", "remove"}
  PROVE  event.key \in Keys /\ (pc = "add" => event.key \in asked /\ event.new \in ServiceObj)
BY DEF HandlersInv, EventInv, HandlerEvents, AskedInv

(* Get decides on the next call.                                            *)
LEMMA GetRouteInv ==
  ASSUME StrategiesInv, GetRoute, strategy' = strategy
  PROVE  StrategiesInv'
<1> USE DEF StrategiesInv
<1>1. HandlersInv' /\ event' = event /\ UNCHANGED <<routes, routeConfig>> /\ pc = "add"
  BY RouteCallHandlers DEF GetRoute, Calling
<1>2. event.key \in Keys
  BY <1>1, RunningEvent
<1>3. CASE Return /\ UNCHANGED seenRoute
  BY <1>1, <1>3, ReturnedInv DEF Return
<1>4. CASE seenRoute' = routes[event.key] /\ Continue(NextCall(routes[event.key]))
  <2>1. pc' = "add" /\ call' = NextCall(seenRoute')
    BY <1>1, <1>4 DEF Continue
  <2>2. call' = "delete" => routeConfig.usePath
    BY <2>1 DEF NextCall
  <2>3. call' # "create" => seenRoute' # Absent
    BY <2>1 DEF NextCall
  <2> QED BY <1>1, <1>2, <1>4, <2>1, <2>2, <2>3 DEF RouteCallInv, RouteInv, RouteTypeOK
<1> QED BY <1>3, <1>4 DEF GetRoute

(* The deletions of a route, in Add and in Remove.                          *)
LEMMA DeleteRouteInv ==
  ASSUME StrategiesInv, DeleteOldRoute \/ DeleteRoute, strategy' = strategy
  PROVE  StrategiesInv'
<1> USE DEF StrategiesInv
<1>1. HandlersInv' /\ event' = event /\ UNCHANGED <<seenRoute, routeConfig>>
  BY RouteCallHandlers DEF DeleteOldRoute, DeleteRoute
<1>2. \/ routes' = routes
      \/ routes' = [routes EXCEPT ![event.key] = Absent]
  BY DEF DeleteOldRoute, DeleteRoute
<1>3. /\ routes' \in [Keys -> Route \cup {Absent}]
      /\ \A k \in Keys : routes'[k] # Absent => routes'[k] = routes[k]
  BY <1>2 DEF RouteInv, RouteTypeOK
<1>4. \/ call' = "start"
      \/ pc = "add" /\ call = "delete" /\ pc' = pc /\ call' = "create"
      \/ pc = "remove" /\ pc' = pc
  BY DEF DeleteOldRoute, DeleteRoute, Calling, Return, Continue
<1> QED BY <1>1, <1>3, <1>4 DEF RouteCallInv, RouteInv, RouteTypeOK

(* Create answers with the route it has made.                               *)
LEMMA CreateRouteFacts ==
  ASSUME StrategiesInv, CreateRoute
  PROVE  /\ pc = "add" /\ event.key \in Keys
         /\ \/ UNCHANGED <<routes, seenRoute>> /\ Return
            \/ /\ routes[event.key] = Absent
               /\ seenRoute' \in Route /\ seenRoute'.to \in {event.key, UserBackend}
               /\ routes' = [routes EXCEPT ![event.key] = seenRoute']
               /\ Continue("patch")
<1> USE DEF StrategiesInv
<1>1. pc = "add" /\ call = "create" /\ event.key \in Keys
  BY RunningEvent DEF CreateRoute, Calling
<1>2. ASSUME NEW host \in Defaulted(routeConfig.host)
      PROVE  /\ RouteFrom(event.key, host) \in Route
             /\ RouteFrom(event.key, host).to \in {event.key, UserBackend}
  <2>1. host \in RouteHosts /\ routeConfig.usePath \in BOOLEAN
    BY DEF Defaulted, RouteHosts, RouteInv, RouteTypeOK
  <2>2. seenRoute = Absent \/ seenRoute.to \in {event.key, UserBackend}
    BY <1>1 DEF RouteInv
  <2> QED BY <1>1, <2>1, <2>2 DEF RouteFrom, Route
<1> QED BY <1>1, <1>2 DEF CreateRoute

(* Its route is the one that the patch reads.                               *)
LEMMA CreateRouteInv ==
  ASSUME StrategiesInv, CreateRoute, strategy' = strategy
  PROVE  StrategiesInv'
<1> USE DEF StrategiesInv
<1>1. HandlersInv' /\ UNCHANGED <<event, routeConfig>>
  BY RouteCallHandlers
<1>2. CASE UNCHANGED <<routes, seenRoute>> /\ Return
  BY <1>1, <1>2, ReturnedInv DEF Return
<1>3. CASE ~ (UNCHANGED <<routes, seenRoute>> /\ Return)
  <2>1. /\ pc = "add" /\ event.key \in Keys
        /\ seenRoute' \in Route /\ seenRoute'.to \in {event.key, UserBackend}
        /\ routes' = [routes EXCEPT ![event.key] = seenRoute']
        /\ pc' = "add" /\ call' = "patch"
    BY <1>3, CreateRouteFacts DEF Continue
  <2>2. seenRoute' # Absent
    BY <2>1, RoutesAssumption
  <2> QED BY <1>1, <2>1, <2>2 DEF RouteCallInv, RouteInv, RouteTypeOK
<1> QED BY <1>2, <1>3

(* Update sends what Get returned.                                          *)
LEMMA UpdateRouteInv ==
  ASSUME StrategiesInv, UpdateRoute, strategy' = strategy
  PROVE  StrategiesInv'
<1> USE DEF StrategiesInv
<1>1. HandlersInv' /\ UNCHANGED <<event, routes, seenRoute, routeConfig>>
  BY RouteCallHandlers DEF UpdateRoute, routeVars
<1>2. call' = "start" \/ (call = "update" /\ pc = "add" /\ pc' = "add" /\ call' = "patch")
  BY DEF UpdateRoute, Calling, Return, Continue
<1> QED BY <1>1, <1>2 DEF RouteCallInv, RouteInv, RouteTypeOK

(* The patches of the annotation.                                           *)
LEMMA AnnotateWithRouteInv ==
  ASSUME StrategiesInv, AnnotateWithRoute, strategy' = strategy
  PROVE  StrategiesInv'
<1> USE DEF StrategiesInv
<1>1. pc = "add" /\ call = "patch" /\ call' = "start"
      /\ Return /\ StrategyFrame /\ UNCHANGED <<routes, routeConfig>> /\ seenRoute' = Absent
  BY DEF AnnotateWithRoute, Annotate, Calling, Return, StrategyFrame
<1>2. UrlOf(seenRoute) \in Urls
  BY <1>1, UrlsAssumption DEF RouteInv, RouteTypeOK, Urls
<1>3. HandlersInv'
  <2>1. CASE Annotate(UrlOf(seenRoute))
    BY <1>1, <1>2, <2>1, PatchInv DEF Annotate
  <2>2. CASE UNCHANGED <<informerVars, faults>>
    BY <1>1, <2>2, StrategyReturnInv DEF HandlersInv, HandlersTypeOK
  <2> QED BY <2>1, <2>2 DEF AnnotateWithRoute
<1> QED BY <1>1, <1>3, ReturnedInv

(* Remove ends with the patch that takes the annotation away.               *)
LEMMA RemoveAnnotationInv ==
  ASSUME StrategiesInv, RemoveAnnotation, UNCHANGED routeVars, strategy' = strategy
  PROVE  StrategiesInv'
<1>1. HandlersInv' /\ call' = "start"
  BY PatchInv DEF StrategiesInv, RemoveAnnotation, Calling, StrategyFrame, Return, Urls
<1> QED BY <1>1, ReturnedInv DEF routeVars

-----------------------------------------------------------------------------
(* The strategies that write the service.                                   *)

(* What no write of theirs touches.                                         *)
SameForUsers(n, svc) ==
  /\ n.uid = svc.uid /\ n.mark = svc.mark
  /\ n.spec.ports = svc.spec.ports /\ n.spec.ip = svc.spec.ip

(* The fields of a service.                                                 *)
LEMMA SpecFacts ==
  ASSUME NEW svc \in ServiceObj
  PROVE  /\ svc.uid \in 0 .. MaxEdits /\ svc.mark \in Marks /\ svc.url \in Urls
         /\ svc.spec \in ServiceSpec
BY SpecsAssumption DEF ServiceObj

(* The two clones that Add patches the service to.                          *)
LEMMA CloneFacts ==
  ASSUME NEW svc \in ServiceObj
  PROVE  /\ NodePortClone(svc) \in ServiceObj
         /\ LoadBalancerClone(svc) \in ServiceObj
         /\ NodePortClone(svc).spec.type # "ClusterIP"
         /\ LoadBalancerClone(svc).spec.type # "ClusterIP"
<1>1. /\ svc.spec.nodePort \in NodePorts \cup {NoPort} /\ svc.spec.ip \in {NoIP, "ip"}
  BY SpecFacts DEF ServiceSpec
<1>2. (IF svc.spec.nodePort = NoPort THEN svc.url ELSE NodeUrl(svc.spec.nodePort)) \in Urls
  BY <1>1, SpecFacts, UrlsAssumption DEF Urls
<1>3. (IF svc.spec.ip = NoIP THEN svc.url ELSE BalancerUrl(svc.spec.ip)) \in Urls
  BY <1>1, SpecFacts, UrlsAssumption DEF Urls
<1>4. NodePortClone(svc) \in ServiceObj
  BY <1>2, SpecFacts, SpecsAssumption DEF NodePortClone, ServiceObj, ServiceSpec
<1>5. LoadBalancerClone(svc) \in ServiceObj
  BY <1>3, SpecFacts, SpecsAssumption DEF LoadBalancerClone, ServiceObj, ServiceSpec
<1>6. /\ NodePortClone(svc).spec.type # "ClusterIP"
      /\ LoadBalancerClone(svc).spec.type # "ClusterIP"
  <2>1. /\ NodePortClone(svc).spec = [svc.spec EXCEPT !.type = "NodePort", !.externalIPs = FALSE]
        /\ LoadBalancerClone(svc).spec = [svc.spec EXCEPT !.type = "LoadBalancer"]
    BY DEF NodePortClone, LoadBalancerClone, ServiceObj
  <2>2. svc.spec \in ServiceSpec
    BY SpecFacts
  <2> QED BY <2>1, <2>2 DEF ServiceSpec
<1> QED BY <1>4, <1>5, <1>6

(* The server merges the type, the external IPs and the annotation.         *)
LEMMA MergedFacts ==
  ASSUME NEW svc \in ServiceObj, NEW from \in ServiceObj, NEW to \in ServiceObj
  PROVE  /\ Merged(svc, from, to) \in ServiceObj
         /\ SameForUsers(Merged(svc, from, to), svc)
         /\ Merged(svc, from, to).spec.mapped = svc.spec.mapped
         /\ Merged(svc, from, to).spec.type \in {svc.spec.type, to.spec.type}
BY SpecFacts, SpecsAssumption DEF Merged, SameForUsers, ServiceObj, ServiceSpec

(* It gives or takes a node port.                                           *)
LEMMA AllocatedFacts ==
  ASSUME NEW svc \in ServiceObj, NEW n \in Allocated(svc)
  PROVE  /\ n \in ServiceObj /\ SameForUsers(n, svc)
         /\ n.spec.mapped = svc.spec.mapped /\ n.spec.type = svc.spec.type
<1>1. ASSUME NEW p \in NodePorts \cup {NoPort}, n = [svc EXCEPT !.spec.nodePort = p]
      PROVE  /\ n \in ServiceObj /\ SameForUsers(n, svc)
             /\ n.spec.mapped = svc.spec.mapped /\ n.spec.type = svc.spec.type
  BY <1>1, SpecFacts, SpecsAssumption DEF SameForUsers, ServiceObj, ServiceSpec
<1>2. n = svc \/ \E p \in NodePorts \cup {NoPort} : n = [svc EXCEPT !.spec.nodePort = p]
  BY DEF Allocated
<1> QED BY <1>1, <1>2 DEF SameForUsers

(* A service that its type or its mapping opens.                            *)
Open(svc) == svc.spec.mapped \/ svc.spec.type # "ClusterIP"

(* What a patch does: nothing, or one write of the event's service.         *)
LEMMA PatchToFacts ==
  ASSUME HandlersInv, pc = "add", NEW clone \in ServiceObj, PatchTo(clone)
  PROVE  /\ faults' \in 0 .. MaxFaults
         /\ \/ UNCHANGED informerVars
            \/ /\ svcs[event.key] \in ServiceObj
               /\ \E n \in ServiceObj :
                    /\ ServerWrite(event.key, n)
                    /\ SameForUsers(n, svcs[event.key])
                    /\ n.spec.mapped = svcs[event.key].spec.mapped
                    /\ n.spec.type \in {svcs[event.key].spec.type, clone.spec.type}
<1> DEFINE k == event.key
           svc == svcs[k]
           m == Merged(svc, event.new, clone)
<1>1. faults' \in 0 .. MaxFaults
  BY FaultBound DEF PatchTo, HandlersInv
<1>2. k \in Keys /\ event.new \in ServiceObj
  BY RunningEvent
<1>3. CASE ~ UNCHANGED informerVars
  <2>1. svc # Absent /\ \E n \in Allocated(m) : ServerAccepts(k, n)
    BY <1>3 DEF PatchTo
  <2>2. svc \in ServiceObj
    BY <1>2, <2>1, ServiceFacts DEF HandlersInv, CoreInv, TypeOK, MaybeObj
  <2>3. PICK n \in Allocated(m) : ServerAccepts(k, n)
    BY <2>1
  <2>4. ServerWrite(k, n)
    BY <1>3, <2>3 DEF ServerAccepts
  <2> HIDE DEF svc
  <2>5. /\ m \in ServiceObj /\ SameForUsers(m, svc) /\ m.spec.mapped = svc.spec.mapped
        /\ m.spec.type \in {svc.spec.type, clone.spec.type}
    BY <1>2, <2>2, MergedFacts
  <2> HIDE DEF m
  <2>6. n \in ServiceObj /\ SameForUsers(n, m)
        /\ n.spec.mapped = m.spec.mapped /\ n.spec.type = m.spec.type
    BY <2>5, AllocatedFacts
  <2>7. SameForUsers(n, svc)
    BY <2>5, <2>6 DEF SameForUsers
  <2> QED BY <1>1, <2>2, <2>4, <2>5, <2>6, <2>7 DEF svc
<1> QED BY <1>1, <1>3

(* A step writes at most the event's service, and nothing of it that users  *)
(* write; Add closes none that is open, and Remove opens none.              *)
Writes(mayOpen, mayClose) ==
  \/ svcs' = svcs
  \/ /\ svcs[event.key] \in ServiceObj
     /\ \E n \in ServiceObj :
          /\ svcs' = [svcs EXCEPT ![event.key] = n]
          /\ SameForUsers(n, svcs[event.key])
          /\ Open(svcs[event.key]) /\ ~ Open(n) => mayClose
          /\ ~ Open(svcs[event.key]) /\ Open(n) => mayOpen

(* Add of NodePort and LoadBalancer.                                        *)
LEMMA PatchAddInv ==
  ASSUME StrategiesInv, NodePortAdd \/ LoadBalancerAdd, UNCHANGED routeVars,
         strategy' = strategy
  PROVE  /\ StrategiesInv' /\ InformerAction
         /\ UNCHANGED <<asked, edits>> /\ pc = "add" /\ Writes(TRUE, FALSE)
<1> USE DEF StrategiesInv
<1>1. pc = "add" /\ Return /\ StrategyFrame /\ call' = "start"
  BY DEF NodePortAdd, LoadBalancerAdd, Calling, Return
<1>2. event.key \in Keys /\ event.new \in ServiceObj
  BY <1>1, RunningEvent
<1>3. UNCHANGED <<asked, edits>>
  BY <1>1 DEF StrategyFrame
<1>4. CASE UNCHANGED informerVars /\ faults' \in 0 .. MaxFaults
  <2>1. HandlersInv'
    BY <1>1, <1>4, StrategyReturnInv
  <2>2. StrategiesInv'
    BY <1>1, <2>1, ReturnedInv DEF routeVars
  <2>3. InformerAction
    BY <1>4 DEF InformerAction, informerVars
  <2>4. svcs' = svcs
    BY <1>4 DEF informerVars, vars, serverVars
  <2> QED BY <1>1, <1>3, <2>2, <2>3, <2>4 DEF Writes
<1>5. ASSUME NEW clone \in ServiceObj, clone.spec.type # "ClusterIP", PatchTo(clone),
             ~ UNCHANGED informerVars
      PROVE  /\ StrategiesInv' /\ InformerAction
             /\ UNCHANGED <<asked, edits>> /\ pc = "add" /\ Writes(TRUE, FALSE)
  <2>1. PICK n \in ServiceObj :
          /\ svcs[event.key] \in ServiceObj /\ faults' \in 0 .. MaxFaults
          /\ ServerWrite(event.key, n) /\ SameForUsers(n, svcs[event.key])
          /\ n.spec.mapped = svcs[event.key].spec.mapped
          /\ n.spec.type \in {svcs[event.key].spec.type, clone.spec.type}
    BY <1>1, <1>5, PatchToFacts
  <2>2. HandlersInv'
    BY <1>1, <2>1, StrategyWriteInv DEF SameForUsers
  <2>3. StrategiesInv'
    BY <1>1, <2>2, ReturnedInv DEF routeVars
  <2>4. InformerAction
    BY <1>2, <2>1, ServiceFacts DEF InformerAction
  <2>5. Writes(TRUE, FALSE)
    BY <1>5, <2>1 DEF Writes, Open, ServerWrite
  <2> QED BY <1>1, <1>3, <2>3, <2>4, <2>5
<1>6. CASE NodePortAdd
  <2>1. NodePortClone(event.new) \in ServiceObj
        /\ NodePortClone(event.new).spec.type # "ClusterIP"
    BY <1>2, CloneFacts
  <2>2. \/ UNCHANGED informerVars /\ faults' \in 0 .. MaxFaults
        \/ PatchTo(NodePortClone(event.new)) /\ ~ UNCHANGED informerVars
    BY <1>1, <1>6, <2>1, PatchToFacts DEF NodePortAdd, HandlersInv, HandlersTypeOK
  <2> QED BY <1>4, <1>5, <2>1, <2>2
<1>7. CASE LoadBalancerAdd
  <2>1. LoadBalancerClone(event.new) \in ServiceObj
        /\ LoadBalancerClone(event.new).spec.type # "ClusterIP"
    BY <1>2, CloneFacts
  <2>2. \/ UNCHANGED informerVars /\ faults' \in 0 .. MaxFaults
        \/ PatchTo(LoadBalancerClone(event.new)) /\ ~ UNCHANGED informerVars
    BY <1>1, <1>7, <2>1, PatchToFacts DEF LoadBalancerAdd
  <2> QED BY <1>4, <1>5, <2>1, <2>2
<1> QED BY <1>6, <1>7

(* A patch of the annotation changes nothing else.                          *)
LEMMA PatchWrites ==
  ASSUME HandlersInv, NEW url \in Urls, pc \in {"add", "remove"}, Patch(url)
  PROVE  Writes(FALSE, FALSE)
<1>1. event.key \in Keys
  BY RunningEvent
<1>2. CASE PatchChanges(event.key, url) /\
           ServerWrite(event.key, [svcs[event.key] EXCEPT !.url = url])
  <2>1. svcs[event.key] \in ServiceObj
    BY <1>1, <1>2, ServiceFacts DEF PatchChanges, HandlersInv, CoreInv, TypeOK, MaybeObj
  <2> DEFINE n == [svcs[event.key] EXCEPT !.url = url]
  <2>2. /\ n \in ServiceObj /\ n.spec = svcs[event.key].spec
        /\ n.uid = svcs[event.key].uid /\ n.mark = svcs[event.key].mark
    BY <2>1, ServiceFacts DEF ServiceObj
  <2>3. svcs' = [svcs EXCEPT ![event.key] = n]
    BY <1>2 DEF ServerWrite
  <2> HIDE DEF n
  <2>4. SameForUsers(n, svcs[event.key]) /\ (Open(n) <=> Open(svcs[event.key]))
    BY <2>2 DEF SameForUsers, Open
  <2> QED BY <2>1, <2>2, <2>3, <2>4 DEF Writes
<1>3. CASE UNCHANGED informerVars
  BY <1>3 DEF Writes, informerVars, vars, serverVars
<1> QED BY <1>2, <1>3 DEF Patch

(* Remove of NodePort and LoadBalancer.                                     *)
LEMMA PatchRemoveInv ==
  ASSUME StrategiesInv, NodePortRemove, UNCHANGED routeVars, strategy' = strategy
  PROVE  /\ StrategiesInv' /\ InformerAction
         /\ UNCHANGED <<asked, edits>> /\ pc = "remove" /\ Writes(FALSE, FALSE)
<1> USE DEF StrategiesInv
<1>1. CASE RemoveAnnotation
  BY <1>1, RemoveAnnotationInv, PatchInforms, PatchWrites DEF RemoveAnnotation, Calling, Urls
<1>2. CASE ~ RemoveAnnotation
  <2>1. /\ pc = "remove" /\ call = "start" /\ StrategyFrame
        /\ UNCHANGED <<informerVars, faults>> /\ (Return \/ Continue("patch"))
    BY <1>2 DEF NodePortRemove, Calling
  <2>2. /\ faults' \in 0 .. MaxFaults /\ edits' \in 0 .. MaxEdits
        /\ UNCHANGED <<related, life, asked, edits>>
    BY <2>1 DEF HandlersInv, HandlersTypeOK, StrategyFrame
  <2>3. \/ pc' = "done" /\ call' = "start"
        \/ pc' = pc /\ call' = "patch"
    BY <2>1 DEF Return, Continue
  <2>4. HandlersInv'
    BY <2>1, <2>2, <2>3, StrategyStepInv
  <2>5. RouteCallInv' /\ RouteInv'
    BY <2>1, <2>3 DEF RouteCallInv, RouteInv, RouteTypeOK, routeVars
  <2>6. InformerAction /\ Writes(FALSE, FALSE)
    BY <2>1 DEF InformerAction, Writes, informerVars, vars, serverVars
  <2> QED BY <2>1, <2>2, <2>4, <2>5, <2>6
<1> QED BY <1>1, <1>2

-----------------------------------------------------------------------------
(* The Ambassador strategy.                                                 *)

(* The copies that an update of the store and of the server leaves.         *)
LEMMA UpdateCopies ==
  ASSUME HandlersInv, pc \in {"add", "remove"}, NEW svc \in ServiceObj, UpdateService(svc),
         NEW k \in Keys, NEW o \in Obj, HoldsCopy(k, o)'
  PROVE  HoldsCopy(k, o) \/ (k = event.key /\ o = svc)
<1>1. /\ event.key \in Keys
      /\ known \in [Keys -> MaybeObj] /\ svcs \in [Keys -> MaybeObj]
      /\ watchBuf \in Seq(WatchEvents)
  BY RunningEvent DEF HandlersInv, CoreInv, TypeOK
<1>2. /\ UNCHANGED <<listed, items, popKey, popDeltas>>
      /\ known' = [known EXCEPT ![event.key] = svc]
      /\ svcs' = svcs \/ svcs' = [svcs EXCEPT ![event.key] = svc]
      /\ \/ watchBuf' = watchBuf
         \/ watchBuf' = Append(watchBuf, [key |-> event.key, obj |-> svc])
  BY DEF UpdateService, fifoVars
<1>3. CASE \E i \in 1 .. Len(watchBuf') : watchBuf'[i].key = k /\ watchBuf'[i].obj = o
  <2>1. PICK i \in 1 .. Len(watchBuf') : watchBuf'[i].key = k /\ watchBuf'[i].obj = o
    BY <1>3
  <2>2. CASE watchBuf' = watchBuf
    BY <2>1, <2>2 DEF HoldsCopy
  <2>3. CASE watchBuf' = Append(watchBuf, [key |-> event.key, obj |-> svc])
    <3> DEFINE e == [key |-> event.key, obj |-> svc]
    <3>1. e \in WatchEvents
      BY <1>1, ServiceFacts DEF WatchEvents
    <3> HIDE DEF e
    <3>2. /\ Len(watchBuf') = Len(watchBuf) + 1 /\ Len(watchBuf) \in Nat
          /\ \A j \in 1 .. Len(watchBuf) : watchBuf'[j] = watchBuf[j]
          /\ watchBuf'[Len(watchBuf) + 1] = e
      BY <1>1, <2>3, <3>1, AppendProperties, LenProperties DEF e
    <3>3. i \in 1 .. Len(watchBuf) \/ i = Len(watchBuf) + 1
      BY <2>1, <3>2
    <3>4. i = Len(watchBuf) + 1 => k = event.key /\ o = svc
      BY <2>1, <3>2 DEF e
    <3>5. i \in 1 .. Len(watchBuf) => HoldsCopy(k, o)
      BY <2>1, <3>2 DEF HoldsCopy
    <3> QED BY <3>3, <3>4, <3>5
  <2> QED BY <1>2, <2>2, <2>3
<1>4. CASE ~ \E i \in 1 .. Len(watchBuf') : watchBuf'[i].key = k /\ watchBuf'[i].obj = o
  <2>1. \/ svcs'[k] = o \/ listed[k] = o \/ known'[k] = o
        \/ Has(items[k], o)
        \/ popKey = k /\ Has(popDeltas, o)
    <3>1. Has(items[k], o)' <=> Has(items[k], o)
      BY <1>2 DEF Has
    <3>2. Has(popDeltas, o)' <=> Has(popDeltas, o)
      BY <1>2 DEF Has
    <3> QED BY <1>2, <1>4, <3>1, <3>2 DEF HoldsCopy
  <2> QED BY <1>1, <1>2, <2>1 DEF HoldsCopy
<1> QED BY <1>3, <1>4

(* An update keeps what holds whoever writes the store.                     *)
LEMMA UpdateCore ==
  ASSUME HandlersInv, pc \in {"add", "remove"}, NEW svc \in ServiceObj, UpdateService(svc)
  PROVE  CoreInv' /\ event' = event
<1>1. event.key \in Keys /\ svc \in MaybeObj
  BY RunningEvent, ServiceFacts
<1>2. /\ UNCHANGED <<rpc, listed, items, queue, populated, initialPopulationCount, popKey,
                     popDeltas, event, unhandled, stale>>
      /\ known' = [known EXCEPT ![event.key] = svc]
      /\ svcs' = svcs \/ svcs' = [svcs EXCEPT ![event.key] = svc]
      /\ \/ watchBuf' = watchBuf
         \/ watchBuf' = Append(watchBuf, [key |-> event.key, obj |-> svc])
  BY DEF UpdateService, fifoVars, historyVars
<1>3. [key |-> event.key, obj |-> svc] \in WatchEvents
  BY <1>1 DEF WatchEvents
<1>4. watchBuf' \in Seq(WatchEvents)
  <2>1. watchBuf \in Seq(WatchEvents)
    BY DEF HandlersInv, CoreInv, TypeOK
  <2>2. Append(watchBuf, [key |-> event.key, obj |-> svc]) \in Seq(WatchEvents)
    BY <1>3, <2>1, AppendProperties
  <2> QED BY <1>2, <2>1, <2>2
<1>5. TypeOK'
  BY <1>1, <1>2, <1>4 DEF HandlersInv, CoreInv, TypeOK
<1>6. (LockInv /\ QueueItemsAgree /\ CountInv)'
  BY <1>2 DEF HandlersInv, CoreInv, LockInv, QueueItemsAgree, CountInv
<1> QED BY <1>2, <1>5, <1>6 DEF CoreInv

(* The strategy's own mapping apart, an update that the server takes is of  *)
(* what it has: users' writes survive a copy that is older.                 *)
LEMMA UpdateWrites ==
  ASSUME HandlersInv, pc \in {"add", "remove"}, NEW svc \in ServiceObj, UpdateService(svc)
  PROVE  /\ svc.spec.mapped => Writes(TRUE, FALSE)
         /\ ~ svc.spec.mapped => Writes(FALSE, TRUE)
<1>1. event.key \in Keys
  BY RunningEvent
<1>2. CASE svcs' = svcs
  BY <1>2 DEF Writes
<1>3. CASE IsCurrent(event.key, svc) /\ svcs' = [svcs EXCEPT ![event.key] = svc]
  <2>1. svcs[event.key] \in ServiceObj
    BY <1>1, <1>3, ServiceFacts DEF IsCurrent, HandlersInv, CoreInv, TypeOK, MaybeObj
  <2> DEFINE old == svcs[event.key]
  <2>2. Unmapped(old) = Unmapped(svc)
    BY <1>3 DEF IsCurrent
  <2> HIDE DEF old
  <2>3. /\ old.spec \in ServiceSpec /\ svc.spec \in ServiceSpec /\ old \in ServiceObj
    BY <2>1, SpecFacts DEF old
  <2>4. /\ old.uid = svc.uid /\ old.mark = svc.mark
        /\ [old.spec EXCEPT !.mapped = FALSE] = [svc.spec EXCEPT !.mapped = FALSE]
    BY <2>2, <2>3 DEF Unmapped, ServiceObj
  <2>5. /\ old.spec.ports = svc.spec.ports /\ old.spec.ip = svc.spec.ip
        /\ old.spec.type = svc.spec.type
    BY <2>3, <2>4 DEF ServiceSpec
  <2>6. SameForUsers(svc, old)
    BY <2>4, <2>5 DEF SameForUsers
  <2>7. /\ svc.spec.mapped => Open(svc)
        /\ ~ svc.spec.mapped /\ Open(svc) => Open(old)
    BY <2>5 DEF Open
  <2> QED BY <1>3, <2>1, <2>6, <2>7 DEF Writes, old
<1> QED BY <1>2, <1>3 DEF UpdateService

(* The copy that an update brings into the store is of a service that has   *)
(* asked, or that asks for nothing.                                         *)
LEMMA UpdateInv ==
  ASSUME HandlersInv, pc \in {"add", "remove"}, NEW svc \in ServiceObj, UpdateService(svc),
         Asks(event.key, svc) => event.key \in asked, Return, StrategyFrame
  PROVE  HandlersInv' /\ event' = event
<1> USE DEF HandlersInv
<1>1. CoreInv' /\ event' = event
  BY UpdateCore
<1>2. /\ UNCHANGED <<related, life, edits, asked>> /\ call' = "start"
      /\ pc = "add" => pc' = "related"
      /\ pc # "add" => pc' = "done"
  BY DEF StrategyFrame, Return
<1>3. faults' \in 0 .. MaxFaults
  BY FaultBound DEF UpdateService
<1>4. HandlersTypeOK'
  BY <1>1, <1>2, <1>3 DEF HandlersTypeOK, CoreInv
<1>5. EventInv'
  BY <1>1, <1>2 DEF EventInv
<1>6. ASSUME NEW k \in Keys, NEW o \in Obj, HoldsCopy(k, o)', Asks(k, o)
      PROVE  k \in asked'
  <2>1. HoldsCopy(k, o) \/ (k = event.key /\ o = svc)
    BY <1>6, UpdateCopies
  <2> QED BY <1>2, <1>6, <2>1 DEF AskedInv
<1>7. \A k, o : Asks(k, o)' <=> Asks(k, o)
  BY DEF Asks, Marked
<1>8. AskedInv'
  BY <1>1, <1>2, <1>6, <1>7 DEF AskedInv
<1> QED BY <1>1, <1>4, <1>5, <1>8

(* Add of Ambassador, which may panic.                                      *)
LEMMA AmbassadorAddInv ==
  ASSUME StrategiesInv, AmbassadorAdd, UNCHANGED routeVars, strategy' = strategy
  PROVE  /\ StrategiesInv' /\ UNCHANGED <<asked, edits>> /\ pc = "add"
         /\ Writes(TRUE, FALSE)
<1> USE DEF StrategiesInv
<1>1. pc = "add" /\ StrategyFrame /\ UNCHANGED <<related, life, edits, asked>> /\ call' = "start"
  BY DEF AmbassadorAdd, Calling, StrategyFrame, Panic, Return
<1>2. /\ event.key \in Keys /\ event.key \in asked /\ event.new \in ServiceObj
  BY <1>1, RunningEvent
<1>3. CASE Panic /\ UNCHANGED faults
  <2>1. HandlersInv'
    BY <1>1, <1>3, EndInv DEF Panic, boundVars
  <2>2. svcs' = svcs
    BY <1>3 DEF Panic, HandlerPanic, serverVars
  <2> QED BY <1>1, <2>1, <2>2, ReturnedInv DEF Writes, routeVars
<1>4. CASE UpdateService([event.new EXCEPT !.spec.mapped = TRUE]) /\ Return
  <2> DEFINE svc == [event.new EXCEPT !.spec.mapped = TRUE]
  <2>1. svc \in ServiceObj /\ svc.spec.mapped
    <3>1. event.new.spec \in ServiceSpec /\ Specs = ServiceSpec
      BY <1>2, SpecFacts, SpecsAssumption
    <3>2. svc = [event.new EXCEPT !.spec = [event.new.spec EXCEPT !.mapped = TRUE]]
      OBVIOUS
    <3>3. /\ [event.new.spec EXCEPT !.mapped = TRUE] \in ServiceSpec
          /\ [event.new.spec EXCEPT !.mapped = TRUE].mapped
      BY <3>1 DEF ServiceSpec
    <3> QED BY <1>2, <3>1, <3>2, <3>3 DEF ServiceObj
  <2> HIDE DEF svc
  <2>2. UpdateService(svc)
    BY <1>4 DEF svc
  <2>3. HandlersInv'
    BY <1>1, <1>2, <1>4, <2>1, <2>2, UpdateInv
  <2>4. Writes(TRUE, FALSE)
    BY <1>1, <2>1, <2>2, UpdateWrites
  <2> QED BY <1>1, <2>3, <2>4, ReturnedInv DEF routeVars
<1> QED BY <1>3, <1>4 DEF AmbassadorAdd

(* Remove of Ambassador.                                                    *)
LEMMA AmbassadorRemoveInv ==
  ASSUME StrategiesInv, AmbassadorRemove, UNCHANGED routeVars, strategy' = strategy
  PROVE  /\ StrategiesInv' /\ UNCHANGED <<asked, edits>> /\ pc = "remove"
         /\ Writes(FALSE, TRUE)
<1> USE DEF StrategiesInv
<1>1. /\ pc = "remove" /\ StrategyFrame /\ UNCHANGED <<related, life, edits, asked>>
      /\ Return /\ call' = "start"
  BY DEF AmbassadorRemove, Calling, StrategyFrame, Return
<1>2. event.key \in Keys
  BY <1>1, RunningEvent
<1>3. CASE UNCHANGED <<informerVars, faults>>
  <2>1. HandlersInv'
    BY <1>1, <1>3, StrategyReturnInv DEF HandlersInv, HandlersTypeOK
  <2>2. svcs' = svcs
    BY <1>3 DEF informerVars, vars, serverVars
  <2> QED BY <1>1, <2>1, <2>2, ReturnedInv DEF Writes, routeVars
<1>4. CASE event.new # FinalStateUnknown /\ UpdateService(Unmapped(event.new))
  <2>1. event.new \in ServiceObj /\ event.new.mark = "none"
    BY <1>1, <1>4 DEF HandlersInv, EventInv
  <2> DEFINE svc == Unmapped(event.new)
  <2>2. svc \in ServiceObj /\ ~ svc.spec.mapped /\ svc.mark = "none"
    <3>1. event.new.spec \in ServiceSpec /\ Specs = ServiceSpec
      BY <2>1, SpecFacts, SpecsAssumption
    <3>2. svc = [event.new EXCEPT !.spec = [event.new.spec EXCEPT !.mapped = FALSE]]
      BY DEF Unmapped
    <3>3. /\ [event.new.spec EXCEPT !.mapped = FALSE] \in ServiceSpec
          /\ ~ [event.new.spec EXCEPT !.mapped = FALSE].mapped
      BY <3>1 DEF ServiceSpec
    <3> QED BY <2>1, <3>1, <3>2, <3>3 DEF ServiceObj
  <2>3. UpdateService(svc)
    BY <1>4
  <2> HIDE DEF svc
  <2>4. ~ Asks(event.key, svc)
    BY <2>2 DEF Asks, Marked
  <2>5. HandlersInv'
    BY <1>1, <2>2, <2>3, <2>4, UpdateInv
  <2>6. Writes(FALSE, TRUE)
    BY <1>1, <2>2, <2>3, UpdateWrites
  <2> QED BY <1>1, <2>5, <2>6, ReturnedInv DEF routeVars
<1> QED BY <1>3, <1>4 DEF AmbassadorRemove

-----------------------------------------------------------------------------
(* All steps together.                                                      *)

(* A user replaces the spec of a service: the mark stays.                   *)
LEMMA EditSpecFacts ==
  ASSUME HandlersInv, EditSpec
  PROVE  /\ HandlersInv' /\ event' = event /\ UNCHANGED <<pc, call, asked>> /\ edits' = edits + 1
         /\ \E k \in Keys, s \in UserSpecs :
              /\ svcs[k] \in ServiceObj
              /\ [svcs[k] EXCEPT !.spec = s] \in ServiceObj
              /\ ServerWrite(k, [svcs[k] EXCEPT !.spec = s])
<1>1. PICK k \in Keys, s \in UserSpecs :
        svcs[k] # Absent /\ UserWrites("spec", k, [svcs[k] EXCEPT !.spec = s])
  BY DEF EditSpec
<1> DEFINE n == [svcs[k] EXCEPT !.spec = s]
<1>2. svcs[k] \in ServiceObj
  BY <1>1, ServiceFacts DEF HandlersInv, CoreInv, TypeOK, MaybeObj
<1>3. n \in ServiceObj /\ n.mark = svcs[k].mark
  BY <1>2, SetsAssumption DEF ServiceObj
<1> HIDE DEF n
<1>4. UserWrites("spec", k, n)
  BY <1>1 DEF n
<1>5. HandlersInv' /\ event' = event /\ UNCHANGED <<pc, call>>
  BY <1>3, <1>4, UserWritesInv, ServiceFacts
<1>6. asked' = asked
  <2>1. Asks(k, n) => Asks(k, svcs[k]) /\ HoldsCopy(k, svcs[k]) /\ svcs[k] \in Obj
    BY <1>2, <1>3, ServiceFacts DEF Asks, Marked, HoldsCopy
  <2>2. Asks(k, n) => k \in asked
    BY <2>1 DEF HandlersInv, AskedInv
  <2> QED BY <1>4, <2>2 DEF UserWrites
<1>7. ServerWrite(k, n) /\ edits' = edits + 1
  BY <1>4 DEF UserWrites, Edit
<1> QED BY <1>2, <1>3, <1>5, <1>6, <1>7 DEF n

(* A user's edit of a route.                                                *)
LEMMA EditRouteInv ==
  ASSUME StrategiesInv, EditRoute, strategy' = strategy
  PROVE  StrategiesInv'
<1> USE DEF StrategiesInv
<1>1. /\ UNCHANGED <<informerVars, asked, seenRoute, routeConfig, related, pc, call, life, faults>>
      /\ edits' \in 0 .. MaxEdits
  BY FaultsAssumption DEF EditRoute, Edit, processVars, HandlersInv, HandlersTypeOK
<1>2. event' = event
  BY <1>1 DEF informerVars, vars, loopVars
<1>3. HandlersInv'
  <2>1. faults' \in 0 .. MaxFaults
        /\ call' \in {"start", "write", "create", "update", "delete", "patch"}
    BY <1>1 DEF HandlersInv, HandlersTypeOK
  <2> QED BY <1>1, <2>1, StrategyStepInv
<1>4. PICK k \in Keys, route \in Route \cup {Absent} :
        /\ routes' = [routes EXCEPT ![k] = route]
        /\ route # Absent => route.to = UserBackend
  <2>1. \A b \in BOOLEAN : [host |-> "user", path |-> b, to |-> UserBackend,
                            generator |-> "user"] \in Route
    BY DEF Route, RouteHosts
  <2> QED BY <2>1 DEF EditRoute
<1>5. RouteInv'
  BY <1>1, <1>2, <1>4 DEF RouteInv, RouteTypeOK
<1> QED BY <1>1, <1>3, <1>5 DEF RouteCallInv

(* The calls of the route strategy.                                         *)
LEMMA RouteStrategyInv ==
  ASSUME StrategiesInv, RouteAdd \/ RouteRemove, strategy' = strategy
  PROVE  StrategiesInv'
BY GetRouteInv, DeleteRouteInv, CreateRouteInv, UpdateRouteInv, AnnotateWithRouteInv,
   RemoveAnnotationInv DEF RouteAdd, RouteRemove

(* Every step keeps the invariant.                                          *)
LEMMA StrategiesNextInv == StrategiesInv /\ [StrategiesNext]_strategyVars => StrategiesInv'
<1> SUFFICES ASSUME StrategiesInv, [StrategiesNext]_strategyVars PROVE StrategiesInv'
  OBVIOUS
<1>1. strategy' = strategy
  BY DEF StrategiesNext, strategyVars
<1>2. CASE HandlersNext /\ UNCHANGED routeVars
  BY <1>1, <1>2, SharedInv
<1>3. CASE AddStep
  BY <1>1, <1>3, RouteStrategyInv, PatchAddInv, AmbassadorAddInv DEF AddStep
<1>4. CASE RemoveStep
  BY <1>1, <1>4, RouteStrategyInv, PatchRemoveInv, AmbassadorRemoveInv
     DEF RemoveStep, LoadBalancerRemove
<1>5. CASE Crash /\ RouteCrash
  <2>1. HandlersInv' /\ call' = "start"
    BY <1>5, CrashInv DEF StrategiesInv, Crash
  <2> QED BY <1>1, <1>5, <2>1, ReturnedInv DEF RouteCrash
<1>6. CASE EditRoute
  BY <1>1, <1>6, EditRouteInv
<1>7. CASE EditSpec /\ UNCHANGED routeVars
  <2>1. HandlersInv' /\ event' = event /\ UNCHANGED <<pc, call>>
    BY <1>7, EditSpecFacts DEF StrategiesInv
  <2> QED BY <1>1, <1>7, <2>1
          DEF StrategiesInv, RouteCallInv, RouteInv, RouteTypeOK, routeVars
<1>8. CASE UNCHANGED strategyVars
  <2>1. /\ UNCHANGED <<informerVars, asked, related, life, pc, call, edits, faults>>
        /\ UNCHANGED <<routes, seenRoute, routeConfig>>
    BY <1>8 DEF strategyVars, handlersVars, processVars, boundVars, routeVars
  <2>2. event' = event
    BY <2>1 DEF informerVars, vars, loopVars
  <2>3. HandlersInv'
    <3>1. /\ edits' \in 0 .. MaxEdits /\ faults' \in 0 .. MaxFaults
          /\ call' \in {"start", "write", "create", "update", "delete", "patch"}
      BY <2>1 DEF StrategiesInv, HandlersInv, HandlersTypeOK
    <3> QED BY <2>1, <3>1, StrategyStepInv DEF StrategiesInv
  <2> QED BY <1>1, <2>1, <2>2, <2>3 DEF StrategiesInv, RouteCallInv, RouteInv, RouteTypeOK
<1> QED BY <1>2, <1>3, <1>4, <1>5, <1>6, <1>7, <1>8 DEF StrategiesNext

(* The inductive invariant holds throughout, with every strategy.           *)
THEOREM StrategiesInvariance == StrategiesSpec => []StrategiesInv
BY StrategiesInitInv, StrategiesNextInv, PTL DEF StrategiesSpec

(* Every variable keeps its type: the node ports, URLs and routes that the  *)
(* strategies write are of services, and Add and Remove find a service in   *)
(* the event where they read one.                                           *)
THEOREM StrategiesTypeCorrect == StrategiesSpec => []StrategiesTypeOK
<1>1. StrategiesInv => StrategiesTypeOK
  BY DEF StrategiesInv, HandlersInv, RouteInv, StrategiesTypeOK
<1> QED BY <1>1, StrategiesInvariance, PTL

-----------------------------------------------------------------------------
(* What the steps do to the services.                                       *)

(* The steps that the strategies share write none but for a user.           *)
LEMMA SharedWrites ==
  ASSUME HandlersInv, HandlersNext, ~ (CreateService \/ DeleteService \/ MarkService)
  PROVE  UNCHANGED <<svcs, asked, edits>>
BY DEF HandlersNext, ListServices, ReplaceServices, WatchServices, BreakWatch, ResyncServices,
   PopService, InformerStep, List, Replace, WatchEvent, WatchBreak, Resync, Pop, Dispatch,
   ProcessDelta, UpdateRelatedResources, RelatedPanics, Panic, HandlerPanic, HandlerDone,
   HandlerReturn, Tick, Exit, informerVars, vars, serverVars, boundVars

(* The users' operations are counted.                                       *)
LEMMA UsersCounted ==
  ASSUME HandlersInv, CreateService \/ DeleteService \/ MarkService \/ EditSpec \/ EditRoute
  PROVE  edits' # edits
<1>1. edits' = edits + 1
  BY DEF CreateService, DeleteService, MarkService, EditSpec, EditRoute, UserWrites, Edit
<1> QED BY <1>1 DEF HandlersInv, HandlersTypeOK

(* The route strategy writes a service's annotation and nothing else.       *)
LEMMA RouteWrites ==
  ASSUME StrategiesInv, RouteAdd \/ RouteRemove
  PROVE  /\ UNCHANGED <<asked, edits>> /\ InformerAction
         /\ pc \in {"add", "remove"} /\ Writes(FALSE, FALSE)
<1> USE DEF StrategiesInv
<1>1. pc \in {"add", "remove"} /\ StrategyFrame
  BY DEF RouteAdd, RouteRemove, GetRoute, DeleteOldRoute, CreateRoute, UpdateRoute,
     AnnotateWithRoute, Annotate, DeleteRoute, RemoveAnnotation, Calling, StrategyFrame
<1>2. CASE UNCHANGED informerVars
  BY <1>1, <1>2 DEF Writes, InformerAction, informerVars, vars, serverVars, StrategyFrame
<1>3. CASE ~ UNCHANGED informerVars
  <2>1. (RemoveAnnotation /\ Patch(NoUrl)) \/ (AnnotateWithRoute /\ Patch(UrlOf(seenRoute)))
    BY <1>3 DEF RouteAdd, RouteRemove, GetRoute, DeleteOldRoute, CreateRoute, UpdateRoute,
       AnnotateWithRoute, Annotate, DeleteRoute, RemoveAnnotation
  <2>2. AnnotateWithRoute => UrlOf(seenRoute) \in Urls
    BY UrlsAssumption DEF AnnotateWithRoute, Calling, RouteInv, RouteTypeOK, Urls
  <2>3. NoUrl \in Urls
    BY DEF Urls
  <2> QED BY <1>1, <2>1, <2>2, <2>3, PatchWrites, PatchInforms DEF StrategyFrame
<1> QED BY <1>2, <1>3

(* Add closes no service, and Remove opens none.                            *)
LEMMA StepWrites ==
  ASSUME StrategiesInv, strategy' = strategy, AddStep \/ RemoveStep
  PROVE  /\ UNCHANGED <<asked, edits>>
         /\ AddStep => pc = "add" /\ Writes(TRUE, FALSE)
         /\ RemoveStep => pc = "remove" /\ Writes(FALSE, TRUE)
<1>1. Writes(FALSE, FALSE) => Writes(TRUE, FALSE) /\ Writes(FALSE, TRUE)
  BY DEF Writes
<1>2. RouteAdd => pc = "add"
  BY DEF RouteAdd, GetRoute, DeleteOldRoute, CreateRoute, UpdateRoute, AnnotateWithRoute, Calling
<1>3. RouteRemove => pc = "remove"
  BY DEF RouteRemove, DeleteRoute, RemoveAnnotation, Calling
<1>4. AddStep => UNCHANGED <<asked, edits>> /\ pc = "add" /\ Writes(TRUE, FALSE)
  BY <1>1, <1>2, RouteWrites, PatchAddInv, AmbassadorAddInv DEF AddStep
<1>5. RemoveStep => UNCHANGED <<asked, edits>> /\ pc = "remove" /\ Writes(FALSE, TRUE)
  BY <1>1, <1>3, RouteWrites, PatchRemoveInv, AmbassadorRemoveInv DEF RemoveStep, LoadBalancerRemove
<1> QED BY <1>4, <1>5

(* UserChangesKept, for any services and specs: no strategy takes back what *)
(* a user wrote, not even Ambassador's, which sends a whole service.        *)
THEOREM UserChangesSafe == StrategiesSpec => UserChangesKept
<1>1. StrategiesInv /\ [StrategiesNext]_strategyVars =>
        [\A k \in Keys :
           svcs[k] # Absent /\ edits' = edits =>
             /\ svcs'[k] # Absent
             /\ svcs'[k].uid = svcs[k].uid /\ svcs'[k].mark = svcs[k].mark
             /\ svcs'[k].spec.ports = svcs[k].spec.ports /\ svcs'[k].spec.ip = svcs[k].spec.ip
        ]_strategyVars
  <2> SUFFICES ASSUME StrategiesInv, StrategiesNext, NEW k \in Keys, svcs[k] # Absent,
                      edits' = edits
               PROVE  svcs'[k] # Absent /\ SameForUsers(svcs'[k], svcs[k])
    BY DEF SameForUsers
  <2>1. CASE svcs' = svcs
    BY <2>1 DEF SameForUsers
  <2>2. CASE AddStep \/ RemoveStep
    <3>1. PICK mayOpen, mayClose \in BOOLEAN : Writes(mayOpen, mayClose)
      BY <2>2, StepWrites DEF StrategiesNext
    <3>2. svcs \in [Keys -> MaybeObj]
      BY DEF StrategiesInv, HandlersInv, CoreInv, TypeOK
    <3>3. \/ svcs' = svcs
          \/ \E n \in ServiceObj : /\ svcs' = [svcs EXCEPT ![event.key] = n]
                                   /\ SameForUsers(n, svcs[event.key])
      BY <3>1 DEF Writes
    <3> QED BY <2>1, <3>2, <3>3, ServiceFacts DEF SameForUsers
  <2>3. CASE Crash
    BY <2>1, <2>3 DEF Crash, Restart, serverVars
  <2>4. CASE HandlersNext \/ EditRoute \/ EditSpec
    BY <2>1, <2>4, SharedWrites, UsersCounted DEF StrategiesInv
  <2> QED BY <2>2, <2>3, <2>4 DEF StrategiesNext
<1> QED BY <1>1, StrategiesInvariance, PTL DEF StrategiesSpec, UserChangesKept

(* UserRoutesKept, for any set of services: without RouteUsePath, no step   *)
(* of RouteStrategy.Add touches a route that a user made, not even one made *)
(* between its Get and its Create.                                          *)
THEOREM UserRoutesSafe == StrategiesSpec => UserRoutesKept
<1>1. StrategiesInv /\ [StrategiesNext]_strategyVars =>
        [\A k \in Keys :
           /\ ~ routeConfig.usePath
           /\ routes[k] # Absent /\ routes[k].generator = "user"
           /\ pc = "add" /\ edits' = edits
           => routes'[k] = routes[k]]_strategyVars
  <2> SUFFICES ASSUME StrategiesInv, StrategiesNext, NEW k \in Keys, ~ routeConfig.usePath,
                      routes[k] # Absent, pc = "add", edits' = edits
               PROVE  routes'[k] = routes[k]
    OBVIOUS
  <2>1. CASE CreateRoute
    <3>1. \/ UNCHANGED routes
          \/ /\ routes[event.key] = Absent
             /\ routes' = [routes EXCEPT ![event.key] = seenRoute']
      BY <2>1 DEF CreateRoute
    <3> QED BY <3>1 DEF StrategiesInv, RouteInv, RouteTypeOK
  <2>2. CASE DeleteOldRoute
    BY <2>2 DEF DeleteOldRoute, Calling, StrategiesInv, RouteCallInv
  <2>3. CASE EditRoute
    BY <2>3, UsersCounted DEF StrategiesInv
  <2>4. CASE ~ (CreateRoute \/ DeleteOldRoute \/ EditRoute)
    BY <2>4 DEF StrategiesNext, AddStep, RemoveStep, RouteAdd, GetRoute, UpdateRoute,
       AnnotateWithRoute, RouteRemove, DeleteRoute, Calling, RouteCrash, routeVars
  <2> QED BY <2>1, <2>2, <2>3, <2>4
<1> QED BY <1>1, StrategiesInvariance, PTL DEF StrategiesSpec, UserRoutesKept

(* With the strategies that leave the informer's store alone, no change of  *)
(* a service is lost on its way to the handlers.                            *)
THEOREM StrategiesLoseNothing == StrategiesSpec => [](strategy # "ambassador" => NoLostUpdate)
<1> DEFINE Kept == strategy # "ambassador" => LossInv
<1>1. StrategiesInit => Kept
  <2> SUFFICES ASSUME StrategiesInit PROVE LossInv
    OBVIOUS
  <2>1. svcs \in [Keys -> MaybeObj]
    BY StrategiesInitInv DEF StrategiesInv, HandlersInv, CoreInv, TypeOK
  <2> QED BY <2>1, InitInv DEF StrategiesInit, HandlersInit, Init, IndInv
<1>2. StrategiesInv /\ Kept /\ [StrategiesNext]_strategyVars => Kept'
  <2> SUFFICES ASSUME StrategiesInv, [StrategiesNext]_strategyVars, strategy # "ambassador"
               PROVE  InformerAction
    BY InformerActionInv DEF StrategiesInv, HandlersInv, StrategiesNext, strategyVars
  <2>1. CASE HandlersNext
    BY <2>1, HandlersNextInforms DEF StrategiesInv
  <2>2. CASE (AddStep \/ RemoveStep) /\ strategy' = strategy
    BY <2>2, RouteWrites, PatchAddInv, PatchRemoveInv DEF AddStep, RemoveStep, LoadBalancerRemove
  <2>3. CASE Crash
    BY <2>3 DEF Crash, InformerAction
  <2>4. CASE EditSpec
    BY <2>4, EditSpecFacts, ServiceFacts DEF StrategiesInv, InformerAction
  <2>5. CASE EditRoute \/ UNCHANGED strategyVars
    BY <2>5 DEF EditRoute, strategyVars, handlersVars, informerVars, InformerAction
  <2> QED BY <2>1, <2>2, <2>3, <2>4, <2>5 DEF StrategiesNext
<1>3. Kept => (strategy # "ambassador" => NoLostUpdate)
  BY DEF LossInv
<1> QED BY <1>1, <1>2, <1>3, StrategiesInvariance, PTL DEF StrategiesSpec

-----------------------------------------------------------------------------
(* The refinement.                                                          *)

AbstractBackends == [k \in Keys |-> BackendsOf(k)]

(* When one place changes, the abstract backends change there.              *)
LEMMA OnePlace ==
  ASSUME NEW k \in Keys, NEW S, BackendsOf(k)' = S,
         \A m \in Keys \ {k} : BackendsOf(m)' = BackendsOf(m)
  PROVE  AbstractBackends' = [AbstractBackends EXCEPT ![k] = S]
BY DEF AbstractBackends

(* A place that is emptied: Withdraw.                                       *)
LEMMA PlaceWithdrawn ==
  ASSUME NEW k \in Keys, BackendsOf(k)' = {}, asked' = asked,
         \A m \in Keys \ {k} : BackendsOf(m)' = BackendsOf(m)
  PROVE  Abstract!Next
<1>1. AbstractBackends' = [AbstractBackends EXCEPT ![k] = {}]
  BY OnePlace
<1> QED BY <1>1 DEF Abstract!Next, Abstract!Withdraw, AbstractBackends

(* A service that has asked is opened: Expose.                              *)
LEMMA PlaceExposed ==
  ASSUME NEW k \in Keys, k \in asked, BackendsOf(k)' = BackendsOf(k) \cup {k}, asked' = asked,
         \A m \in Keys \ {k} : BackendsOf(m)' = BackendsOf(m)
  PROVE  Abstract!Next
<1>1. AbstractBackends' = [AbstractBackends EXCEPT ![k] = @ \cup {k}]
  BY OnePlace DEF AbstractBackends
<1> QED BY <1>1 DEF Abstract!Next, Abstract!Expose, AbstractBackends

(* A backend of a user's: Interfere.                                        *)
LEMMA PlaceInterfered ==
  ASSUME NEW k \in Keys, BackendsOf(k)' = BackendsOf(k) \cup {UserBackend}, asked' = asked,
         \A m \in Keys \ {k} : BackendsOf(m)' = BackendsOf(m)
  PROVE  Abstract!Next
<1>1. AbstractBackends' = [AbstractBackends EXCEPT ![k] = @ \cup {UserBackend}]
  BY OnePlace DEF AbstractBackends
<1> QED BY <1>1 DEF Abstract!Next, Abstract!Interfere, AbstractBackends

(* Without a change of a place: Ask, or nothing.                            *)
LEMMA PlacesKept ==
  ASSUME \A m \in Keys : BackendsOf(m)' = BackendsOf(m),
         asked' = asked \/ \E k \in Keys : asked' = asked \cup {k}
  PROVE  Abstract!Next \/ UNCHANGED <<asked, AbstractBackends>>
<1>1. AbstractBackends' = AbstractBackends
  BY DEF AbstractBackends
<1> QED BY <1>1 DEF Abstract!Next, Abstract!Ask, AbstractBackends

(* What a route is a place of.                                              *)
LEMMA RouteBackends ==
  ASSUME strategy = "route", NEW k \in Keys
  PROVE  /\ routes[k] = Absent => BackendsOf(k) = {}
         /\ routes[k] # Absent => BackendsOf(k) = {routes[k].to}
BY DEF BackendsOf

(* Which services are places.                                               *)
LEMMA ServiceBackends ==
  ASSUME strategy # "route", NEW k \in Keys
  PROVE  /\ svcs[k] = Absent => BackendsOf(k) = {}
         /\ svcs[k] # Absent => BackendsOf(k) = IF Open(svcs[k]) THEN {k} ELSE {}
BY DEF BackendsOf, Open

(* A place changes only with its route or its service.                      *)
LEMMA SamePlace ==
  ASSUME strategy' = strategy, NEW k \in Keys,
         \/ strategy = "route" /\ routes'[k] = routes[k]
         \/ strategy # "route" /\ svcs'[k] = svcs[k]
  PROVE  BackendsOf(k)' = BackendsOf(k)
BY DEF BackendsOf

(* A write of one route.                                                    *)
LEMMA RouteChange ==
  ASSUME StrategiesInv, strategy = "route", strategy' = strategy, asked' = asked,
         NEW k \in Keys, NEW route \in Route \cup {Absent},
         routes' = [routes EXCEPT ![k] = route],
         route = Absent \/ (routes[k] = Absent /\ route.to = UserBackend)
           \/ (routes[k] = Absent /\ route.to = k /\ k \in asked)
  PROVE  Abstract!Next
<1>1. routes'[k] = route /\ \A m \in Keys \ {k} : routes'[m] = routes[m]
  BY DEF StrategiesInv, RouteInv, RouteTypeOK
<1>2. ASSUME NEW m \in Keys \ {k} PROVE BackendsOf(m)' = BackendsOf(m)
  BY <1>1, SamePlace
<1>3. CASE route = Absent
  <2>1. BackendsOf(k)' = {}
    BY <1>1, <1>3 DEF BackendsOf
  <2> QED BY <1>2, <2>1, PlaceWithdrawn
<1>4. CASE route # Absent
  <2>1. BackendsOf(k)' = {route.to} /\ BackendsOf(k) = {}
    BY <1>1, <1>4, RouteBackends DEF BackendsOf
  <2> QED BY <1>2, <1>4, <2>1, PlaceInterfered, PlaceExposed
<1> QED BY <1>3, <1>4

(* The steps of the route strategy.                                         *)
LEMMA RouteRefines ==
  ASSUME StrategiesInv, strategy = "route", strategy' = strategy,
         RouteAdd \/ RouteRemove \/ EditRoute
  PROVE  Abstract!Next \/ UNCHANGED <<asked, AbstractBackends>>
<1> USE DEF StrategiesInv
<1>1. asked' = asked
  BY RouteWrites DEF EditRoute
<1>2. CASE routes' = routes
  <2>1. ASSUME NEW m \in Keys PROVE BackendsOf(m)' = BackendsOf(m)
    BY <1>2, SamePlace
  <2> QED BY <1>1, <2>1, PlacesKept
<1>3. CASE CreateRoute /\ routes' # routes
  <2>1. /\ pc = "add" /\ event.key \in Keys /\ routes[event.key] = Absent
        /\ seenRoute' \in Route /\ seenRoute'.to \in {event.key, UserBackend}
        /\ routes' = [routes EXCEPT ![event.key] = seenRoute']
    BY <1>3, CreateRouteFacts
  <2>2. event.key \in asked
    BY <2>1, RunningEvent
  <2> QED BY <1>1, <2>1, <2>2, RouteChange
<1>4. CASE DeleteOldRoute \/ DeleteRoute
  <2>1. pc \in {"add", "remove"}
    BY <1>4 DEF DeleteOldRoute, DeleteRoute, Calling
  <2>2. event.key \in Keys
    BY <2>1, RunningEvent
  <2>3. routes' = routes \/ routes' = [routes EXCEPT ![event.key] = Absent]
    BY <1>4 DEF DeleteOldRoute, DeleteRoute
  <2> QED BY <1>1, <1>2, <2>2, <2>3, RouteChange
<1>5. CASE EditRoute
  <2>1. \A b \in BOOLEAN : [host |-> "user", path |-> b, to |-> UserBackend,
                            generator |-> "user"] \in Route
    BY DEF Route, RouteHosts
  <2>2. PICK k \in Keys, route \in Route \cup {Absent} :
          /\ routes' = [routes EXCEPT ![k] = route]
          /\ route # Absent => routes[k] = Absent /\ route.to = UserBackend
    BY <1>5, <2>1 DEF EditRoute
  <2> QED BY <1>1, <2>2, RouteChange
<1> QED BY <1>2, <1>3, <1>4, <1>5 DEF RouteAdd, RouteRemove, GetRoute, UpdateRoute,
        AnnotateWithRoute, routeVars

(* A write of one service with the strategies that open services.           *)
LEMMA ServiceChange ==
  ASSUME StrategiesInv, strategy # "route", strategy' = strategy, asked' = asked,
         NEW k \in Keys, NEW n \in MaybeObj, svcs' = [svcs EXCEPT ![k] = n],
         \/ n # Absent /\ Open(n) /\ k \in asked
         \/ n = Absent \/ ~ Open(n)
         \/ n # Absent /\ svcs[k] # Absent /\ (Open(n) <=> Open(svcs[k]))
  PROVE  Abstract!Next \/ UNCHANGED <<asked, AbstractBackends>>
<1>1. svcs'[k] = n /\ \A m \in Keys \ {k} : svcs'[m] = svcs[m]
  BY DEF StrategiesInv, HandlersInv, CoreInv, TypeOK
<1>2. ASSUME NEW m \in Keys \ {k} PROVE BackendsOf(m)' = BackendsOf(m)
  BY <1>1, SamePlace
<1>3. CASE n = Absent \/ ~ Open(n)
  <2>1. BackendsOf(k)' = {}
    BY <1>1, <1>3 DEF BackendsOf, Open
  <2> QED BY <1>2, <2>1, PlaceWithdrawn
<1>4. CASE n # Absent /\ Open(n) /\ k \in asked
  <2>1. BackendsOf(k)' = {k} /\ BackendsOf(k) \subseteq {k}
    BY <1>1, <1>4, ServiceBackends DEF BackendsOf, Open
  <2>2. BackendsOf(k)' = BackendsOf(k) \cup {k}
    BY <2>1
  <2> QED BY <1>2, <1>4, <2>2, PlaceExposed
<1>5. CASE n # Absent /\ svcs[k] # Absent /\ (Open(n) <=> Open(svcs[k]))
  <2>1. BackendsOf(k)' = BackendsOf(k)
    BY <1>1, <1>5 DEF BackendsOf, Open
  <2>2. ASSUME NEW m \in Keys PROVE BackendsOf(m)' = BackendsOf(m)
    BY <1>2, <2>1
  <2> QED BY <2>2, PlacesKept
<1> QED BY <1>3, <1>4, <1>5

(* Add and Remove of the strategies that open services.                     *)
LEMMA ServiceStepRefines ==
  ASSUME StrategiesInv, strategy # "route", strategy' = strategy, AddStep \/ RemoveStep
  PROVE  Abstract!Next \/ UNCHANGED <<asked, AbstractBackends>>
<1>1. /\ asked' = asked
      /\ \/ pc = "add" /\ Writes(TRUE, FALSE)
         \/ pc = "remove" /\ Writes(FALSE, TRUE)
  BY StepWrites
<1>2. event.key \in Keys /\ (pc = "add" => event.key \in asked)
  BY <1>1, RunningEvent DEF StrategiesInv
<1>3. CASE svcs' = svcs
  <2>1. ASSUME NEW m \in Keys PROVE BackendsOf(m)' = BackendsOf(m)
    BY <1>3, SamePlace
  <2> QED BY <1>1, <2>1, PlacesKept
<1>4. CASE svcs' # svcs
  <2>1. PICK n \in ServiceObj :
          /\ svcs[event.key] \in ServiceObj
          /\ svcs' = [svcs EXCEPT ![event.key] = n]
          /\ pc = "add" => Open(n) \/ ~ Open(svcs[event.key])
          /\ pc # "add" => Open(svcs[event.key]) \/ ~ Open(n)
    BY <1>1, <1>4 DEF Writes
  <2>2. n \in MaybeObj /\ n # Absent /\ svcs[event.key] # Absent
    BY <2>1, ServiceFacts
  <2>3. \/ Open(n) /\ event.key \in asked
        \/ ~ Open(n)
        \/ Open(n) <=> Open(svcs[event.key])
    BY <1>2, <2>1
  <2> QED BY <1>1, <1>2, <2>1, <2>2, <2>3, ServiceChange
<1> QED BY <1>3, <1>4

(* A user's write of a service: Ask, or Withdraw when a service is deleted  *)
(* or its spec replaced, since users' specs are closed.                     *)
LEMMA UserRefines ==
  ASSUME StrategiesInv, strategy' = strategy, routes' = routes,
         CreateService \/ DeleteService \/ MarkService \/ EditSpec
  PROVE  Abstract!Next \/ UNCHANGED <<asked, AbstractBackends>>
<1> USE DEF StrategiesInv
<1>1. svcs \in [Keys -> MaybeObj]
  BY DEF HandlersInv, CoreInv, TypeOK
<1>2. asked' = asked \/ \E k \in Keys : asked' = asked \cup {k}
  BY EditSpecFacts DEF CreateService, DeleteService, MarkService, UserWrites
<1>3. CASE strategy = "route"
  <2>1. ASSUME NEW m \in Keys PROVE BackendsOf(m)' = BackendsOf(m)
    BY <1>3, SamePlace
  <2> QED BY <1>2, <2>1, PlacesKept
<1>4. CASE strategy # "route" /\ CreateService
  <2>1. PICK k \in Keys, m \in UserMarks, s \in UserSpecs :
          /\ svcs[k] = Absent
          /\ svcs' = [svcs EXCEPT ![k] =
               [uid |-> edits + 1, mark |-> m, url |-> NoUrl, spec |-> s]]
    BY <1>4 DEF CreateService, UserWrites, ServerWrite
  <2>2. svcs'[k].spec = s /\ \A j \in Keys \ {k} : svcs'[j] = svcs[j]
    BY <1>1, <2>1
  <2>3. ~ Open(svcs'[k])
    BY <2>2, ClosedAssumption DEF Open
  <2>4. BackendsOf(k)' = {} /\ BackendsOf(k) = {}
    BY <1>4, <2>1, <2>3 DEF BackendsOf, Open
  <2>5. ASSUME NEW j \in Keys PROVE BackendsOf(j)' = BackendsOf(j)
    BY <1>4, <2>2, <2>4, SamePlace
  <2> QED BY <1>2, <2>5, PlacesKept
<1>5. CASE strategy # "route" /\ DeleteService
  <2>1. PICK k \in Keys : /\ svcs' = [svcs EXCEPT ![k] = Absent]
                          /\ asked' = IF Asks(k, Absent) THEN asked \cup {k} ELSE asked
    BY <1>5 DEF DeleteService, UserWrites, ServerWrite
  <2>2. asked' = asked /\ Absent \in MaybeObj
    BY <2>1, ServiceFacts DEF Asks
  <2> QED BY <1>5, <2>1, <2>2, ServiceChange
<1>6. CASE strategy # "route" /\ MarkService
  <2>1. PICK k \in Keys, m \in UserMarks :
          svcs[k] # Absent /\ svcs' = [svcs EXCEPT ![k] = [svcs[k] EXCEPT !.mark = m]]
    BY <1>6 DEF MarkService, UserWrites, ServerWrite
  <2>2. svcs[k] \in ServiceObj
    BY <1>1, <2>1, ServiceFacts DEF MaybeObj
  <2> DEFINE n == [svcs[k] EXCEPT !.mark = m]
  <2>3. n.spec = svcs[k].spec /\ n \in ServiceObj
    BY <2>2, ServiceFacts DEF ServiceObj
  <2> HIDE DEF n
  <2>4. svcs'[k] = n /\ \A j \in Keys \ {k} : svcs'[j] = svcs[j]
    BY <1>1, <2>1 DEF n
  <2>5. BackendsOf(k)' = BackendsOf(k)
    BY <1>6, <2>1, <2>3, <2>4, ServiceFacts DEF BackendsOf
  <2>6. ASSUME NEW j \in Keys PROVE BackendsOf(j)' = BackendsOf(j)
    BY <1>6, <2>4, <2>5, SamePlace
  <2> QED BY <1>2, <2>6, PlacesKept
<1>7. CASE strategy # "route" /\ EditSpec
  <2>1. asked' = asked
    BY <1>7, EditSpecFacts
  <2>2. PICK k \in Keys, s \in UserSpecs :
          /\ svcs[k] \in ServiceObj /\ [svcs[k] EXCEPT !.spec = s] \in ServiceObj
          /\ svcs' = [svcs EXCEPT ![k] = [svcs[k] EXCEPT !.spec = s]]
    BY <1>7, EditSpecFacts DEF ServerWrite
  <2> DEFINE n == [svcs[k] EXCEPT !.spec = s]
  <2>3. n.spec = s
    BY <2>2 DEF ServiceObj
  <2> HIDE DEF n
  <2>4. ~ Open(n) /\ n \in MaybeObj
    BY <2>2, <2>3, ClosedAssumption, ServiceFacts DEF Open, n
  <2>5. svcs' = [svcs EXCEPT ![k] = n]
    BY <2>2 DEF n
  <2> QED BY <1>7, <2>1, <2>4, <2>5, ServiceChange
<1> QED BY <1>3, <1>4, <1>5, <1>6, <1>7

(* Every step of a controller is one of Exposure, or leaves it unchanged.   *)
LEMMA StrategiesStepRefines ==
  ASSUME StrategiesInv, StrategiesNext
  PROVE  Abstract!Next \/ UNCHANGED <<asked, AbstractBackends>>
<1>1. strategy' = strategy
  BY DEF StrategiesNext
<1>2. CASE UNCHANGED <<svcs, routes, asked>>
  <2>1. ASSUME NEW m \in Keys PROVE BackendsOf(m)' = BackendsOf(m)
    BY <1>1, <1>2, SamePlace
  <2> QED BY <1>2, <2>1, PlacesKept
<1>3. CASE HandlersNext /\ UNCHANGED routeVars
  <2>1. CASE CreateService \/ DeleteService \/ MarkService
    BY <1>1, <1>3, <2>1, UserRefines DEF routeVars
  <2>2. CASE ~ (CreateService \/ DeleteService \/ MarkService)
    BY <1>2, <1>3, <2>2, SharedWrites DEF StrategiesInv, routeVars
  <2> QED BY <2>1, <2>2
<1>4. CASE AddStep \/ RemoveStep
  <2>1. strategy = "route" => RouteAdd \/ RouteRemove
    BY <1>4 DEF AddStep, RemoveStep
  <2> QED BY <1>1, <1>4, <2>1, RouteRefines, ServiceStepRefines
<1>5. CASE Crash /\ RouteCrash
  BY <1>2, <1>5 DEF Crash, Restart, RouteCrash, serverVars
<1>6. CASE strategy = "route" /\ EditRoute
  BY <1>1, <1>6, RouteRefines
<1>7. CASE EditSpec /\ UNCHANGED routeVars
  BY <1>1, <1>7, UserRefines DEF routeVars
<1> QED BY <1>3, <1>4, <1>5, <1>6, <1>7 DEF StrategiesNext

(* The controller implements Exposure with each of its other strategies,    *)
(* for any services, specs and faults: whatever is retried, crashes or      *)
(* comes late, a service is opened only after its owner asked for it, and   *)
(* no step opens one and closes another.                                    *)
THEOREM StrategiesRefinement == StrategiesSpec => ImplementsExposure
<1>1. StrategiesInit => Abstract!Init
  <2> SUFFICES ASSUME StrategiesInit PROVE Abstract!Init
    OBVIOUS
  <2>1. asked \in SUBSET Keys
    BY DEF StrategiesInit, HandlersInit
  <2>2. ASSUME NEW k \in Keys PROVE BackendsOf(k) = {}
    <3>1. CASE strategy = "route"
      BY <3>1, RouteBackends DEF StrategiesInit, RouteInit
    <3>2. CASE strategy # "route" /\ svcs[k] # Absent
      <4>1. svcs[k].spec \in UserSpecs
        BY <3>2 DEF StrategiesInit, HandlersInit, InitialServices
      <4> QED BY <3>2, <4>1, ClosedAssumption, ServiceBackends DEF Open
    <3> QED BY <3>1, <3>2, ServiceBackends
  <2> QED BY <2>1, <2>2 DEF Abstract!Init
<1>2. StrategiesInv /\ [StrategiesNext]_strategyVars =>
        [Abstract!Next]_<<asked, [k \in Keys |-> BackendsOf(k)], [k \in Keys |-> {}]>>
  <2>1. ASSUME UNCHANGED strategyVars PROVE UNCHANGED <<asked, AbstractBackends>>
    <3>1. UNCHANGED <<asked, svcs, routes, strategy>>
      BY <2>1 DEF strategyVars, handlersVars, informerVars, vars, serverVars, routeVars
    <3> QED BY <3>1 DEF AbstractBackends, BackendsOf
  <2> QED BY <2>1, StrategiesStepRefines DEF AbstractBackends
<1> QED BY <1>1, <1>2, StrategiesInvariance, PTL DEF StrategiesSpec, ImplementsExposure, Abstract!Spec
=============================================================================
