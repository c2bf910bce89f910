------------------------- MODULE ServiceStrategies -------------------------
(***************************************************************************)
(* The strategies that write nothing but the service: NodePortStrategy and *)
(* LoadBalancerStrategy change its type with one patch, AmbassadorStrategy *)
(* its getambassador.io/config annotation with one update.                 *)
(*                                                                         *)
(* Of a service's spec they read how many ports it has, its type, the node *)
(* port the server gave it, its external and load balancer IPs, whether it *)
(* has an annotations map, and whether it has Ambassador's mapping.  What  *)
(* the mapping says (host, path, TLS module) is left out.                  *)
(***************************************************************************)
EXTENDS EventHandlers

CONSTANTS
  NodePorts,            \* the node ports the server can give
  NoPort,               \* no node port yet (0 in the code)
  NoIP                  \* no load balancer IP (the empty string in the code)

ServiceSpec == [ports : 0 .. 2, type : {"ClusterIP", "NodePort", "LoadBalancer"},
                nodePort : NodePorts \cup {NoPort}, externalIPs : BOOLEAN,
                ip : {NoIP, "ip"}, bare : BOOLEAN, mapped : BOOLEAN]

ASSUME SpecsAssumption == Specs = ServiceSpec

-----------------------------------------------------------------------------
(* NodePort and LoadBalancer.                                               *)

NodeUrl(port) == <<"node", port>>
BalancerUrl(ip) == <<"balancer", ip>>

(* Mutant: the annotation does not wait for the server's node port.         *)
NodePortCloneEarly(svc) ==
  [svc EXCEPT !.spec.type = "NodePort", !.spec.externalIPs = FALSE, !.url = NodeUrl(NoPort)]

(* The clone that Add patches the service to; the annotation has to wait    *)
(* until the server has given the service a node port.                      *)
NodePortClone(svc) ==
  [svc EXCEPT !.spec.type = "NodePort", !.spec.externalIPs = FALSE,
              !.url = IF svc.spec.nodePort = NoPort THEN @ ELSE NodeUrl(svc.spec.nodePort)]

LoadBalancerClone(svc) ==
  [svc EXCEPT !.spec.type = "LoadBalancer",
              !.url = IF svc.spec.ip = NoIP THEN @ ELSE BalancerUrl(svc.spec.ip)]

(* The patch holds the fields in which the clone differs from the           *)
(* callback's copy, and the server applies these to the service it has.     *)
Merged(svc, from, to) ==
  [svc EXCEPT !.url = IF to.url = from.url THEN @ ELSE to.url,
              !.spec.type = IF to.spec.type = from.spec.type THEN @ ELSE to.spec.type,
              !.spec.externalIPs = IF to.spec.externalIPs = from.spec.externalIPs
                                   THEN @ ELSE to.spec.externalIPs]

(* The server gives a service of type NodePort a node port; that of a       *)
(* LoadBalancer service is not read by its strategy and left out.           *)
Allocated(svc) ==
  IF svc.spec.type # "NodePort" THEN {[svc EXCEPT !.spec.nodePort = NoPort]}
  ELSE IF svc.spec.nodePort = NoPort THEN {[svc EXCEPT !.spec.nodePort = p] : p \in NodePorts}
  ELSE {svc}

ServerAccepts(k, svc) ==
  IF svc = svcs[k] THEN UNCHANGED informerVars ELSE ServerWrite(k, svc)

PatchTo(clone) ==
  LET k == event.key IN
    \/ /\ clone = event.new \/ svcs[k] = Absent     \* no patch, or NotFound
       /\ UNCHANGED <<informerVars, faults>>
    \/ /\ clone # event.new
       /\ svcs[k] # Absent
       /\ \E svc \in Allocated(Merged(svcs[k], event.new, clone)) : ServerAccepts(k, svc)
       /\ UNCHANGED faults
    \/ /\ clone # event.new
       /\ Fault("patch")
       /\ UNCHANGED informerVars

(* Add refuses a service that has not exactly one port.                     *)
NodePortAdd ==
  /\ Calling("add", "start")
  /\ \/ /\ event.new.spec.ports # 1
        /\ UNCHANGED <<informerVars, faults>>
     \/ /\ event.new.spec.ports = 1
        /\ PatchTo(NodePortClone(event.new))
  /\ Return
  /\ StrategyFrame

LoadBalancerAdd ==
  /\ Calling("add", "start")
  /\ PatchTo(LoadBalancerClone(event.new))
  /\ Return
  /\ StrategyFrame

(* Remove takes the annotation away, and leaves the type.                   *)
NodePortRemove ==
  \/ /\ Calling("remove", "start")
     /\ IF event.new = FinalStateUnknown THEN Return ELSE Continue("patch")
     /\ UNCHANGED <<informerVars, faults>>
     /\ StrategyFrame
  \/ RemoveAnnotation

LoadBalancerRemove == NodePortRemove       \* the same code

-----------------------------------------------------------------------------
(* Ambassador.  Add and Remove change the callback's copy itself, which is  *)
(* the object in the informer's store, and send it whole.                   *)

Unmapped(svc) == [svc EXCEPT !.spec.mapped = FALSE]

(* Mutant: the update does not carry a resource version.                    *)
IsCurrentAlways(k, svc) == svcs[k] # Absent

(* The resource version of the copy is the server's when nobody has changed *)
(* anything else: the mapping is the controller's own.                      *)
IsCurrent(k, svc) == svcs[k] # Absent /\ Unmapped(svcs[k]) = Unmapped(svc)

UpdateService(svc) ==
  LET k == event.key IN
    /\ known' = [known EXCEPT ![k] = svc]
    /\ \/ /\ IsCurrent(k, svc)
          /\ svcs' = [svcs EXCEPT ![k] = svc]
          /\ watchBuf' = IF rpc = "list" \/ svc = svcs[k] THEN watchBuf
                         ELSE Append(watchBuf, [key |-> k, obj |-> svc])
          /\ UNCHANGED faults
       \/ /\ ~ IsCurrent(k, svc)
          /\ UNCHANGED <<svcs, watchBuf, faults>>
       \/ /\ Fault("write")
          /\ UNCHANGED <<svcs, watchBuf>>
    /\ UNCHANGED <<rpc, listed, fifoVars, popKey, popDeltas, event, historyVars>>

(* Add panics on a service without ports, and on one without annotations:   *)
(* a label may have marked it.                                              *)
AmbassadorPanics(svc) == svc.spec.ports = 0 \/ svc.spec.bare

AmbassadorAdd ==
  /\ Calling("add", "start")
  /\ \/ /\ AmbassadorPanics(event.new)
        /\ Panic
        /\ UNCHANGED faults
     \/ /\ ~ AmbassadorPanics(event.new)
        /\ UpdateService([event.new EXCEPT !.spec.mapped = TRUE])
        /\ Return
  /\ StrategyFrame

(* DeleteFunc's service has no spec: the server refuses it.                 *)
AmbassadorRemove ==
  /\ Calling("remove", "start")
  /\ \/ /\ event.new = FinalStateUnknown
        /\ UNCHANGED <<informerVars, faults>>
     \/ /\ event.new # FinalStateUnknown
        /\ UpdateService(Unmapped(event.new))
  /\ Return
  /\ StrategyFrame

-----------------------------------------------------------------------------
(* A user replaces the spec of a service, and with it its type.             *)
EditSpec ==
  \E k \in Keys, s \in UserSpecs :
    /\ svcs[k] # Absent
    /\ UserWrites("spec", k, [svcs[k] EXCEPT !.spec = s])
=============================================================================
