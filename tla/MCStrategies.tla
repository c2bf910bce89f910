---------------------------- MODULE MCStrategies ----------------------------
(* An instance of Strategies for TLC.                                       *)
EXTENDS Strategies

(* A service with external IPs, which the NodePort strategy clears, and one *)
(* that this strategy refuses, with a load balancer IP, on which Ambassador *)
(* panics.                                                                  *)
OnePort == [ports |-> 1, type |-> "ClusterIP", nodePort |-> NoPort, externalIPs |-> TRUE,
            ip |-> NoIP, bare |-> FALSE, mapped |-> FALSE]
TwoPorts == [OnePort EXCEPT !.ports = 2, !.ip = "ip", !.bare = TRUE]

SomeSpecs == {OnePort, TwoPorts}

SomeHosts == {<<h, p>> : h \in RouteHosts, p \in {"", "/"}}
             \cup {NodeUrl(p) : p \in NodePorts} \cup {BalancerUrl("ip")}

(* The route strategy does not read the spec.                               *)
MCInit ==
  /\ StrategiesInit
  /\ strategy = "route" => \A k \in Keys : svcs[k] = Absent \/ svcs[k].spec = OnePort

MCSpec == MCInit /\ [][StrategiesNext]_strategyVars /\ StrategiesFairness
=============================================================================
