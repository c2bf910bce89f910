------------------------------ MODULE Exposure ------------------------------
(***************************************************************************)
(* What the controller promises, whichever strategy it runs.  Services are *)
(* the clients; a place is what makes services reachable from outside (an  *)
(* ingress, a route, the service's own type or annotation) and names its   *)
(* backends, those in the part of it that the strategy reads and those it  *)
(* overlooks: of an ingress it reads the first rule.  A service becomes a  *)
(* backend only after its owner asked for it, and alone: the backends that *)
(* were read stay, and the overlooked ones go.  A place may be emptied at  *)
(* any time (Remove, --cleanup, the garbage collector and users delete     *)
(* it), and users may write backends of their own into it.                 *)
(***************************************************************************)
CONSTANTS Clients, Places, Foreign

VARIABLES
  asked,                \* the clients whose owner has asked for exposure
  backends,             \* the backends of every place that the strategy reads
  overlooked            \* its other backends

Init ==
  /\ asked \in SUBSET Clients
  /\ backends = [p \in Places |-> {}]
  /\ overlooked = [p \in Places |-> {}]

Ask(k) ==
  /\ asked' = asked \cup {k}
  /\ UNCHANGED <<backends, overlooked>>

Expose(k, p) ==
  /\ k \in asked
  /\ backends' = [backends EXCEPT ![p] = @ \cup {k}]
  /\ overlooked' = [overlooked EXCEPT ![p] = {}]
  /\ UNCHANGED asked

Withdraw(p) ==
  /\ backends' = [backends EXCEPT ![p] = {}]
  /\ overlooked' = [overlooked EXCEPT ![p] = {}]
  /\ UNCHANGED asked

(* A user adds to what is read or to what is overlooked, or puts something  *)
(* of theirs in front, which makes the rest overlooked.                     *)
Interfere(p) ==
  /\ \/ /\ backends' = [backends EXCEPT ![p] = @ \cup {Foreign}]
        /\ UNCHANGED overlooked
     \/ /\ overlooked' = [overlooked EXCEPT ![p] = @ \cup {Foreign}]
        /\ UNCHANGED backends
     \/ /\ \E S \in SUBSET {Foreign} : backends' = [backends EXCEPT ![p] = S]
        /\ overlooked' = [overlooked EXCEPT ![p] = @ \cup backends[p]]
  /\ UNCHANGED asked

Next ==
  \/ \E k \in Clients : Ask(k)
  \/ \E k \in Clients, p \in Places : Expose(k, p)
  \/ \E p \in Places : Withdraw(p) \/ Interfere(p)

Spec == Init /\ [][Next]_<<asked, backends, overlooked>>

(* Nobody is exposed who did not ask.                                       *)
NeverUnasked == \A p \in Places : backends[p] \cup overlooked[p] \subseteq asked \cup {Foreign}
=============================================================================
