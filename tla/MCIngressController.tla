----------------------- MODULE MCIngressController -----------------------
(* Instances of IngressController for TLC.                                  *)
EXTENDS IngressController, TLC

(* Services of two releases that share one ingress, because their names     *)
(* without the release prefix are the same, in a namespace that may also    *)
(* have ingresses of their full names, which are what DeleteFunc knows.     *)
SharedName == [k \in Keys |-> "shared"]
SharedAndOwn == Keys \cup {"shared"}

(* Every service has the ingress, and the host, of its own name.            *)
SameName == [k \in Keys |-> k]

(* Services that share an ingress are alike.                                *)
Alike == Permutations(Keys)
=============================================================================
