------------------------ MODULE MCRelatedResources ------------------------
(* Instances of RelatedResources for TLC.                                   *)
EXTENDS RelatedResources

(* https://old/path and https://new/                                        *)
TwoUrls == {[base |-> "old", proto |-> TRUE, path |-> TRUE, slash |-> FALSE],
            [base |-> "new", proto |-> TRUE, path |-> FALSE, slash |-> TRUE]}
OneUrl == {[base |-> "new", proto |-> TRUE, path |-> TRUE, slash |-> FALSE]}

OwnOnly == <<"own">>
OwnLast == <<"a", "b", "own">>
OwnFirst == <<"own", "a", "b">>

(* ConfigMap a strips the protocol, and exposeURL goes on without for those *)
(* listed after it.                                                         *)
Stripping ==
  [c \in ConfigMaps |->
     CASE c = "own" -> {"plain"}
       [] c = "a"   -> {"noProtocol", "full"}
       [] c = "b"   -> {"noPath", "fullNoProtocol"}]

NoForms == [c \in ConfigMaps |-> {}]

RollsOwn == [d \in Deployments |-> {"own"}]
RollsAll == [d \in Deployments |-> ConfigMaps]
=============================================================================
