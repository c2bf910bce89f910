---------------------- MODULE IngressControllerProofs ----------------------
(***************************************************************************)
(* Proofs about IngressController, for every set of services, ingress      *)
(* names, hosts and faults: no ingress lists a backend twice, Add's write  *)
(* keeps what the rule it reads has, --cleanup deletes generated ingresses only, *)
(* and the controller implements the abstract specification Exposure.      *)
(***************************************************************************)
EXTENDS IngressController, EventHandlersProofs

(* An ingress without duplicates, and the backends of its first rule.       *)
DistinctIngress(ing) ==
  Distinct(ing.paths) /\ \A k \in Keys \cap ing.further : ~ Has(ing.paths, k)

Listed(ing) == {b \in Backend : Has(ing.paths, b)}

(* The calls belong to Add and Remove, and the ingress that Add is about to *)
(* write did not list the backend when it was read.                         *)
CallInv ==
  /\ call # "start" => pc \in {"add", "remove"}
  /\ call = "write" => pc = "add" /\ ~ ListsBackend(seen, event.key)

(* What --cleanup has still to delete is generated or gone, as long as no   *)
(* user has edited anything since its list.                                 *)
CleanupInv ==
  /\ cleanup.at = "off" => cleanup.todo = {}
  /\ cleanup.at = "deleting" => cleanup.since <= edits
  /\ cleanup.at = "deleting" /\ cleanup.since = edits =>
       \A n \in cleanup.todo : ingresses[n] = Absent \/ IsGenerated(ingresses[n])

ControllerInv == HandlersInv /\ ControllerTypeOK /\ CallInv /\ NoDuplicateBackend /\ CleanupInv

-----------------------------------------------------------------------------
(* The names and hosts of the constants.                                    *)
LEMMA NameFacts ==
  \A k \in Keys : /\ AddName[k] \in IngressNames /\ TrimmedName[k] \in IngressNames
                  /\ OwnName[k] \in IngressNames /\ HostOf[k] \in Hosts
BY NamesAssumption

(* An ingress record with its fields in their types is an ingress.          *)
LEMMA IngressFacts ==
  ASSUME NEW ing \in Ingress
  PROVE  /\ ing.host \in Hosts /\ ing.http \in BOOLEAN /\ ing.paths \in Seq(Backend)
         /\ ing.further \in SUBSET Backend
         /\ ing.owners \in SUBSET Owner /\ ing.ann \in Annotations
BY DEF Ingress

(* The initial states.                                                      *)
LEMMA ControllerInitInv == ControllerInit => ControllerInv
<1> SUFFICES ASSUME ControllerInit PROVE ControllerInv
  OBVIOUS
<1>1. HandlersInv
  BY HandlersInitInv DEF ControllerInit
<1>2. ControllerTypeOK
  BY <1>1, FaultsAssumption DEF ControllerInit, ControllerTypeOK, HandlersInv, CleanupStates
<1>3. CallInv /\ NoDuplicateBackend /\ CleanupInv
  BY DEF ControllerInit, HandlersInit, CallInv, NoDuplicateBackend, CleanupInv
<1> QED BY <1>1, <1>2, <1>3 DEF ControllerInv

-----------------------------------------------------------------------------
(* The steps that leave the ingresses alone.                                *)

(* The steps every strategy shares.                                         *)
LEMMA SharedStepInv ==
  ASSUME ControllerInv, HandlersNext, UNCHANGED ingressVars
  PROVE  ControllerInv'
<1> USE DEF ControllerInv
<1>1. HandlersInv' /\ UNCHANGED <<ingresses, seen, cleanup>>
  BY HandlersNextInv DEF ingressVars
<1>2. ControllerTypeOK' /\ NoDuplicateBackend'
  BY <1>1 DEF HandlersInv, ControllerTypeOK, NoDuplicateBackend
<1>3. CallInv'
  <2>1. CASE pc \in {"add", "remove"}
    BY <1>1, <2>1, HandlersNextFrame DEF CallInv, ListsBackend
  <2>2. CASE pc \notin {"add", "remove"}
    <3>1. call = "start"
      BY <2>2 DEF CallInv
    <3>2. call' \in {call, "start"}
      BY InformerStepInv, LifeInv, UsersInv
         DEF HandlersNext, Dispatch, UpdateRelatedResources, RelatedPanics, Panic, HandlerDone
    <3> QED BY <3>1, <3>2 DEF CallInv
  <2> QED BY <2>1, <2>2
<1>4. CleanupInv'
  <2>1. edits' = edits \/ edits' = edits + 1
    BY DEF HandlersNext, ListServices, ReplaceServices, WatchServices, BreakWatch,
           ResyncServices, PopService, InformerStep, Dispatch, UpdateRelatedResources,
           RelatedPanics, HandlerDone, Tick, Exit, CreateService, DeleteService, MarkService, UserWrites,
           Edit, boundVars
  <2>2. edits \in Nat /\ cleanup.since \in Nat
    BY FaultsAssumption DEF ControllerTypeOK, HandlersTypeOK, CleanupStates
  <2> QED BY <1>1, <2>1, <2>2 DEF CleanupInv, IsGenerated
<1> QED BY <1>1, <1>2, <1>3, <1>4

(* The two patches, a panic and a crash.                                    *)
LEMMA PatchStepInv ==
  ASSUME ControllerInv, PatchService \/ UnpatchService \/ AddPanics \/ CrashProcess
  PROVE  ControllerInv'
<1> USE DEF ControllerInv
<1>1. /\ ingresses' = ingresses /\ cleanup' = cleanup /\ edits' = edits
      /\ seen' \in {seen, Absent} /\ call' = "start"
  BY DEF PatchService, UnpatchService, AddPanics, CrashProcess, Annotate, RemoveAnnotation,
         Return, Panic, Crash, ingressVars, StrategyFrame
<1>2. HandlersInv'
  <2>1. CASE PatchService
    <3>1. pc = "add" /\ Patch(HostOf[event.key]) /\ Return /\ StrategyFrame
      BY <2>1 DEF PatchService, Annotate, Calling, StrategyFrame
    <3>2. HostOf[event.key] \in Urls
      BY <3>1, NameFacts DEF HandlersInv, EventInv, HandlerEvents, Urls
    <3> QED BY <3>1, <3>2, PatchInv
  <2>2. CASE UnpatchService
    BY <2>2, PatchInv DEF UnpatchService, RemoveAnnotation, Calling, StrategyFrame, Urls
  <2>3. CASE AddPanics
    BY <2>3, EndInv DEF AddPanics, Panic, StrategyFrame, boundVars
  <2>4. CASE CrashProcess
    BY <2>4, CrashInv DEF CrashProcess
  <2> QED BY <2>1, <2>2, <2>3, <2>4
<1>3. ControllerTypeOK'
  BY <1>1, <1>2 DEF HandlersInv, ControllerTypeOK
<1>4. (CallInv /\ NoDuplicateBackend /\ CleanupInv)'
  BY <1>1 DEF CallInv, NoDuplicateBackend, CleanupInv, IsGenerated
<1> QED BY <1>2, <1>3, <1>4

-----------------------------------------------------------------------------
(* Add's two calls.                                                         *)

(* Add's Get: what it passes on to the write does not list the backend.     *)
LEMMA GetIngressInv ==
  ASSUME ControllerInv, GetIngress
  PROVE  ControllerInv'
<1> USE DEF ControllerInv
<1>1. /\ UNCHANGED <<informerVars, ingresses, cleanup, related, life, edits, asked>>
      /\ pc = "add"
      /\ \/ pc' = "related" /\ call' = "start" /\ seen' = seen
         \/ /\ pc' = "add" /\ call' = "write"
            /\ seen' = ingresses[AddName[event.key]] /\ ~ ListsBackend(seen', event.key)
  BY DEF GetIngress, Calling, Return, Continue, StrategyFrame
<1>2. faults' \in 0 .. MaxFaults
  BY FaultBound DEF GetIngress, HandlersInv
<1>3. event.key \in Keys /\ event' = event
  BY <1>1 DEF HandlersInv, EventInv, HandlerEvents, informerVars, vars, loopVars
<1>4. seen' \in Ingress \cup {Absent}
  BY <1>1, <1>3, NameFacts DEF ControllerTypeOK
<1>5. HandlersInv'
  BY <1>1, <1>2, StrategyStepInv DEF HandlersInv, HandlersTypeOK
<1>6. ControllerTypeOK'
  BY <1>1, <1>4, <1>5 DEF HandlersInv, ControllerTypeOK
<1>7. CallInv'
  BY <1>1, <1>3 DEF CallInv, ListsBackend
<1>8. (NoDuplicateBackend /\ CleanupInv)'
  BY <1>1 DEF NoDuplicateBackend, CleanupInv, IsGenerated
<1> QED BY <1>5, <1>6, <1>7, <1>8

(* The ingress Add writes: the service in front of the backends it had.     *)
LEMMA ExposedIngressFacts ==
  ASSUME NEW k \in Keys, NEW svc \in ServiceObj, NEW ing \in Ingress \cup {Absent},
         ~ ListsBackend(ing, k), ing # Absent => Distinct(ing.paths)
  PROVE  /\ ExposedIngress(k, svc, ing) \in Ingress
         /\ DistinctIngress(ExposedIngress(k, svc, ing))
         /\ ExposedIngress(k, svc, ing).further = {} /\ ExposedIngress(k, svc, ing).http
         /\ \A b \in Backend : Has(ExposedIngress(k, svc, ing).paths, b) <=>
                              b = k \/ (ing # Absent /\ Has(ing.paths, b))
         /\ (ing = Absent \/ IsGenerated(ing)) => IsGenerated(ExposedIngress(k, svc, ing))
         /\ ing # Absent =>
              /\ \A b \in Backend : Has(ing.paths, b) => Has(ExposedIngress(k, svc, ing).paths, b)
              /\ ing.owners \subseteq ExposedIngress(k, svc, ing).owners
<1> DEFINE base == IF ing # Absent THEN ing
                   ELSE [paths |-> <<>>, owners |-> {}, ann |-> "nil"]
           new == ExposedIngress(k, svc, ing)
<1>1. /\ base.paths \in Seq(Backend) /\ base.owners \in SUBSET Owner
      /\ base.ann \in Annotations
      /\ Distinct(base.paths) /\ ~ Has(base.paths, k)
  <2>1. CASE ing = Absent
    BY <2>1, EmptySeq DEF Annotations, Distinct, Has
  <2>2. CASE ing # Absent
    BY <2>2, IngressFacts DEF ListsBackend
  <2> QED BY <2>1, <2>2
<1>2. /\ new.host = HostOf[k] /\ new.paths = <<k>> \o base.paths
      /\ new.owners = base.owners \cup {[key |-> k, uid |-> svc.uid]}
      /\ new.ann \in Annotations /\ new.http = TRUE /\ new.further = {}
      /\ new = [host |-> new.host, http |-> new.http, paths |-> new.paths,
                further |-> new.further, owners |-> new.owners, ann |-> new.ann]
  BY <1>1 DEF ExposedIngress, Annotations
<1> HIDE DEF base, new
<1>3. /\ <<k>> \in Seq(Backend) /\ Distinct(<<k>>)
      /\ \A b \in Backend : Has(<<k>>, b) <=> b = k
  BY DEF Backend, Distinct, Has
<1>4. /\ <<k>> \o base.paths \in Seq(Backend)
      /\ Distinct(<<k>> \o base.paths)
      /\ \A b \in Backend : Has(<<k>> \o base.paths, b) <=> Has(<<k>>, b) \/ Has(base.paths, b)
  <2> DEFINE front == <<k>>
             old == base.paths
  <2>1. /\ front \in Seq(Backend) /\ old \in Seq(Backend)
        /\ Distinct(front) /\ Distinct(old)
        /\ \A b \in Backend : ~ (Has(front, b) /\ Has(old, b))
    BY <1>1, <1>3
  <2> HIDE DEF front, old
  <2>2. /\ front \o old \in Seq(Backend) /\ Distinct(front \o old)
        /\ \A b \in Backend : Has(front \o old, b) <=> Has(front, b) \/ Has(old, b)
    BY <2>1, ConcatDistinct
  <2> QED BY <2>2 DEF front, old
<1>5. [key |-> k, uid |-> svc.uid] \in Owner
  BY DEF Owner, ServiceObj
<1>6. new \in Ingress
  BY <1>1, <1>2, <1>4, <1>5, NameFacts DEF Ingress
<1>7. /\ ing # Absent => base = ing
      /\ ing = Absent => base.paths = <<>> /\ base.ann = "nil"
  BY DEF base
<1>8. (ing = Absent \/ IsGenerated(ing)) => IsGenerated(new)
  <2>1. new.ann = IF base.ann = "nil" THEN "generated" ELSE base.ann
    BY DEF new, base, ExposedIngress
  <2>2. new # Absent
    BY <1>6, IngressAssumption
  <2> QED BY <1>7, <2>1, <2>2 DEF IsGenerated
<1>9. \A b \in Backend : Has(new.paths, b) <=> b = k \/ (ing # Absent /\ Has(ing.paths, b))
  <2>1. CASE ing = Absent
    BY <1>2, <1>3, <1>4, <1>7, <2>1 DEF Has
  <2>2. CASE ing # Absent
    BY <1>2, <1>3, <1>4, <1>7, <2>2
  <2> QED BY <2>1, <2>2
<1> QED BY <1>2, <1>4, <1>6, <1>7, <1>8, <1>9 DEF new, DistinctIngress

(* Add's write: accepted only when the ingress is the one Get returned.     *)
LEMMA WriteIngressFacts ==
  ASSUME ControllerInv, WriteIngress
  PROVE  LET k == event.key
             n == AddName[k]
             new == ExposedIngress(k, event.new, seen)
         IN /\ k \in Keys /\ n \in IngressNames /\ event.new \in ServiceObj
            /\ k \in asked /\ asked' = asked
            /\ seen \in Ingress \cup {Absent} /\ ~ ListsBackend(seen, k)
            /\ \/ ingresses' = ingresses
               \/ /\ ingresses[n] = seen /\ ingresses' = [ingresses EXCEPT ![n] = new]
                  /\ seen # Absent => Distinct(seen.paths)
<1> USE DEF ControllerInv, HandlersInv
<1>1. pc = "add" /\ call = "write"
  BY DEF WriteIngress, Calling
<1>2. event.key \in Keys /\ AddName[event.key] \in IngressNames /\ event.new \in ServiceObj
  BY <1>1, NameFacts DEF EventInv, HandlerEvents
<1>3. event.key \in asked /\ asked' = asked
  BY <1>1 DEF AskedInv, WriteIngress, StrategyFrame
<1>4. seen \in Ingress \cup {Absent} /\ ~ ListsBackend(seen, event.key)
  BY <1>1 DEF CallInv, ControllerTypeOK
<1>5. ingresses[AddName[event.key]] = seen /\ seen # Absent => Distinct(seen.paths)
  BY <1>2 DEF NoDuplicateBackend
<1> QED BY <1>2, <1>3, <1>4, <1>5 DEF WriteIngress, Accepted

(* So the write keeps the invariant.                                        *)
LEMMA WriteIngressInv ==
  ASSUME ControllerInv, WriteIngress
  PROVE  ControllerInv'
<1> USE DEF ControllerInv
<1> DEFINE k == event.key
           n == AddName[k]
           new == ExposedIngress(k, event.new, seen)
<1>1. /\ UNCHANGED <<informerVars, related, life, edits, asked, cleanup>>
      /\ pc = "add" /\ seen' = Absent
      /\ \/ pc' = "related" /\ call' = "start"
         \/ pc' = "add" /\ call' = "patch"
  BY DEF WriteIngress, Calling, Return, Continue, StrategyFrame
<1>2. faults' \in 0 .. MaxFaults
  BY FaultBound DEF WriteIngress, HandlersInv
<1>3. HandlersInv'
  BY <1>1, <1>2, StrategyStepInv DEF HandlersInv, HandlersTypeOK
<1>4. n \in IngressNames
  BY WriteIngressFacts
<1>5. \/ ingresses' = ingresses
      \/ /\ ingresses[n] = seen /\ ingresses' = [ingresses EXCEPT ![n] = new]
         /\ new \in Ingress /\ DistinctIngress(new)
         /\ (seen = Absent \/ IsGenerated(seen)) => IsGenerated(new)
  BY WriteIngressFacts, ExposedIngressFacts
<1> HIDE DEF k, n, new
<1>6. ingresses' \in [IngressNames -> Ingress \cup {Absent}] /\ NoDuplicateBackend'
  BY <1>4, <1>5 DEF ControllerTypeOK, NoDuplicateBackend, DistinctIngress
<1>7. ControllerTypeOK'
  BY <1>1, <1>3, <1>6 DEF HandlersInv, ControllerTypeOK
<1>8. CallInv'
  BY <1>1 DEF CallInv
<1>9. \A m \in IngressNames :
        ingresses[m] = Absent \/ IsGenerated(ingresses[m]) =>
          ingresses'[m] = Absent \/ IsGenerated(ingresses'[m])
  BY <1>4, <1>5 DEF ControllerTypeOK
<1>10. CleanupInv'
  <2>1. cleanup.todo \subseteq IngressNames
    BY DEF ControllerTypeOK, CleanupStates
  <2> QED BY <1>1, <1>9, <2>1 DEF CleanupInv, IsGenerated
<1> QED BY <1>3, <1>6, <1>7, <1>8, <1>10

-----------------------------------------------------------------------------
(* The deletions: Remove, --cleanup and the garbage collector.              *)

(* Some ingresses are gone and the others are as they were.                 *)
LEMMA DeletionsInv ==
  ASSUME ControllerTypeOK, NoDuplicateBackend,
         \E n \in IngressNames :
           ingresses' = [ingresses EXCEPT ![n] = Absent] \/ ingresses' = ingresses
  PROVE  /\ ingresses' \in [IngressNames -> Ingress \cup {Absent}]
         /\ NoDuplicateBackend'
         /\ \A m \in IngressNames : ingresses'[m] \in {ingresses[m], Absent}
BY DEF ControllerTypeOK, NoDuplicateBackend

(* Remove's Delete, by the service's trimmed or own name.                   *)
LEMMA DeleteIngressFacts ==
  ASSUME ControllerInv, DeleteIngress
  PROVE  /\ RemoveName(event) \in IngressNames
         /\ \/ ingresses' = ingresses
            \/ ingresses' = [ingresses EXCEPT ![RemoveName(event)] = Absent]
<1>1. event.key \in Keys
  BY DEF DeleteIngress, Calling, ControllerInv, HandlersInv, EventInv, HandlerEvents
<1> QED BY <1>1, NameFacts DEF RemoveName, DeleteIngress

(* It keeps the invariant.                                                  *)
LEMMA DeleteIngressInv ==
  ASSUME ControllerInv, DeleteIngress
  PROVE  ControllerInv'
<1> USE DEF ControllerInv
<1>1. /\ UNCHANGED <<informerVars, related, life, edits, asked, seen, cleanup>>
      /\ pc = "remove"
      /\ \/ pc' = "done" /\ call' = "start"
         \/ pc' = "remove" /\ call' = "patch"
  BY DEF DeleteIngress, Calling, Return, Continue, StrategyFrame
<1>2. faults' \in 0 .. MaxFaults
  BY FaultBound DEF DeleteIngress, HandlersInv
<1>3. HandlersInv'
  BY <1>1, <1>2, StrategyStepInv DEF HandlersInv, HandlersTypeOK
<1>4. /\ ingresses' \in [IngressNames -> Ingress \cup {Absent}] /\ NoDuplicateBackend'
      /\ \A m \in IngressNames : ingresses'[m] \in {ingresses[m], Absent}
  BY DeleteIngressFacts, DeletionsInv
<1>5. ControllerTypeOK'
  BY <1>1, <1>3, <1>4 DEF HandlersInv, ControllerTypeOK
<1>6. CallInv'
  BY <1>1 DEF CallInv
<1>7. CleanupInv'
  <2>1. cleanup.todo \subseteq IngressNames
    BY DEF ControllerTypeOK, CleanupStates
  <2> QED BY <1>1, <1>4, <2>1 DEF CleanupInv, IsGenerated
<1> QED BY <1>3, <1>4, <1>5, <1>6, <1>7

(* The steps of --cleanup, and a collection.                                *)
LEMMA CleanupStepInv ==
  ASSUME ControllerInv, CleanupList \/ CleanupDelete \/ CleanupReturn \/ CollectGarbage
  PROVE  ControllerInv'
<1> USE DEF ControllerInv
<1>1. UNCHANGED <<informerVars, related, life, asked, pc, call, seen>> /\ event' = event
  BY DEF CleanupList, CleanupDelete, CleanupReturn, CollectGarbage, Edit, handlersVars,
         processVars, informerVars, vars, loopVars
<1>2. edits' \in 0 .. MaxEdits /\ faults' \in 0 .. MaxFaults
  BY FaultsAssumption DEF CleanupList, CleanupDelete, CleanupReturn, CollectGarbage, Edit,
       handlersVars, boundVars, ControllerTypeOK, HandlersTypeOK, Fault
<1>3. HandlersInv'
  BY <1>1, <1>2, StrategyStepInv DEF HandlersInv, HandlersTypeOK
<1>4. CallInv'
  BY <1>1 DEF CallInv, ListsBackend
<1>5. cleanup.todo \subseteq IngressNames /\ edits \in Nat /\ cleanup \in CleanupStates
  BY FaultsAssumption DEF ControllerTypeOK, HandlersTypeOK, CleanupStates
<1>6. /\ ingresses' \in [IngressNames -> Ingress \cup {Absent}] /\ NoDuplicateBackend'
      /\ \A m \in IngressNames : ingresses'[m] \in {ingresses[m], Absent}
  <2>1. CASE ingresses' = ingresses
    BY <2>1 DEF ControllerTypeOK, NoDuplicateBackend
  <2>2. CASE ingresses' # ingresses
    BY <1>5, <2>2, DeletionsInv DEF CleanupList, CleanupDelete, CleanupReturn, CollectGarbage
  <2> QED BY <2>1, <2>2
<1>7. cleanup' \in CleanupStates /\ CleanupInv'
  <2>1. CASE CleanupList
    <3>1. /\ cleanup' = [at |-> "deleting", todo |-> {n \in Filtered : IsGenerated(ingresses[n])},
                         since |-> edits + 1]
          /\ edits' = edits + 1 /\ ingresses' = ingresses
      BY <2>1 DEF CleanupList, Edit
    <3>2. cleanup' \in CleanupStates
      BY <1>2, <3>1, NamesAssumption DEF CleanupStates
    <3> QED BY <1>5, <3>1, <3>2 DEF CleanupInv, IsGenerated
  <2>2. CASE CleanupDelete
    <3>1. edits' = edits /\ cleanup.at = "deleting"
      BY <2>2 DEF CleanupDelete
    <3>2. \/ \E n \in cleanup.todo : cleanup' = [cleanup EXCEPT !.todo = @ \ {n}]
          \/ cleanup' = [cleanup EXCEPT !.at = "fatal", !.todo = {}]
      BY <2>2 DEF CleanupDelete
    <3>3. cleanup' \in CleanupStates
      BY <1>5, <3>2 DEF CleanupStates
    <3>4. cleanup'.at = "deleting" =>
            /\ cleanup.at = "deleting" /\ cleanup'.since = cleanup.since
            /\ cleanup'.todo \subseteq cleanup.todo
      BY <1>5, <3>2 DEF CleanupStates
    <3>5. cleanup'.at # "off"
      BY <1>5, <3>1, <3>2 DEF CleanupStates
    <3> QED BY <1>5, <1>6, <3>1, <3>3, <3>4, <3>5 DEF CleanupInv, IsGenerated
  <2>3. CASE CleanupReturn
    <3>1. cleanup' = [cleanup EXCEPT !.at = "done"]
      BY <2>3 DEF CleanupReturn
    <3> QED BY <1>5, <3>1 DEF CleanupStates, CleanupInv
  <2>4. CASE CollectGarbage
    <3>1. edits' = edits /\ cleanup' = cleanup
      BY <2>4 DEF CollectGarbage, handlersVars, boundVars
    <3> QED BY <1>5, <1>6, <3>1 DEF CleanupInv, IsGenerated
  <2> QED BY <2>1, <2>2, <2>3, <2>4
<1>8. ControllerTypeOK'
  BY <1>1, <1>3, <1>6, <1>7 DEF HandlersInv, ControllerTypeOK
<1> QED BY <1>3, <1>4, <1>6, <1>7, <1>8

(* An ingress with a user's rule in front.                                  *)
LEMMA UserRuleFacts ==
  ASSUME NEW further \in SUBSET Backend, NEW owners \in SUBSET Owner, NEW ann \in Annotations,
         NEW http \in BOOLEAN
  PROVE  LET new == UserRuleBefore(further, owners, ann, http)
         IN /\ new \in Ingress /\ DistinctIngress(new) /\ new.further = further
            /\ Listed(new) = IF http THEN {UserBackend} ELSE {}
<1> DEFINE new == UserRuleBefore(further, owners, ann, http)
           paths == IF http THEN <<UserBackend>> ELSE <<>>
<1>1. UserBackend \in Backend /\ UserBackend \notin Keys /\ UserHost \in Hosts
  BY IngressSetsAssumption DEF Backend
<1>2. /\ paths \in Seq(Backend) /\ Distinct(paths)
      /\ \A b : Has(paths, b) <=> http /\ b = UserBackend
  BY <1>1, EmptySeq DEF Distinct, Has
<1>3. new = [host |-> UserHost, http |-> http, paths |-> paths, further |-> further,
             owners |-> owners, ann |-> ann]
  BY DEF UserRuleBefore
<1> HIDE DEF paths
<1>4. new \in Ingress /\ new.paths = paths /\ new.further = further
  BY <1>1, <1>2, <1>3 DEF Ingress
<1> HIDE DEF new
<1> QED BY <1>1, <1>2, <1>4 DEF new, DistinctIngress, Listed

(* The backends of an ingress, read off its paths.                          *)
LEMMA PathsAreListed ==
  ASSUME NEW ing \in Ingress
  PROVE  {ing.paths[i] : i \in 1 .. Len(ing.paths)} = Listed(ing)
<1>1. ing.paths \in Seq(Backend)
  BY IngressFacts
<1>2. \A i \in 1 .. Len(ing.paths) : ing.paths[i] \in Backend
  BY <1>1, ElementOfSeq
<1> QED BY <1>2 DEF Listed, Has

LEMMA BackendsAreListed ==
  ASSUME ControllerTypeOK, NEW n \in IngressNames, ingresses[n] # Absent
  PROVE  BackendsOf(n) = Listed(ingresses[n]) /\ FurtherOf(n) = ingresses[n].further
<1>1. ingresses[n] \in Ingress
  BY DEF ControllerTypeOK
<1> QED BY <1>1, PathsAreListed DEF BackendsOf, FurtherOf

(* What users do to an ingress: it goes, gets a backend in its first rule   *)
(* or in a further one, or a rule in front.                                 *)
LEMMA EditFacts ==
  ASSUME ControllerInv, EditIngress \/ AddRule
  PROVE  \E n \in IngressNames, new \in Ingress \cup {Absent} :
           /\ ingresses' = [ingresses EXCEPT ![n] = new]
           /\ new # Absent =>
                /\ DistinctIngress(new)
                /\ \/ /\ Listed(new) = BackendsOf(n) \cup {UserBackend}
                      /\ new.further = FurtherOf(n)
                   \/ /\ Listed(new) = BackendsOf(n)
                      /\ new.further = FurtherOf(n) \cup {UserBackend}
                   \/ /\ Listed(new) \in SUBSET {UserBackend}
                      /\ new.further = FurtherOf(n) \cup BackendsOf(n)
<1> USE DEF ControllerInv
<1>1. UserBackend \in Backend /\ UserBackend \notin Keys
  BY IngressSetsAssumption DEF Backend
<1>2. ASSUME NEW n \in IngressNames, ingresses[n] # Absent
      PROVE  /\ ingresses[n] \in Ingress /\ DistinctIngress(ingresses[n])
             /\ BackendsOf(n) = Listed(ingresses[n]) /\ FurtherOf(n) = ingresses[n].further
  BY <1>2, BackendsAreListed DEF ControllerTypeOK, NoDuplicateBackend, DistinctIngress
<1>3. ASSUME NEW n \in IngressNames, ingresses[n] # Absent,
             ~ Has(ingresses[n].paths, UserBackend)
      PROVE  LET new == [ingresses[n] EXCEPT !.paths = Append(@, UserBackend)]
             IN /\ new \in Ingress /\ DistinctIngress(new)
                /\ Listed(new) = BackendsOf(n) \cup {UserBackend} /\ new.further = FurtherOf(n)
  <2> DEFINE ing == ingresses[n]
             new == [ing EXCEPT !.paths = Append(@, UserBackend)]
  <2>1. ing \in Ingress /\ ing.paths \in Seq(Backend) /\ DistinctIngress(ing)
    BY <1>2, <1>3, IngressFacts
  <2>2. /\ Append(ing.paths, UserBackend) \in Seq(Backend)
        /\ Distinct(Append(ing.paths, UserBackend))
        /\ \A y \in Backend : Has(Append(ing.paths, UserBackend), y) <=>
                                Has(ing.paths, y) \/ y = UserBackend
    BY <1>1, <1>3, <2>1, AppendDistinct DEF DistinctIngress
  <2>3. /\ new \in Ingress /\ new.paths = Append(ing.paths, UserBackend)
        /\ new.further = ing.further
    BY <2>1, <2>2 DEF Ingress
  <2> HIDE DEF new
  <2>4. DistinctIngress(new)
    BY <1>1, <2>1, <2>2, <2>3 DEF DistinctIngress, Backend
  <2>5. Listed(new) = Listed(ing) \cup {UserBackend}
    BY <1>1, <2>2, <2>3 DEF Listed
  <2> QED BY <1>2, <1>3, <2>3, <2>4, <2>5 DEF new
<1>4. ASSUME NEW n \in IngressNames, ingresses[n] # Absent
      PROVE  LET new == [ingresses[n] EXCEPT !.further = @ \cup {UserBackend}]
             IN /\ new \in Ingress /\ DistinctIngress(new)
                /\ Listed(new) = BackendsOf(n)
                /\ new.further = FurtherOf(n) \cup {UserBackend}
  <2> DEFINE ing == ingresses[n]
             new == [ing EXCEPT !.further = @ \cup {UserBackend}]
  <2>1. ing \in Ingress /\ DistinctIngress(ing)
    BY <1>2, <1>4
  <2>2. /\ new \in Ingress /\ new.paths = ing.paths
        /\ new.further = ing.further \cup {UserBackend}
    BY <1>1, <2>1 DEF Ingress
  <2> HIDE DEF new
  <2>3. DistinctIngress(new) /\ Listed(new) = Listed(ing)
    BY <1>1, <2>1, <2>2 DEF DistinctIngress, Listed
  <2> QED BY <1>2, <1>4, <2>2, <2>3 DEF new
<1>5. CASE EditIngress
  <2>1. PICK n \in IngressNames :
          \/ /\ ingresses[n] # Absent /\ ~ Has(ingresses[n].paths, UserBackend)
             /\ ingresses' = [ingresses EXCEPT ![n].paths = Append(@, UserBackend)]
          \/ ingresses' = [ingresses EXCEPT ![n] = Absent]
          \/ /\ ingresses[n] = Absent
             /\ \E a \in {"nil", "user"} :
                  ingresses' = [ingresses EXCEPT ![n] = UserRuleBefore({}, {}, a, TRUE)]
    BY <1>5 DEF EditIngress
  <2>2. CASE /\ ingresses[n] # Absent /\ ~ Has(ingresses[n].paths, UserBackend)
             /\ ingresses' = [ingresses EXCEPT ![n].paths = Append(@, UserBackend)]
    <3> DEFINE new == [ingresses[n] EXCEPT !.paths = Append(@, UserBackend)]
    <3>1. ingresses' = [ingresses EXCEPT ![n] = new]
      BY <2>2
    <3>2. /\ new \in Ingress /\ DistinctIngress(new)
          /\ Listed(new) = BackendsOf(n) \cup {UserBackend} /\ new.further = FurtherOf(n)
      BY <1>3, <2>2
    <3> HIDE DEF new
    <3> QED BY <3>1, <3>2
  <2>3. CASE ingresses' = [ingresses EXCEPT ![n] = Absent]
    BY <2>3
  <2>4. ASSUME NEW a \in {"nil", "user"}, ingresses[n] = Absent,
               ingresses' = [ingresses EXCEPT ![n] = UserRuleBefore({}, {}, a, TRUE)]
        PROVE  \E new \in Ingress :
                 /\ ingresses' = [ingresses EXCEPT ![n] = new]
                 /\ DistinctIngress(new) /\ new.further = FurtherOf(n)
                 /\ Listed(new) = BackendsOf(n) \cup {UserBackend}
    <3>1. a \in Annotations /\ BackendsOf(n) = {} /\ FurtherOf(n) = {}
      BY <2>4 DEF Annotations, BackendsOf, FurtherOf
    <3> DEFINE new == UserRuleBefore({}, {}, a, TRUE)
    <3>2. /\ new \in Ingress /\ DistinctIngress(new) /\ new.further = {}
          /\ Listed(new) = {UserBackend}
      BY <3>1, UserRuleFacts
    <3>3. ingresses' = [ingresses EXCEPT ![n] = new]
      BY <2>4
    <3> HIDE DEF new
    <3> QED BY <3>1, <3>2, <3>3
  <2> QED BY <2>1, <2>2, <2>3, <2>4
<1>6. CASE AddRule
  <2>1. PICK n \in IngressNames :
          /\ ingresses[n] # Absent
          /\ \/ ingresses' = [ingresses EXCEPT ![n].further = @ \cup {UserBackend}]
             \/ \E http \in BOOLEAN :
                  ingresses' = [ingresses EXCEPT ![n] =
                    UserRuleBefore(ingresses[n].further \cup Listed(ingresses[n]),
                                   ingresses[n].owners, ingresses[n].ann, http)]
    BY <1>6 DEF AddRule, Listed
  <2>2. CASE ingresses' = [ingresses EXCEPT ![n].further = @ \cup {UserBackend}]
    <3> DEFINE new == [ingresses[n] EXCEPT !.further = @ \cup {UserBackend}]
    <3>1. ingresses' = [ingresses EXCEPT ![n] = new]
      BY <2>2
    <3>2. /\ new \in Ingress /\ DistinctIngress(new)
          /\ Listed(new) = BackendsOf(n) /\ new.further = FurtherOf(n) \cup {UserBackend}
      BY <1>4, <2>1
    <3> HIDE DEF new
    <3> QED BY <3>1, <3>2
  <2>3. ASSUME NEW http \in BOOLEAN,
               ingresses' = [ingresses EXCEPT ![n] =
                 UserRuleBefore(ingresses[n].further \cup Listed(ingresses[n]),
                                ingresses[n].owners, ingresses[n].ann, http)]
        PROVE  \E new \in Ingress :
                 /\ ingresses' = [ingresses EXCEPT ![n] = new]
                 /\ DistinctIngress(new) /\ Listed(new) \in SUBSET {UserBackend}
                 /\ new.further = FurtherOf(n) \cup BackendsOf(n)
    <3>1. /\ ingresses[n].further \cup Listed(ingresses[n]) \in SUBSET Backend
          /\ ingresses[n].owners \in SUBSET Owner /\ ingresses[n].ann \in Annotations
      BY <1>2, <2>1, IngressFacts DEF Listed
    <3>2. ingresses[n].further \cup Listed(ingresses[n]) = FurtherOf(n) \cup BackendsOf(n)
      BY <1>2, <2>1
    <3> DEFINE rest == ingresses[n].further \cup Listed(ingresses[n])
               owners == ingresses[n].owners
               ann == ingresses[n].ann
               new == UserRuleBefore(rest, owners, ann, http)
    <3>3. /\ new \in Ingress /\ DistinctIngress(new) /\ new.further = rest
          /\ Listed(new) \in SUBSET {UserBackend}
      <4>1. rest \in SUBSET Backend /\ owners \in SUBSET Owner /\ ann \in Annotations
        BY <3>1
      <4> HIDE DEF rest, owners, ann
      <4>2. /\ new \in Ingress /\ DistinctIngress(new) /\ new.further = rest
            /\ Listed(new) = IF http THEN {UserBackend} ELSE {}
        BY <4>1, UserRuleFacts
      <4> HIDE DEF new
      <4> QED BY <4>2
    <3>4. ingresses' = [ingresses EXCEPT ![n] = new]
      BY <2>3
    <3>5. rest = FurtherOf(n) \cup BackendsOf(n)
      BY <3>2
    <3> HIDE DEF new, rest
    <3> QED BY <3>3, <3>4, <3>5
  <2> QED BY <2>1, <2>2, <2>3
<1> QED BY <1>5, <1>6

(* They keep the invariant.                                                 *)
LEMMA EditIngressInv ==
  ASSUME ControllerInv, EditIngress \/ AddRule
  PROVE  ControllerInv'
<1> USE DEF ControllerInv
<1>1. /\ UNCHANGED <<informerVars, asked, related, pc, call, life, faults, seen, cleanup>>
      /\ event' = event
      /\ edits' \in 0 .. MaxEdits /\ edits' = edits + 1 /\ edits \in Nat
  <2>1. /\ Edit("ingress") \/ Edit("rule")
        /\ UNCHANGED <<informerVars, asked, seen, cleanup>>
    BY DEF EditIngress, AddRule
  <2> QED BY <2>1, FaultsAssumption DEF Edit, processVars, informerVars, vars, loopVars,
             ControllerTypeOK, HandlersTypeOK
<1>2. ingresses' \in [IngressNames -> Ingress \cup {Absent}] /\ NoDuplicateBackend'
  <2>1. PICK n \in IngressNames, new \in Ingress \cup {Absent} :
          /\ ingresses' = [ingresses EXCEPT ![n] = new]
          /\ new # Absent => DistinctIngress(new)
    BY EditFacts
  <2> QED BY <2>1 DEF ControllerTypeOK, NoDuplicateBackend, DistinctIngress
<1>3. HandlersInv'
  BY <1>1, StrategyStepInv DEF HandlersInv, HandlersTypeOK
<1>4. ControllerTypeOK'
  BY <1>1, <1>2, <1>3 DEF HandlersInv, ControllerTypeOK
<1>5. CallInv'
  BY <1>1 DEF CallInv, ListsBackend
<1>6. CleanupInv'
  <2>1. cleanup.since \in Nat
    BY FaultsAssumption DEF ControllerTypeOK, CleanupStates
  <2> QED BY <1>1, <2>1 DEF CleanupInv
<1> QED BY <1>2, <1>3, <1>4, <1>5, <1>6

(* Every step of the controller and its environment keeps the invariant.    *)
LEMMA ControllerNextInv == ControllerInv /\ [ControllerNext]_controllerVars => ControllerInv'
<1>1. ASSUME ControllerInv, ControllerNext PROVE ControllerInv'
  BY <1>1, SharedStepInv, PatchStepInv, GetIngressInv, WriteIngressInv, DeleteIngressInv,
     CleanupStepInv, EditIngressInv DEF ControllerNext
<1>2. ASSUME ControllerInv, UNCHANGED controllerVars PROVE ControllerInv'
  <2>1. /\ UNCHANGED <<informerVars, related, pc, call, life, edits, faults, asked>>
        /\ UNCHANGED <<ingresses, seen, cleanup>>
    BY <1>2 DEF controllerVars, handlersVars, ingressVars, processVars, boundVars
  <2>2. HandlersInv'
    BY <1>2, <2>1, StrategyStepInv DEF ControllerInv, HandlersInv, HandlersTypeOK
  <2>3. event' = event
    BY <2>1 DEF informerVars, vars, loopVars
  <2> QED BY <1>2, <2>1, <2>2, <2>3 DEF ControllerInv, HandlersInv, ControllerTypeOK, CallInv,
                                  ListsBackend, NoDuplicateBackend, CleanupInv, IsGenerated
<1> QED BY <1>1, <1>2

-----------------------------------------------------------------------------
(* The inductive invariant of the composed system holds throughout.         *)
THEOREM ControllerInvariance == ControllerSpec => []ControllerInv
BY ControllerInitInv, ControllerNextInv, PTL DEF ControllerSpec

(* Every variable of the controller, the informer and the cluster keeps its *)
(* type: in particular Add and Remove find a service in the event where     *)
(* they read one.                                                           *)
THEOREM ControllerTypeCorrect == ControllerSpec => []ControllerTypeOK
<1>1. ControllerInv => ControllerTypeOK
  BY DEF ControllerInv
<1> QED BY <1>1, ControllerInvariance, PTL

(* No ingress lists a service twice, whatever is retried: Add's test and    *)
(* its write are two calls, and the resource version joins them.            *)
THEOREM NoDuplicates == ControllerSpec => []NoDuplicateBackend
<1>1. ControllerInv => NoDuplicateBackend
  BY DEF ControllerInv
<1> QED BY <1>1, ControllerInvariance, PTL

(* No change of a service is lost between the server and the store while    *)
(* the real handlers run.                                                   *)
THEOREM ControllerLosesNothing == ControllerSpec => []NoLostUpdate
<1>1. ControllerInit => LossInv
  <2> SUFFICES ASSUME ControllerInit PROVE LossInv
    OBVIOUS
  <2>1. svcs \in [Keys -> MaybeObj]
    BY HandlersInitInv DEF ControllerInit, HandlersInv, CoreInv, TypeOK
  <2> QED BY <2>1, InitInv DEF ControllerInit, HandlersInit, Init, IndInv
<1>2. ControllerInv /\ LossInv /\ [ControllerNext]_controllerVars => LossInv'
  <2> SUFFICES ASSUME ControllerInv, LossInv, [ControllerNext]_controllerVars PROVE InformerAction
    BY InformerActionInv DEF ControllerInv, HandlersInv
  <2>1. CASE HandlersNext
    BY <2>1, HandlersNextInforms DEF ControllerInv
  <2>2. CASE PatchService
    <3>1. HostOf[event.key] \in Urls /\ pc = "add"
      BY <2>2, NameFacts DEF PatchService, Annotate, Calling, ControllerInv, HandlersInv, EventInv,
         HandlerEvents, Urls
    <3> QED BY <2>2, <3>1, PatchInforms DEF PatchService, Annotate, ControllerInv
  <2>3. CASE UnpatchService
    BY <2>3, PatchInforms DEF UnpatchService, RemoveAnnotation, Calling, ControllerInv, Urls
  <2>4. CASE AddPanics \/ CrashProcess
    BY <2>4 DEF AddPanics, Panic, CrashProcess, Crash, InformerAction
  <2>5. CASE \/ GetIngress \/ WriteIngress \/ DeleteIngress \/ EditIngress \/ AddRule \/ CollectGarbage
             \/ CleanupList \/ CleanupDelete \/ CleanupReturn \/ UNCHANGED controllerVars
    BY <2>5 DEF GetIngress, WriteIngress, DeleteIngress, EditIngress, AddRule, CollectGarbage, CleanupList,
       CleanupDelete, CleanupReturn, controllerVars, handlersVars, informerVars, InformerAction
  <2> QED BY <2>1, <2>2, <2>3, <2>4, <2>5 DEF ControllerNext
<1>3. LossInv => NoLostUpdate
  BY DEF LossInv
<1> QED BY <1>1, <1>2, <1>3, ControllerInvariance, PTL DEF ControllerSpec

(* Add's write drops no owner that the ingress has at that moment, and no   *)
(* backend of the first rule, whoever wrote them.                           *)
THEOREM WritesPreserveBackends == ControllerSpec => BackendsPreserved
<1>1. ControllerInv /\ [ControllerNext]_controllerVars =>
        [\A n \in IngressNames :
           call = "write" /\ (call' = "patch" \/ pc' = "related") /\ ingresses[n] # Absent =>
             /\ ingresses'[n] # Absent
             /\ \A b \in Backend : Has(ingresses[n].paths, b) => Has(ingresses'[n].paths, b)
             /\ ingresses[n].owners \subseteq ingresses'[n].owners]_controllerVars
  <2> SUFFICES ASSUME ControllerInv, ControllerNext, NEW n \in IngressNames,
                      call = "write", call' = "patch" \/ pc' = "related", ingresses[n] # Absent
               PROVE  /\ ingresses'[n] # Absent
                      /\ \A b \in Backend :
                           Has(ingresses[n].paths, b) => Has(ingresses'[n].paths, b)
                      /\ ingresses[n].owners \subseteq ingresses'[n].owners
    OBVIOUS
  <2>1. pc = "add"
    BY DEF ControllerInv, CallInv
  <2>2. WriteIngress
    <3>1. ~ (HandlersNext /\ UNCHANGED ingressVars)
      BY <2>1, HandlersNextFrame DEF ControllerInv
    <3>2. ~ (GetIngress \/ AddPanics \/ PatchService \/ DeleteIngress \/ UnpatchService)
      BY DEF GetIngress, AddPanics, PatchService, DeleteIngress, UnpatchService, Annotate,
             RemoveAnnotation, Calling
    <3>3. ~ CrashProcess
      BY DEF CrashProcess, Crash
    <3>4. ~ (CleanupList \/ CleanupDelete \/ CleanupReturn \/ EditIngress \/ AddRule
             \/ CollectGarbage)
      BY <2>1 DEF CleanupList, CleanupDelete, CleanupReturn, EditIngress, AddRule, CollectGarbage, Edit,
             processVars, handlersVars
    <3> QED BY <3>1, <3>2, <3>3, <3>4 DEF ControllerNext
  <2> DEFINE k == event.key
             new == ExposedIngress(k, event.new, seen)
  <2>3. /\ AddName[k] \in IngressNames
        /\ \/ ingresses' = ingresses
           \/ /\ ingresses[AddName[k]] = seen
              /\ ingresses' = [ingresses EXCEPT ![AddName[k]] = new]
              /\ new # Absent
              /\ seen # Absent =>
                   /\ \A b \in Backend : Has(seen.paths, b) => Has(new.paths, b)
                   /\ seen.owners \subseteq new.owners
    BY <2>2, WriteIngressFacts, ExposedIngressFacts, IngressAssumption
  <2> HIDE DEF new, k
  <2>4. \/ ingresses'[n] = ingresses[n]
        \/ n = AddName[k] /\ ingresses'[n] = new /\ ingresses[n] = seen /\ ingresses' # ingresses
    BY <2>3 DEF ControllerInv, ControllerTypeOK
  <2> QED BY <2>3, <2>4
<1> QED BY <1>1, ControllerInvariance, PTL DEF ControllerSpec, BackendsPreserved

(* --cleanup deletes generated ingresses only, whatever the controller and  *)
(* the garbage collector do between its list and its deletes.               *)
THEOREM CleanupSparesOthers == ControllerSpec => CleanupSpares
<1>1. ControllerInv /\ [ControllerNext]_controllerVars =>
        [\A n \in cleanup.todo \ cleanup'.todo :
           cleanup'.at = "deleting" /\ cleanup.since = edits =>
             ingresses[n] # Absent /\ ingresses[n].ann = "generated"]_controllerVars
  <2> SUFFICES ASSUME ControllerInv, ControllerNext, NEW n \in cleanup.todo, n \notin cleanup'.todo,
                      cleanup'.at = "deleting", cleanup.since = edits
               PROVE  IsGenerated(ingresses[n])
    BY DEF IsGenerated
  <2>1. cleanup \in CleanupStates
    BY DEF ControllerInv, ControllerTypeOK
  <2>2. CASE CleanupList
    BY <2>2 DEF CleanupList, ControllerInv, CleanupInv
  <2>3. CASE CleanupDelete
    <3>1. PICK m \in cleanup.todo :
            /\ cleanup.at = "deleting"
            /\ \/ ingresses[m] # Absent /\ cleanup' = [cleanup EXCEPT !.todo = @ \ {m}]
               \/ cleanup' = [cleanup EXCEPT !.at = "fatal", !.todo = {}]
      BY <2>3 DEF CleanupDelete
    <3>2. n = m /\ ingresses[m] # Absent
      BY <2>1, <3>1 DEF CleanupStates
    <3> QED BY <3>1, <3>2 DEF ControllerInv, CleanupInv
  <2>4. CASE ~ (CleanupList \/ CleanupDelete)
    <3>1. cleanup'.todo = cleanup.todo
      BY <2>1, <2>4 DEF ControllerNext, ingressVars, GetIngress, AddPanics, WriteIngress,
             PatchService, DeleteIngress, UnpatchService, CrashProcess, CleanupReturn,
             EditIngress, AddRule, CollectGarbage, CleanupStates
    <3> QED BY <3>1
  <2> QED BY <2>2, <2>3, <2>4
<1> QED BY <1>1, ControllerInvariance, PTL DEF ControllerSpec, CleanupSpares

-----------------------------------------------------------------------------
(* The refinement.                                                          *)

AbstractBackends == [n \in IngressNames |-> BackendsOf(n)]
AbstractOverlooked == [n \in IngressNames |-> FurtherOf(n)]

(* What changing one ingress does to the abstract backends.                 *)
LEMMA OneIngress ==
  ASSUME ControllerTypeOK, NEW n \in IngressNames, NEW ing \in Ingress \cup {Absent},
         ingresses' = [ingresses EXCEPT ![n] = ing]
  PROVE  /\ AbstractBackends' = [AbstractBackends EXCEPT ![n] =
                                   IF ing = Absent THEN {} ELSE Listed(ing)]
         /\ AbstractOverlooked' = [AbstractOverlooked EXCEPT ![n] =
                                     IF ing = Absent THEN {} ELSE ing.further]
<1>1. ingresses'[n] = ing /\ \A m \in IngressNames \ {n} : ingresses'[m] = ingresses[m]
  BY DEF ControllerTypeOK
<1>2. BackendsOf(n)' = (IF ing = Absent THEN {} ELSE Listed(ing))
  <2>1. CASE ing = Absent
    BY <1>1, <2>1 DEF BackendsOf
  <2>2. CASE ing # Absent
    BY <1>1, <2>2, PathsAreListed DEF BackendsOf
  <2> QED BY <2>1, <2>2
<1>3. FurtherOf(n)' = (IF ing = Absent THEN {} ELSE ing.further)
  BY <1>1 DEF FurtherOf
<1>4. \A m \in IngressNames \ {n} : BackendsOf(m)' = BackendsOf(m) /\ FurtherOf(m)' = FurtherOf(m)
  BY <1>1 DEF BackendsOf, FurtherOf
<1> QED BY <1>2, <1>3, <1>4 DEF AbstractBackends, AbstractOverlooked

(* Without a change of an ingress the abstract backends stay.               *)
LEMMA SameIngresses ==
  ASSUME ingresses' = ingresses
  PROVE  UNCHANGED <<AbstractBackends, AbstractOverlooked>>
BY DEF AbstractBackends, AbstractOverlooked, BackendsOf, FurtherOf

(* A deletion withdraws, and keeps everybody else's backends.               *)
LEMMA DeletionWithdraws ==
  ASSUME ControllerTypeOK, NEW n \in IngressNames,
         ingresses' = [ingresses EXCEPT ![n] = Absent], asked' = asked
  PROVE  Abstract!Next
<1>1. /\ AbstractBackends' = [AbstractBackends EXCEPT ![n] = {}]
      /\ AbstractOverlooked' = [AbstractOverlooked EXCEPT ![n] = {}]
  BY OneIngress
<1> QED BY <1>1 DEF Abstract!Next, Abstract!Withdraw, AbstractBackends, AbstractOverlooked

(* Add's write is Expose: the service has asked, no backend of the rule it  *)
(* reads is touched, and the other rules go.                                *)
LEMMA WriteExposes ==
  ASSUME ControllerInv, WriteIngress
  PROVE  Abstract!Next \/ UNCHANGED <<asked, AbstractBackends, AbstractOverlooked>>
<1> DEFINE k == event.key
           n == AddName[k]
           new == ExposedIngress(k, event.new, seen)
<1>1. k \in Keys /\ n \in IngressNames /\ k \in asked /\ asked' = asked
  BY WriteIngressFacts
<1>2. CASE ingresses' = ingresses
  BY <1>1, <1>2, SameIngresses
<1>3. CASE ingresses[n] = seen /\ ingresses' = [ingresses EXCEPT ![n] = new] /\ ingresses' # ingresses
  <2>1. /\ new \in Ingress /\ new # Absent /\ new.further = {}
        /\ \A b \in Backend : Has(new.paths, b) <=> b = k \/ (seen # Absent /\ Has(seen.paths, b))
    BY <1>3, WriteIngressFacts, ExposedIngressFacts, IngressAssumption
  <2> HIDE DEF new
  <2>2. Listed(new) = BackendsOf(n) \cup {k}
    <3>1. CASE seen = Absent
      BY <1>1, <1>3, <2>1, <3>1 DEF BackendsOf, Backend, Listed
    <3>2. CASE seen # Absent
      BY <1>1, <1>3, <2>1, <3>2, BackendsAreListed DEF Backend, Listed, ControllerInv
    <3> QED BY <3>1, <3>2
  <2>3. /\ AbstractBackends' = [AbstractBackends EXCEPT ![n] = BackendsOf(n) \cup {k}]
        /\ AbstractOverlooked' = [AbstractOverlooked EXCEPT ![n] = {}]
    <3>1. /\ AbstractBackends' = [AbstractBackends EXCEPT ![n] =
                                    IF new = Absent THEN {} ELSE Listed(new)]
          /\ AbstractOverlooked' = [AbstractOverlooked EXCEPT ![n] =
                                      IF new = Absent THEN {} ELSE new.further]
      <4>1. n \in IngressNames /\ new \in Ingress /\ ControllerTypeOK
            /\ ingresses' = [ingresses EXCEPT ![n] = new]
        BY <1>1, <1>3, <2>1 DEF ControllerInv
      <4> HIDE DEF n
      <4> QED BY <4>1, OneIngress
    <3> QED BY <2>1, <2>2, <3>1
  <2>4. AbstractBackends' = [AbstractBackends EXCEPT ![n] = @ \cup {k}]
    BY <1>1, <2>3 DEF AbstractBackends
  <2> QED BY <1>1, <2>3, <2>4
          DEF Abstract!Next, Abstract!Expose, AbstractBackends, AbstractOverlooked
<1> QED BY <1>2, <1>3, WriteIngressFacts

(* A user's edit of an ingress interferes or withdraws.                     *)
LEMMA EditInterferes ==
  ASSUME ControllerInv, EditIngress \/ AddRule
  PROVE  Abstract!Next
<1>1. asked' = asked
  BY DEF EditIngress, AddRule
<1>2. PICK n \in IngressNames, new \in Ingress \cup {Absent} :
        /\ ingresses' = [ingresses EXCEPT ![n] = new]
        /\ new # Absent =>
             \/ /\ Listed(new) = BackendsOf(n) \cup {UserBackend}
                /\ new.further = FurtherOf(n)
             \/ /\ Listed(new) = BackendsOf(n)
                /\ new.further = FurtherOf(n) \cup {UserBackend}
             \/ /\ Listed(new) \in SUBSET {UserBackend}
                /\ new.further = FurtherOf(n) \cup BackendsOf(n)
  BY EditFacts
<1>3. CASE new = Absent
  BY <1>1, <1>2, <1>3, DeletionWithdraws DEF ControllerInv
<1>4. CASE new # Absent
  <2>1. /\ AbstractBackends' = [AbstractBackends EXCEPT ![n] = Listed(new)]
        /\ AbstractOverlooked' = [AbstractOverlooked EXCEPT ![n] = new.further]
    BY <1>2, <1>4, OneIngress DEF ControllerInv
  <2>2. AbstractBackends[n] = BackendsOf(n) /\ AbstractOverlooked[n] = FurtherOf(n)
    BY DEF AbstractBackends, AbstractOverlooked
  <2>3. /\ AbstractBackends = [AbstractBackends EXCEPT ![n] = AbstractBackends[n]]
        /\ AbstractOverlooked = [AbstractOverlooked EXCEPT ![n] = AbstractOverlooked[n]]
    BY DEF AbstractBackends, AbstractOverlooked
  <2>4. \/ /\ AbstractBackends' = [AbstractBackends EXCEPT ![n] = @ \cup {UserBackend}]
           /\ AbstractOverlooked' = AbstractOverlooked
        \/ /\ AbstractOverlooked' = [AbstractOverlooked EXCEPT ![n] = @ \cup {UserBackend}]
           /\ AbstractBackends' = AbstractBackends
        \/ /\ \E S \in SUBSET {UserBackend} :
                AbstractBackends' = [AbstractBackends EXCEPT ![n] = S]
           /\ AbstractOverlooked' =
                [AbstractOverlooked EXCEPT ![n] = @ \cup AbstractBackends[n]]
    BY <1>2, <1>4, <2>1, <2>2, <2>3
  <2> QED BY <1>1, <2>4
          DEF Abstract!Next, Abstract!Interfere, AbstractBackends, AbstractOverlooked
<1> QED BY <1>3, <1>4

(* Every step maps to a step of the abstract specification or to none.      *)
LEMMA StepRefines ==
  ASSUME ControllerInv, ControllerNext
  PROVE  Abstract!Next \/ UNCHANGED <<asked, AbstractBackends, AbstractOverlooked>>
<1> USE DEF ControllerInv
<1>1. CASE HandlersNext /\ UNCHANGED ingressVars
  <2>1. UNCHANGED <<AbstractBackends, AbstractOverlooked>>
    BY <1>1, SameIngresses DEF ingressVars
  <2>2. CASE CreateService \/ DeleteService \/ MarkService
    <3>1. \E k \in Keys : asked' = asked \cup {k} \/ asked' = asked
      BY <2>2 DEF CreateService, DeleteService, MarkService, UserWrites
    <3> QED BY <2>1, <3>1 DEF Abstract!Next, Abstract!Ask, AbstractBackends, AbstractOverlooked
  <2>3. CASE ~ (CreateService \/ DeleteService \/ MarkService)
    <3>1. asked' = asked
      BY <1>1, <2>3 DEF HandlersNext, ListServices, ReplaceServices, WatchServices, BreakWatch,
           ResyncServices, PopService, InformerStep, Dispatch, UpdateRelatedResources,
           RelatedPanics, HandlerDone, Tick, Exit
    <3> QED BY <2>1, <3>1
  <2> QED BY <2>2, <2>3
<1>2. CASE WriteIngress
  BY <1>2, WriteExposes
<1>3. CASE EditIngress \/ AddRule
  BY <1>3, EditInterferes
<1>4. CASE DeleteIngress
  <2>1. asked' = asked
    BY <1>4 DEF DeleteIngress, StrategyFrame
  <2> QED BY <1>4, <2>1, DeleteIngressFacts, DeletionWithdraws, SameIngresses
<1>5. CASE CleanupDelete \/ CollectGarbage
  <2>1. asked' = asked /\ cleanup.todo \subseteq IngressNames
    BY <1>5 DEF CleanupDelete, CollectGarbage, handlersVars, ControllerTypeOK, CleanupStates
  <2>2. \/ ingresses' = ingresses
        \/ \E n \in IngressNames : ingresses' = [ingresses EXCEPT ![n] = Absent]
    BY <1>5, <2>1 DEF CleanupDelete, CollectGarbage
  <2> QED BY <2>1, <2>2, DeletionWithdraws, SameIngresses
<1>6. CASE GetIngress \/ AddPanics \/ PatchService \/ UnpatchService \/ CrashProcess
           \/ CleanupList \/ CleanupReturn
  <2>1. asked' = asked /\ ingresses' = ingresses
    BY <1>6 DEF GetIngress, AddPanics, PatchService, UnpatchService, CrashProcess, CleanupList,
         CleanupReturn, Annotate, RemoveAnnotation, Crash, StrategyFrame, ingressVars,
         handlersVars
  <2> QED BY <2>1, SameIngresses
<1> QED BY <1>1, <1>2, <1>3, <1>4, <1>5, <1>6 DEF ControllerNext

(* The controller implements Exposure: it makes a service a backend of an   *)
(* ingress only after the owner asked for it, and takes no other backend    *)
(* out of the rule it reads; the other rules go with the write.             *)
THEOREM ExposureRefinement == ControllerSpec => ImplementsExposure
<1>1. ControllerInit => Abstract!Init
  <2> SUFFICES ASSUME ControllerInit PROVE Abstract!Init
    OBVIOUS
  <2>1. asked \in SUBSET Keys
    BY DEF ControllerInit, HandlersInit
  <2>2. \A n \in IngressNames : BackendsOf(n) = {} /\ FurtherOf(n) = {}
    BY DEF ControllerInit, BackendsOf, FurtherOf
  <2> QED BY <2>1, <2>2 DEF Abstract!Init
<1>2. ControllerInv /\ [ControllerNext]_controllerVars =>
        [Abstract!Next]_<<asked, [n \in IngressNames |-> BackendsOf(n)],
                          [n \in IngressNames |-> FurtherOf(n)]>>
  <2>1. ASSUME UNCHANGED controllerVars
        PROVE  UNCHANGED <<asked, AbstractBackends, AbstractOverlooked>>
    BY <2>1, SameIngresses DEF controllerVars, handlersVars, ingressVars
  <2> QED BY <2>1, StepRefines DEF AbstractBackends, AbstractOverlooked
<1> QED BY <1>1, <1>2, ControllerInvariance, PTL DEF ControllerSpec, ImplementsExposure, Abstract!Spec
=============================================================================
