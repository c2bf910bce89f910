------------------------- MODULE IngressController -------------------------
(***************************************************************************)
(* The expose controller with the ingress strategy: the event handlers of  *)
(* EventHandlers and the API calls that IngressStrategy.Add and Remove     *)
(* make, one action per call, because users, the garbage collector, a run  *)
(* of exposecontroller --cleanup and a crash can come between two of them. *)
(*                                                                         *)
(* What the annotations and labels of a service select (names of the       *)
(* ingress, host, path) is given per service by CONSTANTS; the mark that   *)
(* asks for exposure and the exposeUrl annotation change.  A backend of an *)
(* ingress, a service name with its path, is the service's key.  Add reads *)
(* the first rule of an ingress only, and writes an ingress of one rule.   *)
(***************************************************************************)
EXTENDS EventHandlers

CONSTANTS
  IngressNames,         \* names of ingress objects
  AddName,              \* ingress name Add uses: ingress.name or the trimmed service name
  TrimmedName,          \* service name without its release prefix: what Remove uses
  OwnName,              \* the service's own name
  HostOf,               \* host name of the rule and of the exposed URL
  UserBackend,          \* a backend written by a user
  UserHost,             \* the host of an ingress written by a user
  Filtered              \* ingress names that contain --cleanup's --filter

Owner == [key : Keys, uid : 0 .. MaxEdits]
Backend == Keys \cup {UserBackend}
Annotations == {"nil", "user", "generated"}

ASSUME NamesAssumption == /\ AddName \in [Keys -> IngressNames]
                          /\ TrimmedName \in [Keys -> IngressNames]
                          /\ OwnName \in [Keys -> IngressNames]
                          /\ HostOf \in [Keys -> Hosts]
                          /\ Filtered \subseteq IngressNames
ASSUME IngressSetsAssumption == /\ UserBackend \notin Keys
                                /\ UserHost \in Hosts
                                /\ Specs = {"ports", "portless", "malformed"}

VARIABLES
  ingresses,            \* the ingress objects in the API server
  seen,                 \* the ingress Add's Get returned
  cleanup               \* the --cleanup process: where it is, the names it has still to
                        \* delete, and the number of edits when it made its list

ingressVars == <<ingresses, seen, cleanup>>
controllerVars == <<handlersVars, ingressVars>>

(* The first rule (its host, whether it has an HTTP part, and the paths of  *)
(* that), the backends of the further rules, the owners, the annotations.   *)
Ingress == [host : Hosts, http : BOOLEAN, paths : Seq(Backend), further : SUBSET Backend,
            owners : SUBSET Owner, ann : Annotations]

ASSUME IngressAssumption == Absent \notin Ingress

CleanupStates == [at : {"off", "deleting", "done", "fatal"},
                  todo : SUBSET IngressNames, since : 0 .. MaxEdits]

ControllerTypeOK ==
  /\ HandlersTypeOK
  /\ ingresses \in [IngressNames -> Ingress \cup {Absent}]
  /\ seen \in Ingress \cup {Absent}
  /\ cleanup \in CleanupStates

ControllerInit ==
  /\ HandlersInit
  /\ ingresses = [n \in IngressNames |-> Absent]
  /\ seen = Absent
  /\ cleanup = [at |-> "off", todo |-> {}, since |-> 0]

-----------------------------------------------------------------------------
(* IngressStrategy.Add.                                                     *)

(* Mutant: the backend is not looked for.                                   *)
ListsBackendNever(ing, k) == FALSE

ListsBackend(ing, k) == ing # Absent /\ Has(ing.paths, k)

(* Rules[0].HTTP is followed without a look at it.                          *)
Readable(ing) == ing # Absent => ing.http

(* Add panics on a line of fabric8.io/ingress.annotations without a colon,  *)
(* on a first rule without HTTP part, and, once it knows that the backend   *)
(* is new, on svc.Spec.Ports[0] of a service without ports.                 *)
PanicsOn(k, svc, ing) ==
  \/ svc.spec = "malformed"
  \/ ~ Readable(ing)
  \/ svc.spec = "portless" /\ ~ ListsBackend(ing, k)

GetIngress ==
  /\ Calling("add", "start")
  /\ LET ing == ingresses[AddName[event.key]] IN
       \/ /\ Fault("get")
          /\ Return
          /\ UNCHANGED seen
       \/ /\ ~ PanicsOn(event.key, event.new, ing)
          /\ ListsBackend(ing, event.key)
          /\ Return
          /\ UNCHANGED <<seen, faults>>
       \/ /\ ~ PanicsOn(event.key, event.new, ing)
          /\ ~ ListsBackend(ing, event.key)
          /\ seen' = ing
          /\ Continue("write")
          /\ UNCHANGED faults
  /\ UNCHANGED <<informerVars, ingresses, cleanup>>
  /\ StrategyFrame

AddPanics ==
  /\ Calling("add", "start")
  /\ PanicsOn(event.key, event.new, ingresses[AddName[event.key]])
  /\ Panic
  /\ UNCHANGED <<ingressVars, faults>>
  /\ StrategyFrame

(* The ingress Add writes: the new path in front of those of the first      *)
(* rule, in the one rule that is left, which has this service's host, the   *)
(* service among the owners, and the generated-by mark where there were no  *)
(* annotations.                                                             *)
ExposedIngress(k, svc, ing) ==
  LET base == IF ing # Absent THEN ing ELSE [paths |-> <<>>, owners |-> {}, ann |-> "nil"]
  IN [host |-> HostOf[k],
      http |-> TRUE,
      paths |-> <<k>> \o base.paths,
      further |-> {},
      owners |-> base.owners \cup {[key |-> k, uid |-> svc.uid]},
      ann |-> IF base.ann = "nil" THEN "generated" ELSE base.ann]

(* Mutant: Update without the resource version, so that it never conflicts. *)
AcceptedAlways(name) == seen = Absent => ingresses[name] = Absent

(* Create answers AlreadyExists, Update answers NotFound or Conflict, when  *)
(* the object is no longer the one Get returned.  An object that was        *)
(* changed and is equal again has another resource version; that its update *)
(* is refused too is a fault of "write".                                    *)
Accepted(name) == ingresses[name] = seen

WriteIngress ==
  /\ Calling("add", "write")
  /\ LET k == event.key
         n == AddName[k]
     IN \/ /\ Fault("write")
           /\ Return
           /\ UNCHANGED ingresses
        \/ /\ ~ Accepted(n)
           /\ Return
           /\ UNCHANGED <<ingresses, faults>>
        \/ /\ Accepted(n)
           /\ ingresses' = [ingresses EXCEPT ![n] = ExposedIngress(k, event.new, seen)]
           /\ \/ Continue("patch") /\ UNCHANGED faults
              \/ Return /\ Fault("write")    \* applied, but the answer is lost
  /\ seen' = Absent
  /\ UNCHANGED <<informerVars, cleanup>>
  /\ StrategyFrame

PatchService == Annotate(HostOf[event.key]) /\ UNCHANGED ingressVars

-----------------------------------------------------------------------------
(* IngressStrategy.Remove.  DeleteFunc passes a service with nothing but    *)
(* its name.                                                                *)

RemoveName(e) == IF e.new = FinalStateUnknown THEN OwnName[e.key] ELSE TrimmedName[e.key]

DeleteIngress ==
  /\ Calling("remove", "start")
  /\ \/ /\ Fault("delete")
        /\ Return
        /\ UNCHANGED ingresses
     \/ /\ ingresses' = [ingresses EXCEPT ![RemoveName(event)] = Absent]
        /\ IF event.new = FinalStateUnknown THEN Return ELSE Continue("patch")
        /\ UNCHANGED faults
  /\ UNCHANGED <<informerVars, seen, cleanup>>
  /\ StrategyFrame

UnpatchService == RemoveAnnotation /\ UNCHANGED ingressVars

-----------------------------------------------------------------------------
(* A run of exposecontroller --cleanup, a process of its own: it lists the  *)
(* ingresses and deletes the generated ones.  Any error ends it, also the   *)
(* NotFound of an ingress that somebody else has deleted meanwhile.         *)

(* Mutant: the generated-by annotation is not looked at.                    *)
IsGeneratedAny(ing) == ing # Absent

IsGenerated(ing) == ing # Absent /\ ing.ann = "generated"

CleanupList ==
  /\ cleanup.at = "off"
  /\ Edit("cleanup")
  /\ cleanup' = [at |-> "deleting",
                 todo |-> {n \in Filtered : IsGenerated(ingresses[n])},
                 since |-> edits + 1]
  /\ UNCHANGED <<informerVars, asked, ingresses, seen>>

CleanupDelete ==
  \E n \in cleanup.todo :
    /\ cleanup.at = "deleting"
    /\ \/ /\ ingresses[n] # Absent
          /\ ingresses' = [ingresses EXCEPT ![n] = Absent]
          /\ cleanup' = [cleanup EXCEPT !.todo = @ \ {n}]
          /\ UNCHANGED faults
       \/ /\ ingresses[n] = Absent
          /\ cleanup' = [cleanup EXCEPT !.at = "fatal", !.todo = {}]
          /\ UNCHANGED <<ingresses, faults>>
       \/ /\ Fault("delete")
          /\ cleanup' = [cleanup EXCEPT !.at = "fatal", !.todo = {}]
          /\ UNCHANGED ingresses
    /\ UNCHANGED <<informerVars, related, processVars, edits, asked, seen>>

CleanupReturn ==
  /\ cleanup.at = "deleting"
  /\ cleanup.todo = {}
  /\ cleanup' = [cleanup EXCEPT !.at = "done"]
  /\ UNCHANGED <<handlersVars, ingresses, seen>>

-----------------------------------------------------------------------------
(* Users and the garbage collector.                                         *)

(* An ingress with a rule of the user's, which may have no HTTP part, in    *)
(* front of others.                                                         *)
UserRuleBefore(further, owners, ann, http) ==
  [host |-> UserHost, http |-> http, paths |-> IF http THEN <<UserBackend>> ELSE <<>>,
   further |-> further, owners |-> owners, ann |-> ann]

(* A user adds a backend to the first rule of an ingress, makes an ingress  *)
(* of their own, or deletes one.                                            *)
EditIngress ==
  \E n \in IngressNames :
    /\ Edit("ingress")
    /\ \/ /\ ingresses[n] # Absent
          /\ ingresses[n].http
          /\ ~ Has(ingresses[n].paths, UserBackend)
          /\ ingresses' = [ingresses EXCEPT ![n].paths = Append(@, UserBackend)]
       \/ /\ ingresses[n] # Absent
          /\ ingresses' = [ingresses EXCEPT ![n] = Absent]
       \/ /\ ingresses[n] = Absent
          /\ \E a \in {"nil", "user"} :
               ingresses' = [ingresses EXCEPT ![n] = UserRuleBefore({}, {}, a, TRUE)]
    /\ UNCHANGED <<informerVars, asked, seen, cleanup>>

(* A user adds a rule to an ingress, behind the others or in front of them. *)
AddRule ==
  \E n \in IngressNames :
    /\ Edit("rule")
    /\ ingresses[n] # Absent
    /\ LET ing == ingresses[n] IN
         \/ ingresses' = [ingresses EXCEPT ![n].further = @ \cup {UserBackend}]
         \/ \E http \in BOOLEAN :
              ingresses' = [ingresses EXCEPT ![n] =
                UserRuleBefore(ing.further \cup {b \in Backend : Has(ing.paths, b)},
                               ing.owners, ing.ann, http)]
    /\ UNCHANGED <<informerVars, asked, seen, cleanup>>

Alive(o) == svcs[o.key] # Absent /\ svcs[o.key].uid = o.uid

(* Kubernetes deletes an object all of whose owners are gone.               *)
CollectGarbage ==
  \E n \in IngressNames :
    /\ ingresses[n] # Absent
    /\ ingresses[n].owners # {}
    /\ \A o \in ingresses[n].owners : ~ Alive(o)
    /\ ingresses' = [ingresses EXCEPT ![n] = Absent]
    /\ UNCHANGED <<handlersVars, seen, cleanup>>

CrashProcess == Crash /\ seen' = Absent /\ UNCHANGED <<ingresses, cleanup>>

-----------------------------------------------------------------------------
ControllerNext ==
  \/ HandlersNext /\ UNCHANGED ingressVars
  \/ GetIngress \/ AddPanics \/ WriteIngress \/ PatchService
  \/ DeleteIngress \/ UnpatchService
  \/ CrashProcess
  \/ CleanupList \/ CleanupDelete \/ CleanupReturn
  \/ EditIngress \/ AddRule \/ CollectGarbage

ControllerSpec == ControllerInit /\ [][ControllerNext]_controllerVars

(* Add and Remove, the garbage collector and a --cleanup make progress.     *)
ControllerFairness ==
  /\ HandlersFairness
  /\ WF_controllerVars(GetIngress \/ AddPanics \/ WriteIngress \/ PatchService)
  /\ WF_controllerVars(DeleteIngress \/ UnpatchService)
  /\ WF_controllerVars(CollectGarbage)
  /\ WF_controllerVars(CleanupDelete \/ CleanupReturn)

FairControllerSpec == ControllerSpec /\ ControllerFairness

-----------------------------------------------------------------------------
Exposable(k) ==
  /\ svcs[k] # Absent
  /\ Marked(svcs[k])
  /\ IsServiceWhitelisted(k)
  /\ svcs[k].spec = "ports"

Exposed(k) == ListsBackend(ingresses[AddName[k]], k)

(* No ingress lists a backend twice in a rule, or a service in two rules,   *)
(* whatever is retried after an error, a crash, a resync or a user's edit   *)
(* between Add's Get and its write.                                         *)
NoDuplicateBackend ==
  \A n \in IngressNames :
    ingresses[n] # Absent =>
      /\ Distinct(ingresses[n].paths)
      /\ \A k \in Keys \cap ingresses[n].further : ~ Has(ingresses[n].paths, k)

(* Add's write keeps every owner, and every backend of the first rule, that *)
(* the ingress has at that moment, those a user wrote between Add's Get and *)
(* its write included.  The backends of further rules it does not keep.     *)
BackendsPreserved ==
  [][\A n \in IngressNames :
       call = "write" /\ (call' = "patch" \/ pc' = "related") /\ ingresses[n] # Absent =>
         /\ ingresses'[n] # Absent
         /\ \A b \in Backend : Has(ingresses[n].paths, b) => Has(ingresses'[n].paths, b)
         /\ ingresses[n].owners \subseteq ingresses'[n].owners]_controllerVars

(* The backends of every ingress, as the abstract specification sees them:  *)
(* those of the first rule, which Add reads, and those of the further ones. *)
BackendsOf(n) ==
  IF ingresses[n] = Absent THEN {}
  ELSE LET paths == ingresses[n].paths IN {paths[i] : i \in 1 .. Len(paths)}

FurtherOf(n) == IF ingresses[n] = Absent THEN {} ELSE ingresses[n].further

Abstract == INSTANCE Exposure WITH
  Clients <- Keys, Places <- IngressNames, Foreign <- UserBackend,
  backends <- [n \in IngressNames |-> BackendsOf(n)],
  overlooked <- [n \in IngressNames |-> FurtherOf(n)]

(* The controller brings a service into an ingress only when its owner      *)
(* asked for it, one at a time; it takes no backend out of the rule it      *)
(* reads, and drops the other rules only when it brings one in.             *)
ImplementsExposure == Abstract!Spec

(* --cleanup deletes an ingress only when it carries the generated-by mark, *)
(* whatever the controller and the garbage collector do between its list    *)
(* and its deletes, unless a user replaced the ingress meanwhile.           *)
CleanupSpares ==
  [][\A n \in cleanup.todo \ cleanup'.todo :
       cleanup'.at = "deleting" /\ cleanup.since = edits =>
         ingresses[n] # Absent /\ ingresses[n].ann = "generated"]_controllerVars

(* Add can work for the service: its ingress is not one that makes it panic. *)
Addable(k) == Exposable(k) /\ Readable(ingresses[AddName[k]])

(* A service that stays marked ends up in its ingress for good, even when   *)
(* calls failed, the process crashed, or its ingress was deleted by a user  *)
(* or by --cleanup, or collected, or a user put a rule in front of it.      *)
ExposedEventually ==
  \A k \in Keys : <>[](Addable(k) /\ k \notin stale) => <>[]Exposed(k)

(* The exposed URL reaches the ConfigMaps and OAuth clients of a service    *)
(* whose annotation stays.                                                  *)
RelatedEventually ==
  \A k \in Keys, u \in Hosts :
    <>[](Addable(k) /\ svcs[k].url = u /\ k \notin stale) => <>[](related[k] = u)

(* A service whose expose mark is taken away leaves all rules of its        *)
(* ingress, in a process that neither crashes nor has a call fail:          *)
(* UpdateFunc acts on the change of the mark, so a Remove that fails is not *)
(* tried again.  Remove does not read fabric8.io/ingress.name: a service    *)
(* that has it (AddName is not TrimmedName) stays in the ingress of that    *)
(* name, and one marked by fabric8.io/inject stays too.                     *)
UnexposedEventually ==
  \A k \in Keys :
    /\ AddName[k] = TrimmedName[k]
    /\ <>[](svcs[k] # Absent /\ svcs[k].mark = "none" /\ k \notin stale /\ faults = 0)
    => <>[](k \notin BackendsOf(AddName[k]) \cup FurtherOf(AddName[k]))

(* Once users stop (MaxEdits), the controller's own patches come to an end  *)
(* too, and the informer's store ends up with the services of the server,   *)
(* whatever watches broke, unless a race keeps hitting a key.               *)
StoreConverges ==
  \A k \in Keys : <>[](k \notin stale) => <>[](known[k] = svcs[k])

(* The README's "annotation that gets applied to the Service": a service    *)
(* that stays exposed is annotated with its URL.                            *)
AnnotatedEventually ==
  \A k \in Keys :
    <>[](Addable(k) /\ k \notin stale) => <>[](svcs[k] # Absent => svcs[k].url = HostOf[k])

(* A one-shot run that ends has exposed every service that was there when   *)
(* it started, with its URL, when nobody changed anything meanwhile: the    *)
(* ticker does not end the process while the first list is being handled.   *)
(* It starts in a cluster without ingresses: after a run that died between  *)
(* its write and its patch, Add's early return leaves the URL out.          *)
OneShotExposes ==
  life = "exited" /\ edits = 0 /\ faults = 0 =>
    \A k \in Keys : Exposable(k) => Exposed(k) /\ svcs[k].url = HostOf[k]
=============================================================================
