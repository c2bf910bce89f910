--------------------------- MODULE EventHandlers ---------------------------
(***************************************************************************)
(* The part of the controller every strategy shares: the event handlers of *)
(* NewController, driven by ServiceInformer, updateRelatedResources, the   *)
(* patches of the exposeUrl annotation, the process with its crashes and   *)
(* its one-shot ticker, and the users who write services.                  *)
(*                                                                         *)
(* pc says what the running handler is in: Add or Remove of the strategy   *)
(* ("add", "remove"), updateRelatedResources ("related"), or its return    *)
(* ("done").  The modules of the strategies add the steps of Add and       *)
(* Remove, one per API call, and keep in call which one is next.           *)
(***************************************************************************)
EXTENDS ServiceInformer

CONSTANTS
  Hosts,                \* what an exposed URL names: a host with its port or path
  NoUrl,                \* the service has no exposeUrl annotation
  Specs,                \* the rest of a service that a strategy reads
  Services,             \* Config.Services, the white-list; {} allows every service
  OneShot,              \* whether the process may run without --daemon
  Faults,               \* what may go wrong: calls that fail, "crash"
  MaxFaults,            \* how often it may
  UserOps,              \* what users do
  UserMarks,            \* the marks they use
  UserSpecs,            \* the services they write
  MaxEdits              \* how often they do

Marks == {"none", "expose", "inject"}
Urls == Hosts \cup {NoUrl}

(* A service, as far as the controller tells services apart: Obj.           *)
ServiceObj == [uid : 0 .. MaxEdits, mark : Marks, url : Urls, spec : Specs]

ASSUME ServiceAssumption == Obj = ServiceObj /\ HandlersMayPanic
ASSUME SetsAssumption == Services \subseteq Keys /\ UserSpecs \subseteq Specs /\ NoUrl \notin Hosts
ASSUME FaultsAssumption == /\ Faults \subseteq {"get", "write", "patch", "delete", "panic", "crash"}
                           /\ UserOps \subseteq {"create", "delete", "mark", "spec",
                                                 "ingress", "rule", "route", "cleanup"}
                           /\ UserMarks \subseteq Marks
                           /\ OneShot \in BOOLEAN
                           /\ MaxFaults \in Nat /\ MaxEdits \in Nat

VARIABLES
  related,              \* the URL last written to a service's related resources
  pc,                   \* what the running handler is in
  call,                 \* the call of Add or Remove that is next
  life,                 \* "running", "quitting" (quit is closed) or "exited"
  edits, faults,        \* how many user operations and faults there were
  asked                 \* history: white-listed services that were marked at some time

informerVars == vars
processVars == <<pc, call, life>>
boundVars == <<edits, faults>>
handlersVars == <<informerVars, related, processVars, boundVars, asked>>

HandlersTypeOK ==
  /\ TypeOK
  /\ related \in [Keys -> Urls]
  /\ pc \in {"idle", "add", "related", "remove", "done"}
  /\ call \in {"start", "write", "create", "update", "delete", "patch"}
  /\ life \in {"running", "quitting", "exited"}
  /\ edits \in 0 .. MaxEdits
  /\ faults \in 0 .. MaxFaults
  /\ asked \in SUBSET Keys

IsServiceWhitelisted(k) == Services = {} \/ k \in Services

(* The mark a service needs to be exposed, and the one whose loss           *)
(* UpdateFunc notices: for fabric8.io/inject it looks at the new object.    *)
Marked(svc) == svc.mark \in {"expose", "inject"}
WasMarked(old, svc) == old.mark = "expose" \/ svc.mark = "inject"

Asks(k, o) == o \in Obj /\ Marked(o) /\ IsServiceWhitelisted(k)

InitialServices == {Absent} \cup [uid : {0}, mark : UserMarks, url : {NoUrl}, spec : UserSpecs]

HandlersInit ==
  /\ ProcessInit
  /\ svcs \in [Keys -> InitialServices]
  /\ related = [k \in Keys |-> NoUrl]
  /\ pc = "idle"
  /\ call = "start"
  /\ life = "running"
  /\ edits = 0
  /\ faults = 0
  /\ asked = {k \in Keys : Asks(k, svcs[k])}

Running == life # "exited"

Fault(f) ==
  /\ f \in Faults
  /\ faults < MaxFaults
  /\ faults' = faults + 1

-----------------------------------------------------------------------------
(* The event handlers.                                                      *)

(* Mutant: UpdateFunc does not compare with the old service.                *)
HandlerOfNoUnexpose(e) ==
  IF e.new \notin Deletions /\ Marked(e.new) /\ IsServiceWhitelisted(e.key)
  THEN "add" ELSE "done"

(* Mutant: UpdateFunc acts only on a service that was not marked before.    *)
HandlerOfOnTransition(e) ==
  IF ~ IsServiceWhitelisted(e.key) \/ e.new = Deleted THEN "done"
  ELSE IF e.new = FinalStateUnknown THEN "remove"
  ELSE IF Marked(e.new) /\ (e.old = Absent \/ ~ Marked(e.old)) THEN "add"
  ELSE IF ~ Marked(e.new) /\ e.old # Absent /\ WasMarked(e.old, e.new) THEN "remove"
  ELSE "done"

(* Mutant: AddFunc exposes services that ask for nothing.                   *)
HandlerOfUnasked(e) ==
  IF ~ IsServiceWhitelisted(e.key) \/ e.new \in Deletions THEN "done" ELSE "add"

(* AddFunc (old is Absent), UpdateFunc and DeleteFunc: what is called first. *)
HandlerOf(e) ==
  IF ~ IsServiceWhitelisted(e.key) \/ e.new = Deleted THEN "done"
  ELSE IF e.new = FinalStateUnknown THEN "remove"
  ELSE IF Marked(e.new) THEN "add"
  ELSE IF e.old # Absent /\ WasMarked(e.old, e.new) THEN "remove"
  ELSE "done"

Dispatch ==
  /\ Running
  /\ pc = "idle"
  /\ ProcessDelta
  /\ pc' = HandlerOf(event')
  /\ UNCHANGED <<related, call, life, boundVars, asked>>

HandlerDone ==
  /\ Running
  /\ pc = "done"
  /\ HandlerReturn
  /\ pc' = "idle"
  /\ UNCHANGED <<related, call, life, boundVars, asked>>

(* A panic: the handler ends, and with it the loop's turn.                  *)
Panic ==
  /\ HandlerPanic
  /\ pc' = "idle"
  /\ call' = "start"

(* updateRelatedResources uses the URL of the callback's copy, which Add    *)
(* did not annotate.                                                        *)
UpdateRelatedResources ==
  /\ Running
  /\ pc = "related"
  /\ related' = [related EXCEPT ![event.key] =
                   IF event.new.url = NoUrl THEN @ ELSE event.new.url]
  /\ pc' = "done"
  /\ UNCHANGED <<informerVars, call, life, boundVars, asked>>

(* It panics while the service's ConfigMap has no data (GetPanics in        *)
(* RelatedResources).                                                       *)
RelatedPanics ==
  /\ Running
  /\ pc = "related"
  /\ Fault("panic")
  /\ Panic
  /\ UNCHANGED <<related, life, edits, asked>>

-----------------------------------------------------------------------------
(* What the strategies share.                                               *)

(* A step of Add or Remove, at the named call, that stays in the handler.   *)
Calling(p, c) == Running /\ pc = p /\ call = c

Continue(c) == call' = c /\ UNCHANGED pc

(* Add and Remove return: an error is logged, and after Add the handler     *)
(* goes on to updateRelatedResources either way.                            *)
Return == call' = "start" /\ pc' = IF pc = "add" THEN "related" ELSE "done"

(* A service that is gone answers NotFound; an equal annotation is no write. *)
PatchChanges(k, url) == svcs[k] # Absent /\ svcs[k].url # url

(* createPatch compares the callback's own copy of the service with its     *)
(* annotated clone; nothing is sent when they are equal.  The patch holds   *)
(* the annotation only, and Add or Remove ends with it.                     *)
Patch(url) ==
  LET k == event.key IN
    \/ /\ event.new.url # url
       /\ PatchChanges(k, url)
       /\ ServerWrite(k, [svcs[k] EXCEPT !.url = url])
       /\ UNCHANGED faults
    \/ /\ event.new.url = url \/ ~ PatchChanges(k, url)
       /\ UNCHANGED <<informerVars, faults>>
    \/ /\ event.new.url # url
       /\ Fault("patch")
       /\ UNCHANGED informerVars

Annotate(url) ==
  /\ Calling("add", "patch")
  /\ Patch(url)
  /\ Return
  /\ UNCHANGED <<related, life, edits, asked>>


RemoveAnnotation ==
  /\ Calling("remove", "patch")
  /\ Patch(NoUrl)
  /\ Return
  /\ UNCHANGED <<related, life, edits, asked>>

(* What a step of a strategy leaves alone.                                  *)
StrategyFrame == UNCHANGED <<related, life, edits, asked>>

-----------------------------------------------------------------------------
(* The informer's own goroutines.                                           *)

InformerStep(A) ==
  /\ Running
  /\ A
  /\ UNCHANGED <<related, processVars, boundVars, asked>>

ListServices == InformerStep(List)
ReplaceServices == InformerStep(Replace)
WatchServices == InformerStep(WatchEvent)
BreakWatch == InformerStep(WatchBreak)
ResyncServices == InformerStep(Resync)
PopService == InformerStep(Pop)

-----------------------------------------------------------------------------
(* The process: a crash and restart, and the one-shot ticker, which closes  *)
(* quit when Hasrun answers true; then main returns whatever is under way.  *)

Crash ==
  /\ Running
  /\ Fault("crash")
  /\ Restart
  /\ pc' = "idle"
  /\ call' = "start"
  /\ UNCHANGED <<related, life, edits, asked>>

(* Mutant: Hasrun does not wait for the lock.                               *)
TickUnlocked ==
  /\ OneShot
  /\ life = "running"
  /\ populated /\ initialPopulationCount = 0
  /\ life' = "quitting"
  /\ UNCHANGED <<informerVars, related, pc, call, boundVars, asked>>

Tick ==
  /\ OneShot
  /\ life = "running"
  /\ HasSynced
  /\ life' = "quitting"
  /\ UNCHANGED <<informerVars, related, pc, call, boundVars, asked>>

Exit ==
  /\ life = "quitting"
  /\ life' = "exited"
  /\ UNCHANGED <<informerVars, related, pc, call, boundVars, asked>>

-----------------------------------------------------------------------------
(* Users.                                                                   *)

Edit(op) ==
  /\ op \in UserOps
  /\ edits < MaxEdits
  /\ edits' = edits + 1
  /\ UNCHANGED <<related, processVars, faults>>

UserWrites(op, k, svc) ==
  /\ Edit(op)
  /\ Len(watchBuf) < MaxWatch
  /\ ServerWrite(k, svc)
  /\ asked' = IF Asks(k, svc) THEN asked \cup {k} ELSE asked

CreateService ==
  \E k \in Keys, m \in UserMarks, s \in UserSpecs :
    /\ svcs[k] = Absent
    /\ UserWrites("create", k, [uid |-> edits + 1, mark |-> m, url |-> NoUrl, spec |-> s])

DeleteService ==
  \E k \in Keys :
    /\ svcs[k] # Absent
    /\ UserWrites("delete", k, Absent)

MarkService ==
  \E k \in Keys, m \in UserMarks :
    /\ svcs[k] # Absent
    /\ UserWrites("mark", k, [svcs[k] EXCEPT !.mark = m])

-----------------------------------------------------------------------------
(* Everything but the crash, of which a strategy forgets what it has read.  *)
HandlersNext ==
  \/ ListServices \/ ReplaceServices \/ WatchServices \/ BreakWatch
  \/ ResyncServices \/ PopService
  \/ Dispatch \/ UpdateRelatedResources \/ RelatedPanics \/ HandlerDone
  \/ Tick \/ Exit
  \/ CreateService \/ DeleteService \/ MarkService

(* The handlers make progress; the goroutines that need the queue's lock,   *)
(* which is free again and again, get it.                                   *)
HandlersFairness ==
  /\ WF_handlersVars(ListServices)
  /\ SF_handlersVars(ReplaceServices)
  /\ SF_handlersVars(WatchServices)
  /\ SF_handlersVars(ResyncServices)
  /\ SF_handlersVars(PopService)
  /\ WF_handlersVars(Dispatch)
  /\ WF_handlersVars(UpdateRelatedResources)
  /\ WF_handlersVars(HandlerDone)
=============================================================================
