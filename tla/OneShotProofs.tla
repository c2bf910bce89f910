--------------------------- MODULE OneShotProofs ---------------------------
(***************************************************************************)
(* The proof that a one-shot run which ends has exposed every service that *)
(* was there when it started, with its URL, for every set of services,     *)
(* ingress names and hosts.  As long as nobody edits anything and no call  *)
(* fails (edits and faults are zero), the invariant QuietInv holds.        *)
(***************************************************************************)
EXTENDS IngressControllerProofs

(* A copy of a service differs from the server's at most in an annotation   *)
(* that it does not have yet.                                               *)
Copy(k, o) ==
  /\ svcs[k] # Absent
  /\ o.uid = svcs[k].uid /\ o.mark = svcs[k].mark /\ o.spec = svcs[k].spec
  /\ o.url = HostOf[k] => svcs[k].url = HostOf[k]

CopiesInv ==
  /\ \A k \in Keys, o \in Obj : HoldsCopy(k, o) => Copy(k, o)
  /\ pc # "idle" => event.key = popKey /\ event.new \in Obj /\ Copy(event.key, event.new)

(* No deletion is on its way to the handlers.                               *)
StreamInv ==
  /\ \A k \in Keys, d \in Deletions : ~ Has(items[k], d)
  /\ \A d \in Deletions : ~ Has(popDeltas, d)
  /\ \A i \in 1 .. Len(watchBuf) : watchBuf[i].obj # Absent
  /\ rpc = "replace" => \A k \in Keys : listed[k] = Absent => svcs[k] = Absent

(* Nobody deletes an ingress: not Remove, not --cleanup, and not the        *)
(* garbage collector; and Add can read every ingress there is.              *)
ClusterInv ==
  /\ pc # "remove" /\ cleanup.at = "off"
  /\ \A n \in IngressNames : ingresses[n] # Absent => \A o \in ingresses[n].owners : Alive(o)
  /\ \A n \in IngressNames : Readable(ingresses[n])

(* What Add has achieved so far for the service of its event, and that      *)
(* every exposed service but that one is annotated.                         *)
AddInv ==
  /\ pc = "add" /\ call = "write" => ingresses[AddName[event.key]] = seen
  /\ pc = "add" /\ call = "patch" => Exposed(event.key)
  /\ pc \in {"related", "done"} /\ Exposable(event.key) => Exposed(event.key)
  /\ \A k \in Keys : Exposed(k) => \/ svcs[k].url = HostOf[k]
                                   \/ pc = "add" /\ call = "patch" /\ event.key = k

(* Who is not among the services still to be handled has been exposed.      *)
HandledInv ==
  /\ rpc = "watch" => populated
  /\ life # "running" => populated /\ unhandled = {}
  /\ populated => \A k \in Keys \ unhandled :
                    Exposable(k) => Exposed(k) /\ svcs[k].url = HostOf[k]

QuietInv == CopiesInv /\ StreamInv /\ ClusterInv /\ AddInv /\ HandledInv

OneShotInv == edits = 0 /\ faults = 0 => QuietInv

-----------------------------------------------------------------------------
(* The initial states.                                                      *)
LEMMA QuietInit == ControllerInit => QuietInv
<1> SUFFICES ASSUME ControllerInit PROVE QuietInv
  OBVIOUS
<1>1. svcs \in [Keys -> InitialServices] /\ ProcessInit
  BY DEF ControllerInit, HandlersInit
<1>2. CopiesInv
  <2>1. \A k \in Keys, o \in Obj : HoldsCopy(k, o) => svcs[k] = o
    BY <1>1, ObjFacts DEF ProcessInit, HoldsCopy, Has
  <2>2. pc = "idle"
    BY DEF ControllerInit, HandlersInit
  <2> QED BY <2>1, <2>2, ObjFacts DEF CopiesInv, Copy
<1>3. StreamInv
  BY <1>1 DEF StreamInv, ProcessInit, Has
<1>4. ClusterInv
  BY DEF ControllerInit, HandlersInit, ClusterInv, Readable
<1>5. AddInv
  BY NameFacts DEF ControllerInit, HandlersInit, AddInv, Exposed, ListsBackend
<1>6. HandledInv
  BY <1>1 DEF ControllerInit, HandlersInit, HandledInv, ProcessInit
<1> QED BY <1>2, <1>3, <1>4, <1>5, <1>6 DEF QuietInv

-----------------------------------------------------------------------------
(* The informer's steps.                                                    *)


(* A sequence that grows by an object holds no deletion if it held none.    *)
LEMMA AppendNoDeletion ==
  ASSUME NEW s \in Seq(Delta), NEW o \in Obj, \A d \in Deletions : ~ Has(s, d)
  PROVE  \A d \in Deletions : ~ Has(Append(s, o), d)
<1> SUFFICES ASSUME NEW d \in Deletions, Has(Append(s, o), d) PROVE FALSE
  OBVIOUS
<1>1. o \in Delta /\ o # d
  BY ObjFacts
<1> QED BY <1>1, AppendHolds

(* A list answers with the services there are.                              *)
LEMMA ReplaceStream ==
  ASSUME CoreInv, CopiesInv, StreamInv, Replace
  PROVE  StreamInv'
<1> USE DEF CoreInv
<1>1. /\ UNCHANGED <<svcs, watchBuf, known, popKey, popDeltas>>
      /\ items' = ReplaceItems /\ rpc = "replace" /\ rpc' = "watch"
  BY DEF Replace, serverVars, loopVars
<1>2. ASSUME NEW k \in Keys PROVE \A d \in Deletions : ~ Has(items'[k], d)
  <2>1. items[k] \in Seq(Delta) /\ \A d \in Deletions : ~ Has(items[k], d)
    BY DEF TypeOK, StreamInv
  <2>2. CASE k \in ListedKeys
    <3>1. listed[k] \in Obj
      BY <2>2 DEF ListedKeys, TypeOK, MaybeObj
    <3>2. items'[k] \in {items[k], Append(items[k], listed[k])}
      BY <1>1, <2>2 DEF ReplaceItems, AppendSync
    <3> QED BY <2>1, <3>1, <3>2, AppendNoDeletion
  <2>3. CASE k \notin ListedKeys
    <3>1. svcs[k] = Absent
      BY <1>1, <2>3 DEF ListedKeys, StreamInv
    <3>2. known[k] = Absent
      BY <3>1 DEF CopiesInv, Copy, HoldsCopy, TypeOK, MaybeObj
    <3>3. items'[k] = items[k]
      BY <1>1, <2>3, <3>2 DEF ReplaceItems, GoneKeys
    <3> QED BY <2>1, <3>3
  <2> QED BY <2>2, <2>3
<1> QED BY <1>1, <1>2 DEF StreamInv

(* A watch event brings an object.                                          *)
LEMMA WatchStream ==
  ASSUME CoreInv, StreamInv, WatchEvent
  PROVE  StreamInv'
<1> USE DEF CoreInv
<1> DEFINE h == Head(watchBuf).key
           n == Head(watchBuf).obj
<1>1. /\ UNCHANGED <<svcs, rpc, listed, popKey, popDeltas>>
      /\ watchBuf # <<>> /\ watchBuf' = Tail(watchBuf)
      /\ n # Absent => items' = [items EXCEPT ![h] = Append(items[h], n)]
  BY DEF WatchEvent, Enqueue, serverVars, loopVars
<1>2. watchBuf \in Seq(WatchEvents) /\ Head(watchBuf) \in WatchEvents
  BY <1>1, HeadTailProperties DEF TypeOK
<1>3. /\ 1 \in 1 .. Len(watchBuf) /\ Head(watchBuf) = watchBuf[1]
      /\ \A i \in 1 .. Len(watchBuf') : i + 1 \in 1 .. Len(watchBuf) /\ watchBuf'[i] = watchBuf[i + 1]
  BY <1>1, <1>2, TailHolds
<1>4. h \in Keys /\ n \in Obj
  BY <1>2, <1>3 DEF WatchEvents, MaybeObj, StreamInv
<1>5. items' = [items EXCEPT ![h] = Append(items[h], n)]
  BY <1>1, <1>4, ObjFacts
<1> HIDE DEF h, n
<1>6. ASSUME NEW k \in Keys PROVE \A d \in Deletions : ~ Has(items'[k], d)
  <2>1. items \in [Keys -> Seq(Delta)] /\ \A d \in Deletions : ~ Has(items[k], d)
    BY DEF TypeOK, StreamInv
  <2>2. items'[k] = IF k = h THEN Append(items[k], n) ELSE items[k]
    BY <1>4, <1>5, <2>1
  <2> QED BY <1>4, <2>1, <2>2, AppendNoDeletion
<1>7. \A i \in 1 .. Len(watchBuf') : watchBuf'[i].obj # Absent
  BY <1>3 DEF StreamInv
<1> QED BY <1>1, <1>6, <1>7 DEF StreamInv

(* Resync brings what the store holds.                                      *)
LEMMA ResyncStream ==
  ASSUME CoreInv, StreamInv, Resync
  PROVE  StreamInv'
<1> USE DEF CoreInv
<1>1. /\ UNCHANGED <<svcs, rpc, listed, watchBuf, known, popKey, popDeltas>>
      /\ items' = [h \in Keys |-> IF h \in StoredKeys THEN AppendSync(h, known[h]) ELSE items[h]]
  BY DEF Resync, serverVars, reflectorVars, loopVars
<1>2. ASSUME NEW k \in Keys PROVE \A d \in Deletions : ~ Has(items'[k], d)
  <2>1. items[k] \in Seq(Delta) /\ \A d \in Deletions : ~ Has(items[k], d)
    BY DEF TypeOK, StreamInv
  <2>2. k \in StoredKeys => known[k] \in Obj
    BY DEF StoredKeys, TypeOK, MaybeObj
  <2>3. items'[k] = items[k] \/ (k \in StoredKeys /\ items'[k] = Append(items[k], known[k]))
    BY <1>1 DEF AppendSync
  <2> QED BY <2>1, <2>2, <2>3, AppendNoDeletion
<1> QED BY <1>1, <1>2 DEF StreamInv

(* The deltas of a key are handed to the loop, and worked off.              *)
LEMMA LoopStream ==
  ASSUME CoreInv, StreamInv, Pop \/ ProcessDelta \/ HandlerReturn \/ HandlerPanic
  PROVE  StreamInv'
<1> USE DEF CoreInv
<1>1. UNCHANGED <<svcs, rpc, listed, watchBuf>>
  BY DEF Pop, ProcessDelta, HandlerReturn, HandlerPanic, serverVars, reflectorVars
<1>2. CASE Pop
  <2>1. /\ queue \in Seq(Keys) /\ queue # <<>> /\ items \in [Keys -> Seq(Delta)]
        /\ popDeltas' = items[Head(queue)] /\ items' = [items EXCEPT ![Head(queue)] = <<>>]
    BY <1>2 DEF Pop, TypeOK
  <2>2. Head(queue) \in Keys
    BY <2>1, HeadTailProperties
  <2>3. \A k \in Keys : items'[k] \in {items[k], <<>>}
    BY <2>1, <2>2
  <2> QED BY <1>1, <2>1, <2>2, <2>3 DEF StreamInv, Has
<1>3. CASE ProcessDelta
  <2>1. /\ popDeltas \in Seq(Delta) /\ popDeltas # <<>> /\ popDeltas' = Tail(popDeltas)
        /\ items' = items
    BY <1>3 DEF ProcessDelta, TypeOK, fifoVars
  <2>2. \A i \in 1 .. Len(popDeltas') :
          i + 1 \in 1 .. Len(popDeltas) /\ popDeltas'[i] = popDeltas[i + 1]
    BY <2>1, TailHolds
  <2> QED BY <1>1, <2>1, <2>2 DEF StreamInv, Has
<1>4. CASE HandlerReturn \/ HandlerPanic
  <2>1. items' = items /\ popDeltas' \in {popDeltas, <<>>}
    BY <1>4 DEF HandlerReturn, HandlerPanic, Release, fifoVars
  <2> QED BY <1>1, <2>1 DEF StreamInv, Has
<1> QED BY <1>2, <1>3, <1>4

(* A step of the reflector or of the resync timer, or a Pop.                *)
LEMMA QuietInformer ==
  ASSUME ControllerInv, QuietInv, UNCHANGED ingressVars,
         ListServices \/ ReplaceServices \/ WatchServices \/ BreakWatch
         \/ ResyncServices \/ PopService
  PROVE  QuietInv'
<1> USE DEF QuietInv
<1>1. CoreInv /\ HandlersInv /\ UNCHANGED <<ingresses, seen, cleanup>>
  BY DEF ControllerInv, HandlersInv, ingressVars
<1>2. /\ event' = event /\ UNCHANGED <<pc, call, life>>
      /\ List \/ Replace \/ WatchEvent \/ WatchBreak \/ Resync \/ Pop
  BY <1>1, InformerStepInv DEF ListServices, ReplaceServices, WatchServices, BreakWatch,
     ResyncServices, PopService, InformerStep, processVars
<1>3. svcs' = svcs
  BY <1>2 DEF List, Replace, WatchEvent, WatchBreak, Resync, Pop, serverVars
<1>4. pc # "idle" => popKey' = popKey
  <2>1. pc # "idle" => popKey # None
    BY <1>1, NoEventAssumption DEF HandlersInv, EventInv, CoreInv, LockInv
  <2> QED BY <1>2, <2>1 DEF List, Replace, WatchEvent, WatchBreak, Resync, Pop, Unlocked, loopVars
<1>5. CopiesInv'
  <2>1. \A k \in Keys, o \in Obj : HoldsCopy(k, o)' => HoldsCopy(k, o)
    BY <1>1, <1>2, ListCopies, ReplaceCopies, WatchCopies, DroppedCopies, ResyncCopies, PopCopies
  <2>2. \A k, o : Copy(k, o)' <=> Copy(k, o)
    BY <1>3 DEF Copy
  <2> QED BY <1>2, <1>4, <2>1, <2>2 DEF CopiesInv
<1>6. StreamInv'
  <2>1. CASE List \/ WatchBreak
    BY <1>3, <2>1 DEF List, WatchBreak, StreamInv, fifoVars, loopVars
  <2> QED BY <1>1, <1>2, <2>1, ReplaceStream, WatchStream, ResyncStream, LoopStream
<1>7. ClusterInv' /\ AddInv'
  BY <1>1, <1>2, <1>3 DEF ClusterInv, AddInv, Alive, Exposed, Exposable
<1>8. HandledInv'
  <2>1. \A k : (Exposable(k)' <=> Exposable(k)) /\ (Exposed(k)' <=> Exposed(k))
    BY <1>1, <1>3 DEF Exposable, Exposed
  <2>2. CASE Replace /\ ~ populated
    <3>1. /\ rpc = "replace" /\ rpc' = "watch" /\ populated' /\ unhandled' = ListedKeys
          /\ life' = "running"
      BY <1>1, <1>2, <2>2 DEF Replace, HandledInv
    <3>2. \A k \in Keys \ unhandled' : ~ Exposable(k)
      BY <3>1 DEF ListedKeys, StreamInv, Exposable
    <3> QED BY <2>1, <3>1, <3>2 DEF HandledInv
  <2>3. CASE ~ (Replace /\ ~ populated)
    <3>1. /\ rpc' = "watch" => populated'
          /\ populated' = populated /\ unhandled' = unhandled
      BY <1>2, <2>3 DEF List, Replace, WatchEvent, WatchBreak, Resync, Pop, HandledInv,
         reflectorVars, fifoVars, historyVars
    <3> QED BY <1>2, <1>3, <2>1, <3>1 DEF HandledInv
  <2> QED BY <2>2, <2>3
<1> QED BY <1>5, <1>6, <1>7, <1>8

-----------------------------------------------------------------------------
(* The handlers' steps.                                                     *)

(* A callback starts, of a copy: Add or nothing, and nothing only for a     *)
(* service that asks for nothing.                                           *)
LEMMA QuietDispatch ==
  ASSUME ControllerInv, QuietInv, UNCHANGED ingressVars, Dispatch
  PROVE  QuietInv'
<1> USE DEF QuietInv
<1>1. CoreInv /\ UNCHANGED <<ingresses, seen, cleanup>>
  BY DEF ControllerInv, HandlersInv, ingressVars
<1>2. /\ ProcessDelta /\ pc = "idle" /\ pc' = HandlerOf(event') /\ UNCHANGED <<call, life>>
      /\ event' = [key |-> popKey, old |-> known[popKey], new |-> Head(popDeltas)]
      /\ UNCHANGED <<svcs, rpc, populated, unhandled, popKey>>
  BY DEF Dispatch, ProcessDelta, serverVars, reflectorVars, fifoVars, historyVars
<1>3. call = "start"
  BY <1>2 DEF ControllerInv, CallInv
<1> DEFINE new == Head(popDeltas)
<1>4. popDeltas \in Seq(Delta) /\ popDeltas # <<>> /\ popKey \in Keys
  BY <1>1, <1>2, KeysAssumption DEF CoreInv, LockInv, TypeOK, ProcessDelta
<1>5. new \in Delta /\ Has(popDeltas, new)
  BY <1>4, TailHolds, ElementOfSeq DEF Has
<1>6. new \in Obj /\ new \notin Deletions
  BY <1>5 DEF StreamInv, Delta
<1>7. HoldsCopy(popKey, new)
  BY <1>5 DEF HoldsCopy
<1>8. Copy(popKey, new)
  BY <1>4, <1>6, <1>7 DEF CopiesInv
<1>9. known[popKey] # Absent => Copy(popKey, known[popKey])
  BY <1>1, <1>4 DEF CopiesInv, HoldsCopy, CoreInv, TypeOK, MaybeObj
<1> HIDE DEF new
<1>10. new # Deleted /\ new # FinalStateUnknown
  BY <1>6 DEF Deletions
<1>11. pc' \in {"add", "done"} /\ (pc' = "done" => ~ Exposable(popKey))
  <2>1. event'.key = popKey /\ event'.new = new /\ event'.old = known[popKey]
    BY <1>2 DEF new
  <2>2. known[popKey] # Absent => known[popKey].mark = new.mark
    BY <1>8, <1>9 DEF Copy
  <2>3. svcs[popKey].mark = new.mark
    BY <1>8 DEF Copy
  <2> QED BY <1>2, <1>10, <2>1, <2>2, <2>3 DEF HandlerOf, WasMarked, Marked, Exposable
<1>12. CopiesInv'
  <2>1. \A k \in Keys, o \in Obj : HoldsCopy(k, o)' => HoldsCopy(k, o)
    BY <1>1, <1>2, ProcessDeltaCopies
  <2>2. \A k, o : Copy(k, o)' <=> Copy(k, o)
    BY <1>2 DEF Copy
  <2>3. event'.key = popKey' /\ event'.new = new
    BY <1>2 DEF new
  <2>4. event'.new \in Obj /\ Copy(event.key, event.new)'
    BY <1>2, <1>6, <1>8, <2>3 DEF Copy
  <2> QED BY <2>1, <2>2, <2>3, <2>4 DEF CopiesInv
<1>13. StreamInv'
  BY <1>1, <1>2, LoopStream
<1>14. ClusterInv'
  BY <1>1, <1>2, <1>11 DEF ClusterInv, Alive
<1>15. AddInv'
  <2>1. \A k : (Exposable(k)' <=> Exposable(k)) /\ (Exposed(k)' <=> Exposed(k))
    BY <1>1, <1>2 DEF Exposable, Exposed
  <2>2. call' = "start" /\ event'.key = popKey
    BY <1>2, <1>3
  <2>3. ~ (pc' \in {"related", "done"} /\ Exposable(event.key)')
    BY <1>2, <1>11, <2>2 DEF Exposable
  <2>4. \A k \in Keys : Exposed(k)' => svcs'[k].url = HostOf[k]
    BY <1>2, <2>1 DEF AddInv
  <2> QED BY <2>2, <2>3, <2>4 DEF AddInv
<1>16. HandledInv'
  BY <1>1, <1>2 DEF HandledInv, Exposable, Exposed
<1> QED BY <1>12, <1>13, <1>14, <1>15, <1>16

(* updateRelatedResources, the ticker and the end of main.  The ticker asks *)
(* HasSynced, which waits for the handlers of the first list.               *)
LEMMA QuietLife ==
  ASSUME ControllerInv, QuietInv, UNCHANGED ingressVars,
         UpdateRelatedResources \/ Tick \/ Exit
  PROVE  QuietInv'
<1> USE DEF QuietInv
<1>1. CoreInv /\ UNCHANGED <<ingresses, seen, cleanup, vars, call>>
  BY DEF ControllerInv, HandlersInv, ingressVars, UpdateRelatedResources, Tick, Exit, informerVars
<1>2. UNCHANGED <<svcs, rpc, listed, watchBuf, items, populated, known, popKey, popDeltas,
                  event, unhandled>>
  BY <1>1 DEF vars, serverVars, reflectorVars, fifoVars, loopVars, historyVars
<1>3. \/ pc = "related" /\ pc' = "done" /\ life' = life
      \/ pc' = pc /\ (life' # "running" => life # "running" \/ HasSynced)
  BY DEF UpdateRelatedResources, Tick, Exit
<1>4. HasSynced => populated /\ unhandled = {}
  <2> SUFFICES ASSUME HasSynced PROVE unhandled = {} /\ populated
    OBVIOUS
  <2>1. \A k \in unhandled : k \in Keys /\ k # popKey
    BY <1>1, KeysAssumption DEF CoreInv, TypeOK, HasSynced, Unlocked
  <2>2. \A k \in unhandled : \E i \in 1 .. 0 : queue[i] = k
    BY <1>1, <2>1 DEF CoreInv, CountInv, HasSynced
  <2> QED BY <2>2 DEF HasSynced
<1>5. CopiesInv'
  <2>1. \A k \in Keys, o \in Obj : HoldsCopy(k, o)' => HoldsCopy(k, o)
    BY <1>1, DroppedCopies
  <2>2. \A k, o : Copy(k, o)' <=> Copy(k, o)
    BY <1>2 DEF Copy
  <2> QED BY <1>2, <1>3, <2>1, <2>2 DEF CopiesInv
<1>6. StreamInv'
  BY <1>2 DEF StreamInv
<1>7. ClusterInv' /\ AddInv'
  BY <1>1, <1>2, <1>3 DEF ClusterInv, AddInv, Alive, Exposed, Exposable
<1>8. HandledInv'
  BY <1>1, <1>2, <1>3, <1>4 DEF HandledInv, Exposed, Exposable
<1> QED BY <1>5, <1>6, <1>7, <1>8

(* A handler ends: by its return, after Add has exposed a service that asks *)
(* for it, or by a panic, on a service that cannot be exposed: every        *)
(* ingress can be read.                                                     *)
LEMMA QuietEnd ==
  ASSUME ControllerInv, QuietInv, UNCHANGED ingressVars, HandlerDone \/ AddPanics
  PROVE  QuietInv'
<1> USE DEF QuietInv
<1>1. CoreInv /\ UNCHANGED <<ingresses, seen, cleanup>>
  BY DEF ControllerInv, HandlersInv, ingressVars
<1>2. /\ HandlerReturn \/ HandlerPanic
      /\ pc # "idle" /\ pc' = "idle" /\ life' = life /\ call' \in {call, "start"}
  BY DEF HandlerDone, AddPanics, Panic, Calling, StrategyFrame
<1>3. /\ UNCHANGED <<svcs, rpc, populated>>
      /\ unhandled' \in {unhandled, unhandled \ {popKey}}
  BY <1>2 DEF HandlerReturn, HandlerPanic, Release, serverVars, reflectorVars, fifoVars
<1>4. event.key = popKey /\ Copy(event.key, event.new)
  BY <1>2 DEF CopiesInv
<1>5. Exposable(popKey) => Exposed(popKey) /\ pc = "done"
  <2>1. CASE HandlerDone
    BY <1>4, <2>1 DEF HandlerDone, AddInv
  <2>2. CASE AddPanics
    <3>1. event.key \in Keys /\ AddName[event.key] \in IngressNames
      BY <1>2, NameFacts DEF ControllerInv, HandlersInv, EventInv, HandlerEvents
    <3>2. Readable(ingresses[AddName[event.key]])
      BY <3>1 DEF ClusterInv
    <3> QED BY <1>4, <2>2, <3>2 DEF AddPanics, PanicsOn, Copy, Exposable
  <2> QED BY <2>1, <2>2
<1>6. CopiesInv'
  <2>1. \A k \in Keys, o \in Obj : HoldsCopy(k, o)' => HoldsCopy(k, o)
    BY <1>1, <1>2, DroppedCopies
  <2>2. \A k, o : Copy(k, o)' <=> Copy(k, o)
    BY <1>3 DEF Copy
  <2> QED BY <1>2, <2>1, <2>2 DEF CopiesInv
<1>7. StreamInv'
  BY <1>1, <1>2, LoopStream
<1>8. ClusterInv'
  BY <1>1, <1>2, <1>3 DEF ClusterInv, Alive
<1>9. call = "patch" => pc # "add"
  BY DEF HandlerDone, AddPanics, Calling
<1>10. \A k : (Exposable(k)' <=> Exposable(k)) /\ (Exposed(k)' <=> Exposed(k))
  BY <1>1, <1>3 DEF Exposable, Exposed
<1>11. \A k \in Keys : Exposed(k) => svcs[k].url = HostOf[k]
  BY <1>9 DEF AddInv
<1>12. AddInv'
  BY <1>2, <1>3, <1>10, <1>11 DEF AddInv
<1>13. HandledInv'
  BY <1>2, <1>3, <1>5, <1>10, <1>11 DEF HandledInv
<1> QED BY <1>6, <1>7, <1>8, <1>12, <1>13

-----------------------------------------------------------------------------
(* The calls of Add.                                                        *)

(* Get, which does not fail.                                                *)
LEMMA QuietGet ==
  ASSUME ControllerInv, QuietInv, GetIngress, faults' = faults
  PROVE  QuietInv'
<1> USE DEF QuietInv
<1>1. /\ CoreInv /\ UNCHANGED <<ingresses, cleanup, vars, life>> /\ pc = "add" /\ call = "start"
      /\ faults \in Nat
  BY DEF ControllerInv, HandlersInv, HandlersTypeOK, GetIngress, Calling, informerVars, StrategyFrame
<1>2. UNCHANGED <<svcs, rpc, listed, watchBuf, items, populated, known, popKey, popDeltas,
                  event, unhandled>>
  BY <1>1 DEF vars, serverVars, reflectorVars, fifoVars, loopVars, historyVars
<1>3. \/ Exposed(event.key) /\ pc' = "related" /\ call' = "start"
      \/ seen' = ingresses[AddName[event.key]] /\ pc' = "add" /\ call' = "write"
  BY <1>1 DEF GetIngress, Fault, Return, Continue, Exposed
<1>4. CopiesInv'
  <2>1. \A k \in Keys, o \in Obj : HoldsCopy(k, o)' => HoldsCopy(k, o)
    BY <1>1, DroppedCopies
  <2>2. \A k, o : Copy(k, o)' <=> Copy(k, o)
    BY <1>2 DEF Copy
  <2> QED BY <1>1, <1>2, <2>1, <2>2 DEF CopiesInv
<1>5. StreamInv'
  BY <1>2 DEF StreamInv
<1>6. ClusterInv'
  BY <1>1, <1>2, <1>3 DEF ClusterInv, Alive
<1>7. AddInv'
  <2>1. \A k : Exposed(k)' <=> Exposed(k)
    BY <1>1 DEF Exposed
  <2>2. \A k \in Keys : Exposed(k)' => svcs'[k].url = HostOf[k]
    BY <1>1, <1>2, <2>1 DEF AddInv
  <2> QED BY <1>1, <1>2, <1>3, <2>1, <2>2 DEF AddInv, Exposed
<1>8. HandledInv'
  BY <1>1, <1>2 DEF HandledInv, Exposed, Exposable
<1> QED BY <1>4, <1>5, <1>6, <1>7, <1>8

(* Create or Update finds the ingress as it was read.                       *)
LEMMA QuietWrite ==
  ASSUME ControllerInv, QuietInv, WriteIngress, faults' = faults
  PROVE  QuietInv'
<1> USE DEF QuietInv
<1> DEFINE k == event.key
           n == AddName[k]
           new == ExposedIngress(k, event.new, seen)
<1>1. /\ CoreInv /\ UNCHANGED <<cleanup, vars, life>> /\ pc = "add" /\ call = "write"
      /\ faults \in Nat
  BY DEF ControllerInv, HandlersInv, HandlersTypeOK, WriteIngress, Calling, informerVars, StrategyFrame
<1>2. UNCHANGED <<svcs, rpc, listed, watchBuf, items, populated, known, popKey, popDeltas,
                  event, unhandled>>
  BY <1>1 DEF vars, serverVars, reflectorVars, fifoVars, loopVars, historyVars
<1>3. /\ ingresses[n] = seen /\ ingresses' = [ingresses EXCEPT ![n] = new]
      /\ pc' = "add" /\ call' = "patch"
  BY <1>1 DEF WriteIngress, Fault, Accepted, Continue, AddInv
<1>4. /\ k \in Keys /\ n \in IngressNames /\ event.new \in ServiceObj
      /\ seen \in Ingress \cup {Absent} /\ ~ ListsBackend(seen, k)
      /\ ingresses \in [IngressNames -> Ingress \cup {Absent}]
  BY WriteIngressFacts DEF ControllerInv, ControllerTypeOK
<1>5. Copy(k, event.new)
  BY <1>1 DEF CopiesInv
<1>6. /\ new # Absent /\ new.http
      /\ \A b \in Backend : Has(new.paths, b) <=> b = k \/ (seen # Absent /\ Has(seen.paths, b))
  <2>1. seen # Absent => Distinct(seen.paths)
    BY <1>3, <1>4 DEF ControllerInv, NoDuplicateBackend
  <2> QED BY <1>4, <2>1, ExposedIngressFacts, IngressAssumption
<1>7. \A o \in new.owners : Alive(o)
  <2>1. seen # Absent => \A o \in seen.owners : Alive(o)
    BY <1>3, <1>4 DEF ClusterInv
  <2>2. new.owners = (IF seen # Absent THEN seen.owners ELSE {})
                     \cup {[key |-> k, uid |-> event.new.uid]}
    BY DEF ExposedIngress
  <2>3. Alive([key |-> k, uid |-> event.new.uid])
    BY <1>5 DEF Alive, Copy
  <2> HIDE DEF new, k
  <2> QED BY <2>1, <2>2, <2>3
<1> HIDE DEF new
<1>8. \A m \in IngressNames : ingresses'[m] = IF m = n THEN new ELSE ingresses[m]
  BY <1>3, <1>4
<1>9. \A j \in Keys : Exposed(j)' <=> Exposed(j) \/ j = k
  <2> SUFFICES ASSUME NEW j \in Keys PROVE Exposed(j)' <=> Exposed(j) \/ j = k
    OBVIOUS
  <2>1. AddName[j] \in IngressNames /\ j \in Backend
    BY NameFacts DEF Backend
  <2>2. CASE AddName[j] = n
    BY <1>3, <1>6, <1>8, <2>1, <2>2 DEF Exposed, ListsBackend
  <2>3. CASE AddName[j] # n
    BY <1>8, <2>1, <2>3 DEF Exposed, ListsBackend
  <2> QED BY <2>2, <2>3
<1>10. CopiesInv'
  <2>1. \A j \in Keys, o \in Obj : HoldsCopy(j, o)' => HoldsCopy(j, o)
    BY <1>1, DroppedCopies
  <2>2. \A j, o : Copy(j, o)' <=> Copy(j, o)
    BY <1>2 DEF Copy
  <2> QED BY <1>1, <1>2, <2>1, <2>2 DEF CopiesInv
<1>11. StreamInv'
  BY <1>2 DEF StreamInv
<1>12. ClusterInv'
  <2>1. \A o : Alive(o)' <=> Alive(o)
    BY <1>2 DEF Alive
  <2>2. Readable(new)
    BY <1>6 DEF Readable
  <2> QED BY <1>1, <1>3, <1>7, <1>8, <2>1, <2>2 DEF ClusterInv
<1>13. AddInv'
  <2>1. Exposed(event.key)'
    BY <1>2, <1>4, <1>9
  <2>2. \A j \in Keys : Exposed(j)' => svcs'[j].url = HostOf[j] \/ event'.key = j
    BY <1>1, <1>2, <1>9 DEF AddInv
  <2> QED BY <1>3, <2>1, <2>2 DEF AddInv
<1>14. HandledInv'
  BY <1>1, <1>2, <1>9 DEF HandledInv, Exposable
<1> QED BY <1>10, <1>11, <1>12, <1>13, <1>14

(* The patch annotates the service: the callback's copy has the annotation  *)
(* only when the server's service has it.                                   *)
LEMMA QuietPatch ==
  ASSUME ControllerInv, QuietInv, PatchService, faults' = faults
  PROVE  QuietInv'
<1> USE DEF QuietInv
<1> DEFINE k == event.key
           url == HostOf[k]
           n == [svcs[k] EXCEPT !.url = url]
<1>1. /\ CoreInv /\ UNCHANGED <<ingresses, seen, cleanup, life>> /\ pc = "add" /\ call = "patch"
      /\ pc' = "related" /\ call' = "start" /\ Patch(url) /\ faults \in Nat
  BY DEF ControllerInv, HandlersInv, HandlersTypeOK, PatchService, Annotate, Calling, Return, ingressVars
<1>2. k \in Keys /\ url \in Hosts /\ svcs \in [Keys -> MaybeObj]
  BY <1>1, NameFacts DEF ControllerInv, HandlersInv, EventInv, HandlerEvents, CoreInv, TypeOK
<1>3. event.key = popKey /\ event.new \in Obj /\ Copy(k, event.new)
  BY <1>1 DEF CopiesInv
<1>4. svcs[k] \in ServiceObj
  BY <1>2, <1>3, ServiceFacts DEF Copy, MaybeObj
<1>5. \/ ServerWrite(k, n)
      \/ UNCHANGED vars /\ svcs[k].url = url
  <2>1. event.new.url = url => svcs[k].url = url
    BY <1>3 DEF Copy
  <2>2. ~ PatchChanges(k, url) => svcs[k].url = url
    BY <1>3 DEF PatchChanges, Copy
  <2> QED BY <1>1, <2>1, <2>2 DEF Patch, Fault, informerVars
<1>6. /\ n \in ServiceObj /\ n.url = url /\ n.uid = svcs[k].uid /\ n.mark = svcs[k].mark
      /\ n.spec = svcs[k].spec /\ n # Absent /\ n \in MaybeObj
  BY <1>2, <1>4, ServiceFacts DEF ServiceObj, Urls
<1> HIDE DEF n
<1>7. /\ UNCHANGED <<rpc, listed, items, populated, known, popKey, popDeltas, event, unhandled>>
      /\ svcs' = svcs \/ svcs' = [svcs EXCEPT ![k] = n]
      /\ watchBuf' = watchBuf \/ watchBuf' = Append(watchBuf, [key |-> k, obj |-> n])
  BY <1>5 DEF ServerWrite, vars, serverVars, reflectorVars, fifoVars, loopVars, historyVars
<1>8. svcs'[k].url = url
  BY <1>2, <1>5, <1>6 DEF ServerWrite, vars, serverVars
<1>9. \A j \in Keys :
        /\ svcs'[j] = Absent <=> svcs[j] = Absent
        /\ svcs[j] # Absent => /\ svcs'[j].uid = svcs[j].uid /\ svcs'[j].mark = svcs[j].mark
                               /\ svcs'[j].spec = svcs[j].spec
                               /\ svcs[j].url = HostOf[j] => svcs'[j].url = HostOf[j]
  BY <1>2, <1>4, <1>6, <1>7, ServiceFacts
<1>10. \A j \in Keys : \A o : Copy(j, o) => Copy(j, o)'
  BY <1>9 DEF Copy
<1>11. CopiesInv'
  <2>1. ASSUME NEW j \in Keys, NEW o \in Obj, HoldsCopy(j, o)' PROVE Copy(j, o)'
    <3>1. HoldsCopy(j, o) \/ (j = k /\ o = n)
      BY <1>1, <1>2, <1>5, <1>6, <2>1, ServerWriteCopies, DroppedCopies
    <3>2. j = k /\ o = n => Copy(j, o)'
      BY <1>2, <1>3, <1>6, <1>8, <1>9 DEF Copy
    <3>3. HoldsCopy(j, o) => Copy(j, o)'
      BY <1>10 DEF CopiesInv
    <3> QED BY <3>1, <3>2, <3>3
  <2>2. event'.key = popKey' /\ event'.new \in Obj
    BY <1>3, <1>7
  <2>3. Copy(event.key, event.new)'
    <3>1. Copy(k, event.new)'
      BY <1>2, <1>3, <1>7, <1>9 DEF Copy
    <3> QED BY <1>7, <3>1 DEF Copy
  <2> QED BY <2>1, <2>2, <2>3 DEF CopiesInv
<1>12. StreamInv'
  <2>1. \A i \in 1 .. Len(watchBuf') : watchBuf'[i].obj # Absent
    <3>1. watchBuf \in Seq(WatchEvents) /\ Len(watchBuf) \in Nat
      BY <1>1 DEF CoreInv, TypeOK
    <3>2. CASE watchBuf' = Append(watchBuf, [key |-> k, obj |-> n])
      <4> SUFFICES ASSUME NEW i \in 1 .. Len(watchBuf') PROVE watchBuf'[i].obj # Absent
        OBVIOUS
      <4>1. i = Len(watchBuf) + 1 \/ (i \in 1 .. Len(watchBuf) /\ watchBuf'[i] = watchBuf[i])
        BY <3>1, <3>2
      <4>2. watchBuf'[Len(watchBuf) + 1] = [key |-> k, obj |-> n]
        BY <3>1, <3>2
      <4> QED BY <1>6, <4>1, <4>2 DEF StreamInv
    <3> QED BY <1>7, <3>2 DEF StreamInv
  <2> QED BY <1>7, <1>9, <2>1 DEF StreamInv
<1>13. ClusterInv'
  <2>1. \A o \in Owner : Alive(o) => Alive(o)'
    <3> SUFFICES ASSUME NEW o \in Owner, Alive(o) PROVE Alive(o)'
      OBVIOUS
    <3>1. o.key \in Keys
      BY DEF Owner
    <3> QED BY <1>9, <3>1 DEF Alive
  <2>2. \A m \in IngressNames : ingresses[m] # Absent => ingresses[m].owners \subseteq Owner
    BY IngressFacts DEF ControllerInv, ControllerTypeOK
  <2> QED BY <1>1, <2>1, <2>2 DEF ClusterInv
<1>14. \A j \in Keys : (Exposed(j)' <=> Exposed(j)) /\ (Exposable(j)' <=> Exposable(j))
  BY <1>1, <1>9 DEF Exposed, Exposable, Marked
<1>15. AddInv'
  <2>1. \A j \in Keys : Exposed(j) => svcs'[j].url = HostOf[j]
    <3>1. \A j \in Keys : Exposed(j) /\ j # k => svcs'[j].url = HostOf[j]
      BY <1>2, <1>7 DEF AddInv
    <3> QED BY <1>8, <3>1
  <2>2. Exposed(event.key)'
    <3>1. Exposed(k)
      BY <1>1 DEF AddInv
    <3> QED BY <1>1, <1>7, <3>1 DEF Exposed
  <2> QED BY <1>1, <1>14, <2>1, <2>2 DEF AddInv
<1>16. HandledInv'
  BY <1>1, <1>7, <1>9, <1>14 DEF HandledInv, Exposable
<1> QED BY <1>11, <1>12, <1>13, <1>15, <1>16

-----------------------------------------------------------------------------
(* Users' operations and faults are counted, and no count goes back.        *)
LEMMA CountsGrow ==
  ASSUME ControllerInv, ControllerNext
  PROVE  /\ edits \in Nat /\ edits' \in {edits, edits + 1}
         /\ faults \in Nat /\ faults' \in {faults, faults + 1}
<1>1. edits \in Nat /\ faults \in Nat
  BY DEF ControllerInv, HandlersInv, HandlersTypeOK
<1>2. CASE HandlersNext
  BY <1>1, <1>2 DEF HandlersNext, ListServices, ReplaceServices, WatchServices, BreakWatch,
     ResyncServices, PopService, InformerStep, Dispatch, UpdateRelatedResources, RelatedPanics,
     HandlerDone, Tick, Exit, CreateService, DeleteService, MarkService, UserWrites, Edit, Fault,
     boundVars
<1>3. CASE GetIngress \/ AddPanics \/ WriteIngress \/ PatchService \/ DeleteIngress
           \/ UnpatchService \/ CrashProcess
  BY <1>1, <1>3 DEF GetIngress, AddPanics, WriteIngress, PatchService, DeleteIngress,
     UnpatchService, CrashProcess, Annotate, RemoveAnnotation, Patch, Crash, Fault, StrategyFrame
<1>4. CASE CleanupList \/ CleanupDelete \/ CleanupReturn \/ EditIngress \/ AddRule
           \/ CollectGarbage
  BY <1>1, <1>4 DEF CleanupList, CleanupDelete, CleanupReturn, EditIngress, AddRule, CollectGarbage,
     Edit, Fault, handlersVars, boundVars
<1> QED BY <1>2, <1>3, <1>4 DEF ControllerNext

(* The steps that are left when nobody edits anything and nothing fails.    *)
LEMMA QuietStep ==
  ASSUME ControllerInv, QuietInv, ControllerNext, edits' = edits, faults' = faults
  PROVE  QuietInv'
<1>1. edits \in Nat /\ faults \in Nat
  BY CountsGrow
<1>2. CASE HandlersNext /\ UNCHANGED ingressVars
  <2>1. ~ (CreateService \/ DeleteService \/ MarkService)
    <3>1. CreateService \/ DeleteService \/ MarkService => edits' = edits + 1
      BY Zenon DEF CreateService, DeleteService, MarkService, UserWrites, Edit
    <3> QED BY <1>1, <3>1
  <2>2. ~ RelatedPanics
    BY <1>1 DEF RelatedPanics, Fault
  <2> QED BY <1>2, <2>1, <2>2, QuietInformer, QuietDispatch, QuietLife, QuietEnd DEF HandlersNext
<1>3. CASE GetIngress \/ AddPanics \/ WriteIngress \/ PatchService
  BY <1>3, QuietGet, QuietEnd, QuietWrite, QuietPatch DEF AddPanics
<1>4. ~ (DeleteIngress \/ UnpatchService)
  BY DEF QuietInv, ClusterInv, DeleteIngress, UnpatchService, RemoveAnnotation, Calling
<1>5. ~ (CrashProcess \/ CleanupList \/ EditIngress \/ AddRule)
  <2>1. CrashProcess => faults' = faults + 1
    BY Zenon DEF CrashProcess, Crash, Fault
  <2>2. CleanupList \/ EditIngress \/ AddRule => edits' = edits + 1
    BY Zenon DEF CleanupList, EditIngress, AddRule, Edit
  <2> QED BY <1>1, <2>1, <2>2
<1>6. ~ (CleanupDelete \/ CleanupReturn)
  BY DEF QuietInv, ClusterInv, CleanupDelete, CleanupReturn
<1>7. ~ CollectGarbage
  BY DEF QuietInv, ClusterInv, CollectGarbage
<1> QED BY <1>2, <1>3, <1>4, <1>5, <1>6, <1>7 DEF ControllerNext

(* Every step keeps the invariant.                                          *)
LEMMA OneShotNextInv ==
  ControllerInv /\ OneShotInv /\ [ControllerNext]_controllerVars => OneShotInv'
<1> SUFFICES ASSUME ControllerInv, OneShotInv, [ControllerNext]_controllerVars,
                    edits' = 0, faults' = 0
             PROVE  QuietInv'
  BY DEF OneShotInv
<1>1. CASE ControllerNext
  <2>1. edits = 0 /\ faults = 0
    BY <1>1, CountsGrow
  <2> QED BY <1>1, <2>1, QuietStep DEF OneShotInv
<1>2. CASE UNCHANGED controllerVars
  <2>1. /\ UNCHANGED <<vars, pc, call, life, edits, faults>>
        /\ UNCHANGED <<ingresses, seen, cleanup>>
    BY <1>2 DEF controllerVars, handlersVars, informerVars, processVars, boundVars, ingressVars
  <2>2. UNCHANGED <<svcs, rpc, listed, watchBuf, items, populated, known, popKey, popDeltas,
                    event, unhandled>>
    BY <2>1 DEF vars, serverVars, reflectorVars, fifoVars, loopVars, historyVars
  <2>3. QuietInv
    BY <2>1 DEF OneShotInv
  <2>4. CopiesInv'
    BY <2>1, <2>2, <2>3 DEF QuietInv, CopiesInv, HoldsCopy, Has, Copy
  <2>5. StreamInv' /\ ClusterInv' /\ AddInv' /\ HandledInv'
    BY <2>1, <2>2, <2>3 DEF QuietInv, StreamInv, ClusterInv, AddInv, HandledInv, Alive, Exposed,
       Exposable
  <2> QED BY <2>4, <2>5 DEF QuietInv
<1> QED BY <1>1, <1>2

(* A one-shot run that ends has exposed and annotated every service that    *)
(* was there when it started, when nobody changed anything and no call      *)
(* failed: the ticker does not end the process while the first list is      *)
(* being handled, relists, resyncs and broken watches notwithstanding.      *)
THEOREM OneShotIsComplete == ControllerSpec => []OneShotExposes
<1>1. ControllerInit => OneShotInv
  BY QuietInit DEF OneShotInv
<1>2. OneShotInv => OneShotExposes
  BY DEF OneShotInv, QuietInv, HandledInv, OneShotExposes
<1> QED BY <1>1, <1>2, OneShotNextInv, ControllerInvariance, PTL DEF ControllerSpec
=============================================================================
