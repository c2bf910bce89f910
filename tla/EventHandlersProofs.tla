------------------------ MODULE EventHandlersProofs ------------------------
(***************************************************************************)
(* Proofs about EventHandlers, for every strategy: the informer's          *)
(* invariants survive its composition with the handlers, Add and Remove    *)
(* find a service in the event where they read one, and Add runs only for  *)
(* a service that was marked and white-listed at some time.  The last      *)
(* takes the invariant that every copy of a service between the server and *)
(* the callback was once the server's.                                     *)
(***************************************************************************)
EXTENDS EventHandlers, ServiceInformerProofs

(* What is true between two calls of a handler.                             *)
EventInv ==
  /\ pc # "idle" => event \in HandlerEvents
  /\ pc = "remove" => \/ event.new = FinalStateUnknown
                      \/ event.new \in ServiceObj /\ event.new.mark = "none"
  /\ pc \in {"add", "related"} => event.new \in ServiceObj

(* Object o is on its way from the server to a callback of k.               *)
HoldsCopy(k, o) ==
  \/ svcs[k] = o \/ listed[k] = o \/ known[k] = o
  \/ \E i \in 1 .. Len(watchBuf) : watchBuf[i].key = k /\ watchBuf[i].obj = o
  \/ Has(items[k], o)
  \/ popKey = k /\ Has(popDeltas, o)

AskedInv ==
  /\ \A k \in Keys, o \in Obj : HoldsCopy(k, o) /\ Asks(k, o) => k \in asked
  /\ pc = "add" => event.key \in asked

HandlersInv == CoreInv /\ HandlersTypeOK /\ EventInv /\ AskedInv

-----------------------------------------------------------------------------
(* The services of the constants.                                           *)
LEMMA ServiceFacts ==
  /\ Obj = ServiceObj
  /\ \A svc \in ServiceObj, u \in Urls : [svc EXCEPT !.url = u] \in ServiceObj
  /\ \A svc \in ServiceObj, m \in UserMarks : [svc EXCEPT !.mark = m] \in ServiceObj
  /\ ServiceObj \subseteq MaybeObj /\ Absent \in MaybeObj
  /\ Absent \notin ServiceObj
BY ServiceAssumption, FaultsAssumption, ObjAssumption DEF ServiceObj, MaybeObj

(* The initial states.                                                      *)
LEMMA HandlersInitInv == HandlersInit => HandlersInv
<1> SUFFICES ASSUME HandlersInit PROVE HandlersInv
  OBVIOUS
<1>1. svcs \in [Keys -> MaybeObj]
  <2>1. InitialServices \subseteq MaybeObj
    BY ServiceFacts, FaultsAssumption, SetsAssumption
       DEF InitialServices, ServiceObj, MaybeObj, Urls
  <2> QED BY <2>1 DEF HandlersInit
<1>2. CoreInv
  BY <1>1, InitInv DEF HandlersInit, Init, IndInv
<1>3. HandlersTypeOK
  BY <1>2, FaultsAssumption DEF HandlersInit, HandlersTypeOK, CoreInv, Urls
<1>4. EventInv
  BY DEF HandlersInit, EventInv
<1>5. AskedInv
  <2>1. \A k \in Keys, o \in Obj : HoldsCopy(k, o) => svcs[k] = o
    BY ObjFacts DEF HandlersInit, ProcessInit, HoldsCopy, Has
  <2> QED BY <2>1 DEF HandlersInit, AskedInv
<1> QED BY <1>2, <1>3, <1>4, <1>5 DEF HandlersInv

-----------------------------------------------------------------------------
(* Copies move from the server to the callbacks, and none is made up.       *)

(* A write on the server is a new object, and perhaps its event.            *)
LEMMA ServerWriteCopies ==
  ASSUME CoreInv, NEW h \in Keys, NEW n \in MaybeObj, ServerWrite(h, n),
         NEW k \in Keys, NEW o \in Obj, HoldsCopy(k, o)'
  PROVE  HoldsCopy(k, o) \/ (k = h /\ o = n)
<1> USE DEF CoreInv
<1>1. /\ UNCHANGED <<listed, items, known, popKey, popDeltas>>
      /\ svcs' = [svcs EXCEPT ![h] = n]
      /\ watchBuf' \in {watchBuf, Append(watchBuf, [key |-> h, obj |-> n])}
  BY DEF ServerWrite, fifoVars, loopVars
<1>2. svcs'[k] = o => svcs[k] = o \/ (k = h /\ o = n)
  BY <1>1 DEF TypeOK
<1>3. ASSUME NEW i \in 1 .. Len(watchBuf'), watchBuf'[i].key = k, watchBuf'[i].obj = o
      PROVE  \/ \E j \in 1 .. Len(watchBuf) : watchBuf[j].key = k /\ watchBuf[j].obj = o
             \/ k = h /\ o = n
  <2>1. CASE watchBuf' = watchBuf
    BY <1>3, <2>1
  <2>2. CASE watchBuf' = Append(watchBuf, [key |-> h, obj |-> n])
    <3>1. watchBuf \in Seq(WatchEvents) /\ Len(watchBuf) \in Nat
      BY DEF TypeOK
    <3>2. i = Len(watchBuf) + 1 \/ i \in 1 .. Len(watchBuf)
      BY <2>2, <3>1
    <3>3. CASE i = Len(watchBuf) + 1
      <4>1. watchBuf'[i] = [key |-> h, obj |-> n]
        BY <2>2, <3>1, <3>3
      <4> QED BY <1>3, <4>1
    <3>4. CASE i \in 1 .. Len(watchBuf)
      <4>1. watchBuf'[i] = watchBuf[i]
        BY <2>2, <3>1, <3>4
      <4> QED BY <1>3, <3>4, <4>1
    <3> QED BY <3>2, <3>3, <3>4
  <2> QED BY <1>1, <2>1, <2>2
<1> QED BY <1>1, <1>2, <1>3 DEF HoldsCopy

(* A sequence of deltas that grows by a deletion holds no new object.       *)
LEMMA DeletionHolds ==
  ASSUME NEW s \in Seq(Delta), NEW d \in Deletions, NEW o \in Obj, Has(AppendDelta(s, d), o)
  PROVE  Has(s, o)
<1>1. d \in Delta /\ d # o /\ Len(s) \in Nat
  BY ObjFacts
<1>2. PICK i \in 1 .. Len(AppendDelta(s, d)) : AppendDelta(s, d)[i] = o
  BY DEF Has
<1>3. CASE AppendDelta(s, d) = Append(s, d)
  <2>1. i = Len(s) + 1 \/ (i \in 1 .. Len(s) /\ Append(s, d)[i] = s[i])
    BY <1>1, <1>2, <1>3
  <2>2. Append(s, d)[Len(s) + 1] = d
    BY <1>1
  <2> QED BY <1>1, <1>2, <1>3, <2>1, <2>2 DEF Has
<1>4. CASE s # <<>> /\ AppendDelta(s, d) = [s EXCEPT ![Len(s)] = d]
  <2>1. Len(s) \in 1 .. Len(s)
    BY <1>4, EmptySeq
  <2>2. /\ Len([s EXCEPT ![Len(s)] = d]) = Len(s)
        /\ \A j \in 1 .. Len(s) : [s EXCEPT ![Len(s)] = d][j] = IF j = Len(s) THEN d ELSE s[j]
    BY <1>1, <2>1, ExceptSeq
  <2>3. i \in 1 .. Len(s) /\ s[i] = o
    BY <1>1, <1>2, <1>4, <2>2
  <2> QED BY <2>3 DEF Has
<1>5. CASE AppendDelta(s, d) = s
  BY <1>5
<1> QED BY <1>3, <1>4, <1>5 DEF AppendDelta

(* One that grows by an object holds that object and what it held.          *)
LEMMA AppendHolds ==
  ASSUME NEW S, NEW s \in Seq(S), NEW d \in S, NEW x, Has(Append(s, d), x)
  PROVE  Has(s, x) \/ x = d
<1>1. Len(s) \in Nat
  OBVIOUS
<1>2. PICK i \in 1 .. Len(Append(s, d)) : Append(s, d)[i] = x
  BY DEF Has
<1>3. i = Len(s) + 1 \/ (i \in 1 .. Len(s) /\ Append(s, d)[i] = s[i])
  BY <1>1, <1>2
<1> QED BY <1>1, <1>2, <1>3 DEF Has

(* What is left of a sequence was in it.                                    *)
LEMMA TailHolds ==
  ASSUME NEW S, NEW s \in Seq(S), s # <<>>
  PROVE  /\ 1 \in 1 .. Len(s) /\ Head(s) = s[1]
         /\ \A i \in 1 .. Len(Tail(s)) : i + 1 \in 1 .. Len(s) /\ Tail(s)[i] = s[i + 1]
<1>1. Len(s) \in Nat \ {0}
  BY EmptySeq
<1> QED BY <1>1, HeadTailProperties

(* The steps of the reflector and of the loop.                              *)
LEMMA ListCopies ==
  ASSUME CoreInv, List, NEW k \in Keys, NEW o \in Obj, HoldsCopy(k, o)'
  PROVE  HoldsCopy(k, o)
BY DEF List, HoldsCopy, serverVars, fifoVars, loopVars

(* A list's answer becomes Sync deltas and deletions.                       *)
LEMMA ReplaceCopies ==
  ASSUME CoreInv, Replace, NEW k \in Keys, NEW o \in Obj, HoldsCopy(k, o)'
  PROVE  HoldsCopy(k, o)
<1> USE DEF CoreInv
<1>1. /\ UNCHANGED <<svcs, watchBuf, known, popKey, popDeltas>>
      /\ items' = ReplaceItems /\ listed' = [h \in Keys |-> Absent]
  BY DEF Replace, serverVars, loopVars
<1>2. listed'[k] # o
  BY <1>1, ObjFacts
<1>3. ASSUME Has(items'[k], o) PROVE Has(items[k], o) \/ listed[k] = o
  <2>1. items[k] \in Seq(Delta) /\ FinalStateUnknown \in Deletions
    BY DEF TypeOK, Deletions
  <2>2. CASE k \in ListedKeys
    <3>1. items'[k] = AppendSync(k, listed[k])
      BY <1>1, <2>2 DEF ReplaceItems
    <3>2. listed[k] \in Delta
      BY <2>2, ObjFacts DEF ListedKeys, TypeOK, MaybeObj
    <3> QED BY <1>3, <2>1, <3>1, <3>2, AppendHolds DEF AppendSync
  <2>3. CASE k \notin ListedKeys /\ k \in GoneKeys
    BY <1>1, <1>3, <2>1, <2>3, DeletionHolds DEF ReplaceItems
  <2>4. CASE k \notin ListedKeys /\ k \notin GoneKeys
    BY <1>1, <1>3, <2>4 DEF ReplaceItems
  <2> QED BY <2>2, <2>3, <2>4
<1> QED BY <1>1, <1>2, <1>3 DEF HoldsCopy

(* A watch event becomes a delta.                                           *)
LEMMA WatchCopies ==
  ASSUME CoreInv, WatchEvent, NEW k \in Keys, NEW o \in Obj, HoldsCopy(k, o)'
  PROVE  HoldsCopy(k, o)
<1> USE DEF CoreInv
<1> DEFINE h == Head(watchBuf).key
           n == Head(watchBuf).obj
<1>1. /\ UNCHANGED <<svcs, listed, known, popKey, popDeltas>>
      /\ watchBuf # <<>> /\ watchBuf' = Tail(watchBuf)
      /\ \/ n # Absent /\ items' = [items EXCEPT ![h] = Append(items[h], n)]
         \/ items' = [items EXCEPT ![h] = AppendDelta(items[h], Deleted)]
         \/ items' = items
  BY DEF WatchEvent, Enqueue, serverVars, loopVars
<1>2. watchBuf \in Seq(WatchEvents) /\ Head(watchBuf) \in WatchEvents
  BY <1>1, HeadTailProperties DEF TypeOK
<1>3. h \in Keys /\ n \in MaybeObj
  BY <1>2 DEF WatchEvents
<1>4. /\ 1 \in 1 .. Len(watchBuf) /\ Head(watchBuf) = watchBuf[1]
      /\ \A i \in 1 .. Len(watchBuf') : i + 1 \in 1 .. Len(watchBuf) /\ watchBuf'[i] = watchBuf[i + 1]
  BY <1>1, <1>2, TailHolds
<1>5. ASSUME Has(items'[k], o), ~ Has(items[k], o) PROVE k = h /\ o = n
  <2>1. items \in [Keys -> Seq(Delta)] /\ Deleted \in Deletions
    BY DEF TypeOK, Deletions
  <2>2. k = h
    BY <1>1, <1>3, <1>5, <2>1
  <2>3. CASE n # Absent /\ items' = [items EXCEPT ![h] = Append(items[h], n)]
    <3>1. n \in Delta
      BY <1>3, <2>3, ObjFacts DEF MaybeObj
    <3> QED BY <1>3, <1>5, <2>1, <2>2, <2>3, <3>1, AppendHolds
  <2>4. CASE items' = [items EXCEPT ![h] = AppendDelta(items[h], Deleted)]
    BY <1>3, <1>5, <2>1, <2>2, <2>4, DeletionHolds
  <2>5. CASE items' = items
    BY <1>5, <2>5
  <2> QED BY <1>1, <2>2, <2>3, <2>4, <2>5
<1> HIDE DEF h, n
<1>6. k = h /\ o = n => HoldsCopy(k, o)
  BY <1>4 DEF HoldsCopy, h, n
<1>7. ASSUME NEW i \in 1 .. Len(watchBuf'), watchBuf'[i].key = k, watchBuf'[i].obj = o
      PROVE  HoldsCopy(k, o)
  BY <1>4, <1>7 DEF HoldsCopy
<1> QED BY <1>1, <1>5, <1>6, <1>7 DEF HoldsCopy

(* Resync queues what the store holds.                                      *)
LEMMA ResyncCopies ==
  ASSUME CoreInv, Resync, NEW k \in Keys, NEW o \in Obj, HoldsCopy(k, o)'
  PROVE  HoldsCopy(k, o)
<1> USE DEF CoreInv
<1>1. /\ UNCHANGED <<svcs, listed, watchBuf, known, popKey, popDeltas>>
      /\ items' = [h \in Keys |-> IF h \in StoredKeys THEN AppendSync(h, known[h]) ELSE items[h]]
  BY DEF Resync, serverVars, reflectorVars, loopVars
<1>2. ASSUME Has(items'[k], o) PROVE Has(items[k], o) \/ known[k] = o
  <2>1. CASE k \in StoredKeys
    <3>1. items[k] \in Seq(Delta) /\ known[k] \in Delta
      BY <2>1, ObjFacts DEF StoredKeys, TypeOK, MaybeObj
    <3> QED BY <1>1, <1>2, <2>1, <3>1, AppendHolds DEF AppendSync
  <2>2. CASE k \notin StoredKeys
    BY <1>1, <1>2, <2>2
  <2> QED BY <2>1, <2>2
<1> QED BY <1>1, <1>2 DEF HoldsCopy

(* Pop hands the deltas to the loop.                                        *)
LEMMA PopCopies ==
  ASSUME CoreInv, Pop, NEW k \in Keys, NEW o \in Obj, HoldsCopy(k, o)'
  PROVE  HoldsCopy(k, o)
<1> USE DEF CoreInv
<1>1. /\ UNCHANGED <<svcs, listed, watchBuf, known>>
      /\ popKey' = Head(queue) /\ popDeltas' = items[Head(queue)]
      /\ items' = [items EXCEPT ![Head(queue)] = <<>>]
  BY DEF Pop, serverVars, reflectorVars
<1>2. Has(items'[k], o) => Has(items[k], o)
  BY <1>1 DEF TypeOK, Has
<1> QED BY <1>1, <1>2 DEF HoldsCopy

(* The store takes the delta whose callback starts.                         *)
LEMMA ProcessDeltaCopies ==
  ASSUME CoreInv, ProcessDelta, NEW k \in Keys, NEW o \in Obj
  PROVE  /\ HoldsCopy(k, o)' => HoldsCopy(k, o)
         /\ popKey \in Keys /\ Head(popDeltas) \in Delta
         /\ Head(popDeltas) \in Obj => HoldsCopy(popKey, Head(popDeltas))
<1> USE DEF CoreInv
<1>1. /\ UNCHANGED <<svcs, listed, watchBuf, items, popKey>>
      /\ popDeltas # <<>> /\ popDeltas' = Tail(popDeltas)
      /\ known' = [known EXCEPT ![popKey] = IF Head(popDeltas) \in Deletions
                                            THEN Absent ELSE Head(popDeltas)]
  BY DEF ProcessDelta, serverVars, reflectorVars, fifoVars
<1>2. popKey \in Keys /\ popDeltas \in Seq(Delta)
  BY <1>1, KeysAssumption DEF LockInv, TypeOK
<1>3. /\ 1 \in 1 .. Len(popDeltas) /\ Head(popDeltas) = popDeltas[1]
      /\ \A i \in 1 .. Len(popDeltas') :
           i + 1 \in 1 .. Len(popDeltas) /\ popDeltas'[i] = popDeltas[i + 1]
  BY <1>1, <1>2, TailHolds
<1>4. Head(popDeltas) \in Delta
  BY <1>2, <1>3, ElementOfSeq
<1>5. Has(popDeltas, Head(popDeltas))
  BY <1>3 DEF Has
<1>6. Has(popDeltas', o) => Has(popDeltas, o)
  BY <1>3 DEF Has
<1>7. known'[k] = o => known[k] = o \/ (popKey = k /\ Has(popDeltas, o))
  <2>1. CASE k = popKey
    BY <1>1, <1>2, <1>5, <2>1, ObjFacts DEF TypeOK
  <2>2. CASE k # popKey
    BY <1>1, <2>2 DEF TypeOK
  <2> QED BY <2>1, <2>2
<1> QED BY <1>1, <1>2, <1>4, <1>5, <1>6, <1>7 DEF HoldsCopy

(* The other steps only drop copies.                                        *)
LEMMA DroppedCopies ==
  ASSUME CoreInv, WatchBreak \/ HandlerReturn \/ HandlerPanic \/ Restart \/ UNCHANGED vars,
         NEW k \in Keys, NEW o \in Obj, HoldsCopy(k, o)'
  PROVE  HoldsCopy(k, o)
<1>1. CASE WatchBreak
  BY <1>1 DEF WatchBreak, HoldsCopy, serverVars, fifoVars, loopVars
<1>2. CASE HandlerReturn \/ HandlerPanic
  BY <1>2 DEF HandlerReturn, HandlerPanic, Release, HoldsCopy, serverVars, reflectorVars,
              fifoVars, Has
<1>3. CASE Restart
  BY <1>3, ObjFacts DEF Restart, HoldsCopy, serverVars, Has
<1>4. CASE UNCHANGED vars
  BY <1>4 DEF HoldsCopy, vars, serverVars, reflectorVars, fifoVars, loopVars
<1> QED BY <1>1, <1>2, <1>3, <1>4

-----------------------------------------------------------------------------
(* The steps of the handlers.                                               *)

(* A step that brings no new object and starts no Add keeps AskedInv.       *)
LEMMA AskedKept ==
  ASSUME AskedInv, asked' = asked, pc' = "add" => pc = "add" /\ event' = event,
         \A k \in Keys, o \in Obj : HoldsCopy(k, o)' => HoldsCopy(k, o)
  PROVE  AskedInv'
BY DEF AskedInv, Asks, Marked

(* A step of Add or Remove that leaves the informer alone.                  *)
LEMMA StrategyStepInv ==
  ASSUME HandlersInv, UNCHANGED <<informerVars, asked>>, related' = related, life' = life,
         edits' \in 0 .. MaxEdits, faults' \in 0 .. MaxFaults,
         \/ pc' = pc
         \/ pc = "add" /\ pc' = "related"
         \/ pc = "remove" /\ pc' = "done",
         call' \in {"start", "write", "create", "update", "delete", "patch"}
  PROVE  HandlersInv'
<1> USE DEF HandlersInv
<1>1. UNCHANGED vars /\ event' = event
  BY DEF informerVars, vars, loopVars
<1>2. CoreInv'
  BY <1>1, StutterInv
<1>3. HandlersTypeOK'
  BY <1>2 DEF HandlersTypeOK, CoreInv
<1>4. EventInv'
  BY <1>1 DEF EventInv, HandlersTypeOK
<1>5. AskedInv'
  BY <1>1, AskedKept, DroppedCopies
<1> QED BY <1>2, <1>3, <1>4, <1>5

(* A fault is counted up to its bound.                                      *)
LEMMA FaultBound ==
  ASSUME HandlersTypeOK, NEW f, Fault(f) \/ faults' = faults
  PROVE  faults' \in 0 .. MaxFaults
BY FaultsAssumption DEF HandlersTypeOK, Fault

(* A write of a service that keeps its mark, or is recorded in asked.       *)
LEMMA WriteAsked ==
  ASSUME CoreInv, AskedInv, NEW h \in Keys, NEW n \in MaybeObj, ServerWrite(h, n),
         asked \subseteq asked', Asks(h, n) => h \in asked',
         pc' = "add" => pc = "add"
  PROVE  AskedInv'
<1>1. event' = event
  BY DEF ServerWrite, loopVars
<1>2. ASSUME NEW k \in Keys, NEW o \in Obj, HoldsCopy(k, o)', Asks(k, o)
      PROVE  k \in asked'
  <2>1. HoldsCopy(k, o) \/ (k = h /\ o = n)
    BY <1>2, ServerWriteCopies
  <2> QED BY <1>2, <2>1 DEF AskedInv
<1>3. \A k, o : Asks(k, o)' <=> Asks(k, o)
  BY DEF Asks, Marked
<1> QED BY <1>1, <1>2, <1>3 DEF AskedInv

(* A strategy writes the service of its event, leaves its mark, and returns. *)
LEMMA StrategyWriteInv ==
  ASSUME HandlersInv, pc \in {"add", "remove"}, NEW n \in ServiceObj,
         svcs[event.key] \in ServiceObj, n.mark = svcs[event.key].mark,
         ServerWrite(event.key, n), Return, StrategyFrame, faults' \in 0 .. MaxFaults
  PROVE  HandlersInv' /\ event' = event
<1> USE DEF HandlersInv
<1> DEFINE k == event.key
<1>1. /\ UNCHANGED <<related, life, edits, asked>> /\ call' = "start"
      /\ pc = "add" => pc' = "related"
      /\ pc # "add" => pc' = "done"
  BY DEF StrategyFrame, Return
<1>2. k \in Keys /\ n \in MaybeObj /\ svcs[k] \in Obj
  BY ServiceFacts DEF EventInv, HandlerEvents
<1>3. CoreInv' /\ event' = event
  BY <1>2, ServerWriteInv DEF ServerWrite, loopVars
<1>4. HandlersTypeOK'
  BY <1>1, <1>3 DEF HandlersTypeOK, CoreInv
<1>5. EventInv'
  BY <1>1, <1>3 DEF EventInv
<1>6. Asks(k, n) => k \in asked
  <2>1. HoldsCopy(k, svcs[k]) /\ (Asks(k, n) => Asks(k, svcs[k]))
    BY <1>2 DEF HoldsCopy, Asks, Marked
  <2> QED BY <1>2, <2>1 DEF AskedInv
<1>7. AskedInv'
  BY <1>1, <1>2, <1>6, WriteAsked
<1> QED BY <1>3, <1>4, <1>5, <1>7

(* A strategy returns without a write.                                      *)
LEMMA StrategyReturnInv ==
  ASSUME HandlersInv, pc \in {"add", "remove"}, UNCHANGED informerVars, Return, StrategyFrame,
         faults' \in 0 .. MaxFaults
  PROVE  HandlersInv' /\ event' = event
<1>1. /\ UNCHANGED <<related, life, asked>> /\ call' = "start"
      /\ pc = "add" => pc' = "related"
      /\ pc = "remove" => pc' = "done"
      /\ edits' \in 0 .. MaxEdits
  BY DEF StrategyFrame, Return, HandlersInv, HandlersTypeOK
<1>2. event' = event
  BY DEF informerVars, vars, loopVars
<1> QED BY <1>1, <1>2, StrategyStepInv

(* The two patches of the annotation.                                       *)
LEMMA PatchInv ==
  ASSUME HandlersInv, NEW url \in Urls, pc \in {"add", "remove"}, Patch(url), Return,
         StrategyFrame
  PROVE  HandlersInv' /\ event' = event
<1>1. faults' \in 0 .. MaxFaults
  BY FaultBound DEF Patch, HandlersInv
<1>2. event.key \in Keys
  BY DEF HandlersInv, EventInv, HandlerEvents
<1>3. CASE PatchChanges(event.key, url) /\
           ServerWrite(event.key, [svcs[event.key] EXCEPT !.url = url])
  <2> DEFINE n == [svcs[event.key] EXCEPT !.url = url]
  <2>1. svcs[event.key] \in ServiceObj
    BY <1>2, <1>3, ServiceFacts DEF PatchChanges, HandlersInv, CoreInv, TypeOK, MaybeObj
  <2>2. n \in ServiceObj /\ n.mark = svcs[event.key].mark
    BY <2>1, ServiceFacts DEF ServiceObj
  <2> HIDE DEF n
  <2>3. ServerWrite(event.key, n)
    BY <1>3 DEF n
  <2> QED BY <1>1, <2>1, <2>2, <2>3, StrategyWriteInv
<1>4. CASE UNCHANGED informerVars
  BY <1>1, <1>4, StrategyReturnInv
<1> QED BY <1>3, <1>4 DEF Patch

(* A panic, and the end of a handler.                                       *)
LEMMA EndInv ==
  ASSUME HandlersInv, HandlerReturn \/ HandlerPanic, pc' = "idle", call' \in {call, "start"},
         UNCHANGED <<related, life, edits, asked>>,
         faults' = faults \/ faults' \in 0 .. MaxFaults
  PROVE  HandlersInv'
<1> USE DEF HandlersInv
<1>1. CoreInv'
  BY HandlerEndInv
<1>2. HandlersTypeOK'
  BY <1>1 DEF HandlersTypeOK, CoreInv
<1>3. EventInv'
  BY DEF EventInv
<1>4. AskedInv'
  BY AskedKept, DroppedCopies
<1> QED BY <1>1, <1>2, <1>3, <1>4

(* A crash forgets everything but what is in the API server.                *)
LEMMA CrashInv ==
  ASSUME HandlersInv, Crash
  PROVE  HandlersInv'
<1> USE DEF HandlersInv
<1>1. CoreInv'
  BY RestartInv DEF Crash
<1>2. HandlersTypeOK'
  BY <1>1, FaultBound DEF Crash, HandlersTypeOK, CoreInv
<1>3. EventInv'
  BY DEF EventInv, Crash
<1>4. AskedInv'
  BY AskedKept, DroppedCopies DEF Crash
<1> QED BY <1>1, <1>2, <1>3, <1>4

(* The informer's goroutines.                                               *)
LEMMA InformerStepInv ==
  ASSUME HandlersInv, ListServices \/ ReplaceServices \/ WatchServices \/ BreakWatch
                      \/ ResyncServices \/ PopService
  PROVE  HandlersInv' /\ event' = event /\ UNCHANGED <<pc, call>>
<1> USE DEF HandlersInv
<1>1. UNCHANGED <<related, pc, call, life, edits, faults, asked>>
  BY DEF ListServices, ReplaceServices, WatchServices, BreakWatch, ResyncServices, PopService,
         InformerStep, processVars, boundVars
<1>2. List \/ Replace \/ WatchEvent \/ WatchBreak \/ Resync \/ Pop
  BY DEF ListServices, ReplaceServices, WatchServices, BreakWatch, ResyncServices, PopService,
         InformerStep
<1>3. CoreInv'
  BY <1>2, ListStepInv, ReplaceInv, WatchEventInv, WatchBreakInv, ResyncInv, PopInv
<1>4. event' = event
  BY <1>2 DEF List, Replace, WatchEvent, WatchBreak, Resync, Pop, loopVars
<1>5. \A k \in Keys, o \in Obj : HoldsCopy(k, o)' => HoldsCopy(k, o)
  BY <1>2, ListCopies, ReplaceCopies, WatchCopies, DroppedCopies, ResyncCopies, PopCopies
<1>6. HandlersTypeOK'
  BY <1>1, <1>3 DEF HandlersTypeOK, CoreInv
<1>7. EventInv'
  BY <1>1, <1>4 DEF EventInv
<1>8. AskedInv'
  BY <1>1, <1>4, <1>5, AskedKept
<1> QED BY <1>1, <1>3, <1>4, <1>6, <1>7, <1>8

(* The start of a callback: Add is called for a copy that asks for it.      *)
LEMMA DispatchInv ==
  ASSUME HandlersInv, Dispatch
  PROVE  HandlersInv'
<1> USE DEF HandlersInv
<1>1. /\ UNCHANGED <<related, call, life, edits, faults, asked>>
      /\ pc' = HandlerOf(event') /\ ProcessDelta
      /\ event' = [key |-> popKey, old |-> known[popKey], new |-> Head(popDeltas)]
  BY DEF Dispatch, ProcessDelta, boundVars
<1>2. CoreInv'
  BY <1>1, ProcessDeltaInv
<1>3. pc' \in {"add", "remove", "done"}
  BY <1>1 DEF HandlerOf
<1>4. \A k \in Keys, o \in Obj : HoldsCopy(k, o)' => HoldsCopy(k, o)
  BY <1>1, ProcessDeltaCopies
<1>5. popKey \in Keys /\ Head(popDeltas) \in Delta /\ popDeltas # <<>>
  <2>1. popDeltas # <<>> /\ popDeltas \in Seq(Delta)
    BY <1>1 DEF ProcessDelta, CoreInv, TypeOK
  <2> QED BY <2>1, KeysAssumption, HeadTailProperties DEF CoreInv, LockInv, TypeOK
<1>6. event' \in HandlerEvents
  BY <1>1, <1>5 DEF CoreInv, TypeOK, HandlerEvents
<1>7. pc' = "remove" => \/ event'.new = FinalStateUnknown
                        \/ event'.new \in ServiceObj /\ event'.new.mark = "none"
  <2>1. pc' = "remove" => \/ event'.new = FinalStateUnknown
                          \/ event'.new \in ServiceObj /\ ~ Marked(event'.new)
    BY <1>1, <1>5, ServiceFacts DEF HandlerOf, Delta, Deletions
  <2>2. \A svc \in ServiceObj : ~ Marked(svc) => svc.mark = "none"
    BY DEF Marked, ServiceObj, Marks
  <2> QED BY <2>1, <2>2
<1>8. pc' = "add" => /\ event'.new \in ServiceObj /\ Marked(event'.new)
                     /\ IsServiceWhitelisted(event'.key)
  BY <1>1, <1>5, ServiceFacts DEF HandlerOf, Delta, Deletions
<1>9. HandlersTypeOK'
  BY <1>1, <1>2, <1>3 DEF HandlersTypeOK, CoreInv
<1>10. EventInv'
  BY <1>3, <1>6, <1>7, <1>8 DEF EventInv
<1>11. pc' = "add" => event'.key \in asked
  <2>1. pc' = "add" => Head(popDeltas) \in Obj
    BY <1>1, <1>8, ServiceFacts
  <2>2. pc' = "add" => HoldsCopy(popKey, Head(popDeltas))
    BY <1>1, <2>1, ProcessDeltaCopies, <1>5
  <2>3. pc' = "add" => Asks(popKey, Head(popDeltas))
    BY <1>1, <1>8, <2>1 DEF Asks
  <2> QED BY <1>1, <1>5, <2>1, <2>2, <2>3 DEF AskedInv
<1>12. AskedInv'
  BY <1>1, <1>4, <1>11 DEF AskedInv, Asks, Marked
<1> QED BY <1>2, <1>9, <1>10, <1>12

(* The URL that reaches the related resources is the callback's own copy.   *)
LEMMA UpdateRelatedInv ==
  ASSUME HandlersInv, UpdateRelatedResources
  PROVE  HandlersInv'
<1> USE DEF HandlersInv
<1>1. /\ UNCHANGED <<vars, call, life, edits, faults, asked, event>>
      /\ pc = "related" /\ pc' = "done"
  BY DEF UpdateRelatedResources, informerVars, vars, loopVars, boundVars
<1>2. event.key \in Keys /\ event.new.url \in Urls
  BY <1>1 DEF EventInv, HandlerEvents, ServiceObj
<1>3. related' \in [Keys -> Urls]
  BY <1>2 DEF UpdateRelatedResources, HandlersTypeOK
<1>4. CoreInv'
  BY <1>1, StutterInv
<1>5. HandlersTypeOK'
  BY <1>1, <1>3, <1>4 DEF HandlersTypeOK, CoreInv
<1>6. EventInv'
  BY <1>1 DEF EventInv
<1>7. AskedInv'
  BY <1>1, AskedKept, DroppedCopies
<1> QED BY <1>4, <1>5, <1>6, <1>7

(* A user's write of a service.                                             *)
LEMMA UserWritesInv ==
  ASSUME HandlersInv, NEW op, NEW k \in Keys, NEW svc \in MaybeObj, UserWrites(op, k, svc)
  PROVE  HandlersInv' /\ event' = event /\ UNCHANGED <<pc, call>>
<1> USE DEF HandlersInv
<1>1. /\ UNCHANGED <<related, pc, call, life, faults>>
      /\ edits' \in 0 .. MaxEdits /\ ServerWrite(k, svc)
      /\ asked \subseteq asked' /\ asked' \subseteq asked \cup {k}
      /\ Asks(k, svc) => k \in asked'
  BY FaultsAssumption DEF UserWrites, Edit, processVars, HandlersTypeOK
<1>2. CoreInv' /\ event' = event
  BY <1>1, ServerWriteInv DEF ServerWrite, loopVars
<1>3. HandlersTypeOK'
  BY <1>1, <1>2 DEF HandlersTypeOK, CoreInv
<1>4. EventInv'
  BY <1>1, <1>2 DEF EventInv
<1>5. AskedInv'
  BY <1>1, WriteAsked
<1> QED BY <1>1, <1>2, <1>3, <1>4, <1>5

(* What users write is a service.                                           *)
LEMMA UsersInv ==
  ASSUME HandlersInv, CreateService \/ DeleteService \/ MarkService
  PROVE  HandlersInv' /\ event' = event /\ UNCHANGED <<pc, call>>
<1>1. CASE CreateService
  <2>1. PICK k \in Keys, m \in UserMarks, s \in UserSpecs :
          UserWrites("create", k, [uid |-> edits + 1, mark |-> m, url |-> NoUrl, spec |-> s])
    BY <1>1 DEF CreateService
  <2>2. edits \in Nat /\ edits < MaxEdits /\ MaxEdits \in Nat
    BY <2>1, FaultsAssumption DEF UserWrites, Edit, HandlersInv, HandlersTypeOK
  <2>3. edits + 1 \in 0 .. MaxEdits /\ m \in Marks /\ s \in Specs
    BY <2>2, FaultsAssumption, SetsAssumption
  <2>4. [uid |-> edits + 1, mark |-> m, url |-> NoUrl, spec |-> s] \in MaybeObj
    BY <2>3, ServiceFacts DEF ServiceObj, Urls
  <2> QED BY <2>1, <2>4, UserWritesInv
<1>2. CASE DeleteService
  BY <1>2, UserWritesInv, ServiceFacts DEF DeleteService
<1>3. CASE MarkService
  <2>1. PICK k \in Keys, m \in UserMarks :
          svcs[k] # Absent /\ UserWrites("mark", k, [svcs[k] EXCEPT !.mark = m])
    BY <1>3 DEF MarkService
  <2>2. svcs[k] \in ServiceObj
    BY <2>1, ServiceFacts DEF HandlersInv, CoreInv, TypeOK, MaybeObj
  <2>3. [svcs[k] EXCEPT !.mark = m] \in MaybeObj
    BY <2>2, ServiceFacts
  <2> QED BY <2>1, <2>3, UserWritesInv
<1> QED BY <1>1, <1>2, <1>3

(* The one-shot ticker and the end of main.                                 *)
LEMMA LifeInv ==
  ASSUME HandlersInv, Tick \/ Exit
  PROVE  HandlersInv' /\ event' = event /\ UNCHANGED <<pc, call>>
<1> USE DEF HandlersInv
<1>1. /\ UNCHANGED <<vars, related, pc, call, edits, faults, asked, event>>
      /\ life' \in {"quitting", "exited"}
  BY DEF Tick, Exit, informerVars, vars, loopVars, boundVars
<1>2. CoreInv'
  BY <1>1, StutterInv
<1>3. HandlersTypeOK' /\ EventInv'
  BY <1>1, <1>2 DEF HandlersTypeOK, CoreInv, EventInv
<1>4. AskedInv'
  BY <1>1, AskedKept, DroppedCopies
<1> QED BY <1>1, <1>2, <1>3, <1>4

(* Every step that the strategies share.                                    *)
LEMMA HandlersNextInv ==
  ASSUME HandlersInv, HandlersNext
  PROVE  HandlersInv'
<1>1. CASE HandlerDone
  BY <1>1, EndInv DEF HandlerDone, boundVars
<1>2. CASE RelatedPanics
  <2>1. faults' \in 0 .. MaxFaults
    BY <1>2, FaultBound DEF RelatedPanics, HandlersInv
  <2> QED BY <1>2, <2>1, EndInv DEF RelatedPanics, Panic
<1> QED BY <1>1, <1>2, InformerStepInv, DispatchInv, UpdateRelatedInv, LifeInv, UsersInv
        DEF HandlersNext

(* Such a step leaves a running Add or Remove where it is.                  *)
LEMMA HandlersNextFrame ==
  ASSUME HandlersInv, HandlersNext, pc \in {"add", "remove"}
  PROVE  event' = event /\ UNCHANGED <<pc, call>>
<1>1. event # NoEvent
  BY NoEventAssumption DEF HandlersInv, EventInv
<1>2. ~ (Dispatch \/ UpdateRelatedResources \/ RelatedPanics \/ HandlerDone)
  BY <1>1 DEF Dispatch, ProcessDelta, UpdateRelatedResources, RelatedPanics, HandlerDone
<1> QED BY <1>2, InformerStepInv, LifeInv, UsersInv DEF HandlersNext

(* To the informer, a step that the strategies share is one of its own.     *)
LEMMA HandlersNextInforms ==
  ASSUME HandlersInv, HandlersNext
  PROVE  InformerAction
<1>1. CASE CreateService \/ DeleteService \/ MarkService
  <2>1. PICK k \in Keys : \E o : ServerWrite(k, o)
    BY <1>1 DEF CreateService, DeleteService, MarkService, UserWrites
  <2>2. PICK o : ServerWrite(k, o)
    BY <2>1
  <2>3. o = svcs'[k] /\ svcs' \in [Keys -> MaybeObj]
    BY <1>1, <2>2, UsersInv DEF ServerWrite, HandlersInv, CoreInv, TypeOK
  <2> QED BY <2>2, <2>3 DEF InformerAction
<1>2. CASE ~ (CreateService \/ DeleteService \/ MarkService)
  BY <1>2 DEF HandlersNext, InformerAction, ListServices, ReplaceServices, WatchServices,
     BreakWatch, ResyncServices, PopService, InformerStep, Dispatch, UpdateRelatedResources,
     RelatedPanics, Panic, HandlerDone, Tick, Exit, informerVars
<1> QED BY <1>1, <1>2

(* And so is a patch of the annotation.                                     *)
LEMMA PatchInforms ==
  ASSUME HandlersInv, NEW url \in Urls, pc \in {"add", "remove"}, Patch(url)
  PROVE  InformerAction
<1>1. event.key \in Keys
  BY DEF HandlersInv, EventInv, HandlerEvents
<1>2. PatchChanges(event.key, url) => [svcs[event.key] EXCEPT !.url = url] \in MaybeObj
  BY <1>1, ServiceFacts DEF PatchChanges, HandlersInv, CoreInv, TypeOK, MaybeObj
<1> QED BY <1>1, <1>2 DEF Patch, InformerAction, informerVars
=============================================================================
