-------------------------- MODULE ServiceInformer --------------------------
(***************************************************************************)
(* The service informer that NewController starts: the reflector that      *)
(* lists and watches the services, the DeltaFIFO that holds what it saw,   *)
(* and the loop that pops one key at a time, brings the local store up to  *)
(* date and calls the controller's event handlers.  The library is         *)
(* vendored with the repository and everything the controller does starts  *)
(* with one of its callbacks.                                              *)
(*                                                                         *)
(* Pop keeps the DeltaFIFO's lock while the handlers run, so between a Pop *)
(* and the return of the last handler (popKey # None) Add, Update, Delete, *)
(* Replace, Resync and HasSynced wait.                                     *)
(*                                                                         *)
(* A delta of type Added, Updated or Sync is its object: the loop treats   *)
(* the three alike, and only queueActionLocked looks at Sync, where the    *)
(* caller's type is known.                                                 *)
(***************************************************************************)
EXTENDS Integers, Sequences, FiniteSets

CONSTANTS
  Keys,                     \* the services' namespace/name keys
  Obj,                      \* what a service object can hold
  Absent,                   \* no object under a key
  Deleted,                  \* a deletion the watch reported
  FinalStateUnknown,        \* a deletion found by a list (DeletedFinalStateUnknown)
  None,                     \* no key is being processed
  NoEvent,                  \* no handler is running
  MaxWatch,                 \* bound on the watch events under way
  MaxDeltas,                \* bound on the deltas pending for one key
  HandlersMayPanic          \* whether a callback can panic

ASSUME KeysAssumption == IsFiniteSet(Keys) /\ None \notin Keys
ASSUME ObjAssumption == Obj \cap {Absent, Deleted, FinalStateUnknown} = {}
ASSUME DeltaAssumption == Absent # Deleted /\ Absent # FinalStateUnknown /\ Deleted # FinalStateUnknown
ASSUME BoundsAssumption == MaxWatch \in Nat /\ MaxDeltas \in Nat
ASSUME PanicAssumption == HandlersMayPanic \in BOOLEAN

Deletions == {Deleted, FinalStateUnknown}
Delta == Obj \cup Deletions
MaybeObj == Obj \cup {Absent}
WatchEvents == [key : Keys, obj : MaybeObj]

(* A callback: OnAdd has no old object, OnDelete no new one but the delta.  *)
HandlerEvents == [key : Keys, old : MaybeObj, new : Delta]
ASSUME NoEventAssumption == NoEvent \notin HandlerEvents

VARIABLES
  svcs,                     \* the services in the API server
  rpc,                      \* where the reflector is: "list", "replace" or "watch"
  listed,                   \* the answer of a list on its way to Replace
  watchBuf,                 \* watch events sent by the server, not yet applied
  items,                    \* DeltaFIFO.items; <<>> stands for a key that is not in the map
  queue,                    \* DeltaFIFO.queue
  populated,                \* DeltaFIFO.populated
  initialPopulationCount,   \* DeltaFIFO.initialPopulationCount
  known,                    \* the informer's store (knownObjects, svcLister.Store)
  popKey,                   \* the key Pop is processing, under the lock
  popDeltas,                \* its deltas still to be processed
  event,                    \* the callback that is running
  unhandled,                \* history: keys of the first list whose handlers have not finished
  stale                     \* history: keys for which the queue lost or reverted a change

serverVars == <<svcs>>
reflectorVars == <<rpc, listed, watchBuf>>
fifoVars == <<items, queue, populated, initialPopulationCount>>
loopVars == <<known, popKey, popDeltas, event>>
historyVars == <<unhandled, stale>>
vars == <<serverVars, reflectorVars, fifoVars, loopVars, historyVars>>

TypeOK ==
  /\ svcs \in [Keys -> MaybeObj]
  /\ rpc \in {"list", "replace", "watch"}
  /\ listed \in [Keys -> MaybeObj]
  /\ watchBuf \in Seq(WatchEvents)
  /\ items \in [Keys -> Seq(Delta)]
  /\ queue \in Seq(Keys)
  /\ populated \in BOOLEAN
  /\ initialPopulationCount \in Nat
  /\ known \in [Keys -> MaybeObj]
  /\ popKey \in Keys \cup {None}
  /\ popDeltas \in Seq(Delta)
  /\ event \in HandlerEvents \cup {NoEvent}
  /\ unhandled \in SUBSET Keys
  /\ stale \in SUBSET Keys

(* What a freshly started informer knows: nothing.                          *)
ProcessInit ==
  /\ rpc = "list"
  /\ listed = [k \in Keys |-> Absent]
  /\ watchBuf = <<>>
  /\ items = [k \in Keys |-> <<>>]
  /\ queue = <<>>
  /\ populated = FALSE
  /\ initialPopulationCount = 0
  /\ known = [k \in Keys |-> Absent]
  /\ popKey = None
  /\ popDeltas = <<>>
  /\ event = NoEvent
  /\ unhandled = {}
  /\ stale = {}

Init ==
  /\ svcs \in [Keys -> MaybeObj]
  /\ ProcessInit

Unlocked == popKey = None

LastOf(s) == s[Len(s)]
Has(s, x) == \E i \in 1 .. Len(s) : s[i] = x
Distinct(s) == \A i, j \in 1 .. Len(s) : s[i] = s[j] => i = j

WillBeDeleted(k) == items[k] # <<>> /\ LastOf(items[k]) \in Deletions

(* dedupDeltas: two deletions in a row become the more informative one.     *)
AppendDelta(s, d) ==
  IF s = <<>> \/ d \notin Deletions \/ LastOf(s) \notin Deletions
  THEN Append(s, d)
  ELSE IF LastOf(s) = FinalStateUnknown
       THEN [s EXCEPT ![Len(s)] = d]
       ELSE s

(* A Sync delta is dropped when the key's last delta is a deletion.         *)
AppendSync(k, d) == IF WillBeDeleted(k) THEN items[k] ELSE Append(items[k], d)

(* The orders in which a set of keys can enter the queue.                   *)
Orderings(S) ==
  {f \in [1 .. Cardinality(S) -> S] :
     Distinct(f) /\ \A k \in S : Has(f, k)}

-----------------------------------------------------------------------------
(* The API server.  Any client may write a service; the reflector's watch   *)
(* reports every write made after its list.                                 *)

ServerWrite(k, o) ==
  /\ svcs[k] # o
  /\ svcs' = [svcs EXCEPT ![k] = o]
  /\ watchBuf' = IF rpc = "list" THEN watchBuf
                 ELSE Append(watchBuf, [key |-> k, obj |-> o])
  /\ UNCHANGED <<rpc, listed, fifoVars, loopVars, historyVars>>

-----------------------------------------------------------------------------
(* The reflector.                                                           *)

List ==
  /\ rpc = "list"
  /\ listed' = svcs
  /\ rpc' = "replace"
  /\ UNCHANGED <<serverVars, watchBuf, fifoVars, loopVars, historyVars>>

ListedKeys == {k \in Keys : listed[k] # Absent}
GoneKeys == {k \in Keys : listed[k] = Absent /\ known[k] # Absent}

(* Mutant: a relist that detects no deletions.                              *)
ReplaceItemsKeepsGone ==
  [k \in Keys |-> IF k \in ListedKeys THEN AppendSync(k, listed[k]) ELSE items[k]]

ReplaceItems ==
  [k \in Keys |->
     IF k \in ListedKeys THEN AppendSync(k, listed[k])
     ELSE IF k \in GoneKeys THEN AppendDelta(items[k], FinalStateUnknown)
     ELSE items[k]]

(* Keys the list does not bring up to date: recreated under a pending       *)
(* deletion, or deleted before their first delta reached the store.         *)
MissedByReplace ==
  {k \in Keys : \/ k \in ListedKeys /\ WillBeDeleted(k)
                \/ k \notin ListedKeys \cup GoneKeys /\ items[k] # <<>>}

Replace ==
  /\ rpc = "replace"
  /\ Unlocked
  /\ \A k \in Keys : Len(items[k]) < MaxDeltas
  /\ items' = ReplaceItems
  /\ \E p \in Orderings({k \in ListedKeys : items[k] = <<>>}),
        q \in Orderings({k \in GoneKeys : items[k] = <<>>}) :
       queue' = queue \o p \o q
  /\ populated' = TRUE
  /\ initialPopulationCount' = IF populated THEN initialPopulationCount
                               ELSE Cardinality(ListedKeys)
  /\ rpc' = "watch"
  /\ unhandled' = IF populated THEN unhandled ELSE ListedKeys
  /\ stale' = MissedByReplace
  /\ listed' = [k \in Keys |-> Absent]     \* the answer is not used again
  /\ UNCHANGED <<serverVars, watchBuf, loopVars>>

(* Mutant: a key that already has deltas is queued again.                   *)
EnqueueAlways(k, deltas) ==
  /\ items' = [items EXCEPT ![k] = deltas]
  /\ queue' = Append(queue, k)

Enqueue(k, deltas) ==
  /\ items' = [items EXCEPT ![k] = deltas]
  /\ queue' = IF items[k] = <<>> THEN Append(queue, k) ELSE queue

(* A deletion of a key that is neither stored nor queued is skipped.        *)
WatchEvent ==
  /\ rpc = "watch"
  /\ Unlocked
  /\ watchBuf # <<>>
  /\ LET k == Head(watchBuf).key
         o == Head(watchBuf).obj
     IN /\ Len(items[k]) < MaxDeltas
        /\ \/ /\ o # Absent
              /\ Enqueue(k, Append(items[k], o))
           \/ /\ o = Absent
              /\ known[k] # Absent \/ items[k] # <<>>
              /\ Enqueue(k, AppendDelta(items[k], Deleted))
           \/ /\ o = Absent
              /\ known[k] = Absent /\ items[k] = <<>>
              /\ UNCHANGED <<items, queue>>
        /\ stale' = stale \ {k}
  /\ watchBuf' = Tail(watchBuf)
  /\ populated' = TRUE
  /\ UNCHANGED <<serverVars, rpc, listed, initialPopulationCount, loopVars, unhandled>>

(* Mutant: the watch is opened again where the server is, without a list.   *)
WatchBreakNoRelist ==
  /\ rpc = "watch"
  /\ watchBuf # <<>>
  /\ watchBuf' = <<>>
  /\ UNCHANGED <<serverVars, rpc, listed, fifoVars, loopVars, historyVars>>

(* The watch ends with an error: the events under way are gone, and         *)
(* ListAndWatch starts over with a list.                                    *)
WatchBreak ==
  /\ rpc = "watch"
  /\ rpc' = "list"
  /\ watchBuf' = <<>>
  /\ UNCHANGED <<serverVars, listed, fifoVars, loopVars, historyVars>>

StoredKeys == {k \in Keys : known[k] # Absent}

(* The resync timer of any ListAndWatch that got past its first list; its   *)
(* goroutine outlives a broken watch.                                       *)
Resync ==
  /\ populated
  /\ Unlocked
  /\ StoredKeys # {}
  /\ \A k \in StoredKeys : Len(items[k]) < MaxDeltas
  /\ items' = [k \in Keys |-> IF k \in StoredKeys THEN AppendSync(k, known[k]) ELSE items[k]]
  /\ \E p \in Orderings({k \in StoredKeys : items[k] = <<>>}) : queue' = queue \o p
  /\ stale' = stale \cup {k \in StoredKeys : /\ items[k] # <<>>
                                             /\ ~ WillBeDeleted(k)
                                             /\ LastOf(items[k]) # known[k]}
  /\ UNCHANGED <<serverVars, reflectorVars, populated, initialPopulationCount, loopVars, unhandled>>

-----------------------------------------------------------------------------
(* The process loop.                                                        *)

(* Mutant: the population count is decremented at zero too.                 *)
CountAfterPopUnguarded == initialPopulationCount - 1

CountAfterPop == IF initialPopulationCount > 0
                 THEN initialPopulationCount - 1 ELSE initialPopulationCount

Pop ==
  /\ Unlocked
  /\ queue # <<>>
  /\ popKey' = Head(queue)
  /\ popDeltas' = items[Head(queue)]
  /\ items' = [items EXCEPT ![Head(queue)] = <<>>]
  /\ queue' = Tail(queue)
  /\ initialPopulationCount' = CountAfterPop
  /\ UNCHANGED <<serverVars, reflectorVars, populated, known, event, historyVars>>

(* One delta, oldest first: the store changes, then the callback starts.    *)
ProcessDelta ==
  /\ popDeltas # <<>>
  /\ event = NoEvent
  /\ known' = [known EXCEPT ![popKey] = IF Head(popDeltas) \in Deletions
                                        THEN Absent ELSE Head(popDeltas)]
  /\ event' = [key |-> popKey, old |-> known[popKey], new |-> Head(popDeltas)]
  /\ popDeltas' = Tail(popDeltas)
  /\ UNCHANGED <<serverVars, reflectorVars, fifoVars, popKey, historyVars>>

(* Pop returns and releases the lock.                                       *)
Release ==
  /\ popKey' = None
  /\ popDeltas' = <<>>
  /\ unhandled' = unhandled \ {popKey}

HandlerReturn ==
  /\ event # NoEvent
  /\ event' = NoEvent
  /\ \/ /\ popDeltas = <<>>
        /\ Release
     \/ /\ popDeltas # <<>>
        /\ UNCHANGED <<popKey, popDeltas, unhandled>>
  /\ UNCHANGED <<serverVars, reflectorVars, fifoVars, known, stale>>

(* A panic in a callback is recovered by HandleCrash: Pop's deferred unlock *)
(* runs, wait.Until starts the loop again, the key's other deltas are gone. *)
HandlerPanic ==
  /\ HandlersMayPanic
  /\ event # NoEvent
  /\ event' = NoEvent
  /\ Release
  /\ stale' = IF popDeltas = <<>> THEN stale ELSE stale \cup {popKey}
  /\ UNCHANGED <<serverVars, reflectorVars, fifoVars, known>>

(* The process dies and a new one starts: nothing of it is persisted.       *)
Restart ==
  /\ rpc' = "list"
  /\ listed' = [k \in Keys |-> Absent]
  /\ watchBuf' = <<>>
  /\ items' = [k \in Keys |-> <<>>]
  /\ queue' = <<>>
  /\ populated' = FALSE
  /\ initialPopulationCount' = 0
  /\ known' = [k \in Keys |-> Absent]
  /\ popKey' = None
  /\ popDeltas' = <<>>
  /\ event' = NoEvent
  /\ unhandled' = {}
  /\ stale' = {}
  /\ UNCHANGED serverVars

(* The steps of the server, of one controller process and its restarts.     *)
Next ==
  \/ /\ Len(watchBuf) < MaxWatch
     /\ \E k \in Keys, o \in MaybeObj : ServerWrite(k, o)
  \/ List
  \/ Replace
  \/ WatchEvent
  \/ WatchBreak
  \/ Resync
  \/ Pop
  \/ ProcessDelta
  \/ HandlerReturn
  \/ HandlerPanic
  \/ Restart

Spec == Init /\ [][Next]_vars

-----------------------------------------------------------------------------
(* Mutant: HasSynced without the lock.                                      *)
HasSyncedUnlocked == populated /\ initialPopulationCount = 0

(* HasSynced: what Hasrun and the one-shot ticker ask, under the lock.      *)
HasSynced == Unlocked /\ populated /\ initialPopulationCount = 0

(* The keys in the queue and the keys with deltas are the same ones, each   *)
(* queued once: "items in the set are in the queue and vice versa".         *)
QueueItemsAgree ==
  /\ Distinct(queue)
  /\ \A k \in Keys : items[k] # <<>> <=> Has(queue, k)

(* When HasSynced answers true, the handlers of every service of the first  *)
(* list have finished: a one-shot run does not stop in front of one of      *)
(* them.                                                                    *)
SyncedMeansHandled == HasSynced => unhandled = {}

(* What the informer will hold for k once it has worked off what it has.    *)
ObjectOf(d) == IF d \in Deletions THEN Absent ELSE d

Held(k) ==
  IF rpc = "replace" THEN listed[k]
  ELSE IF items[k] # <<>> THEN ObjectOf(LastOf(items[k]))
  ELSE IF popKey = k /\ popDeltas # <<>> THEN ObjectOf(LastOf(popDeltas))
  ELSE known[k]

PendingFor(k) == {i \in 1 .. Len(watchBuf) : watchBuf[i].key = k}

(* No change of a service is lost on its way through the watch, the queue   *)
(* and the store: the last event under way for a key carries the server's   *)
(* object, and without one the list, the queue or the store holds it; the   *)
(* three races marked in stale and a panic aside.                           *)
NoLostUpdate ==
  rpc # "list" =>
    \A k \in Keys :
      /\ \A i \in PendingFor(k) :
           (\A j \in PendingFor(k) : j <= i) => watchBuf[i].obj = svcs[k]
      /\ PendingFor(k) = {} /\ k \notin stale => Held(k) = svcs[k]
=============================================================================
