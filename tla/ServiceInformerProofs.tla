----------------------- MODULE ServiceInformerProofs -----------------------
(***************************************************************************)
(* Proofs about ServiceInformer: its type invariant, the agreement of the  *)
(* queue with the deltas, that a synced queue has handled the first list,  *)
(* and that no change of a service is lost, for every set of keys, objects *)
(* and every bound.                                                        *)
(***************************************************************************)
EXTENDS ServiceInformer, SequenceTheorems, FiniteSetTheorems, TLAPS

(* Nothing is processed while the lock is free, and the key that is being   *)
(* processed has no deltas pending.                                         *)
LockInv ==
  /\ popKey = None => popDeltas = <<>> /\ event = NoEvent
  /\ popKey # None => items[popKey] = <<>>

(* What the count counts: the keys of the first list that were not popped   *)
(* are the first ones of the queue.                                         *)
CountInv ==
  /\ ~ populated => /\ queue = <<>> /\ popKey = None
                    /\ unhandled = {} /\ initialPopulationCount = 0
  /\ initialPopulationCount <= Len(queue)
  /\ \A k \in unhandled :
       k = popKey \/ \E i \in 1 .. initialPopulationCount : queue[i] = k

(* A list starts without events under way, and its answer is up to date    *)
(* but for the events sent since, for the keys in stale too.                *)
ListInv ==
  /\ rpc = "list" => watchBuf = <<>>
  /\ rpc = "replace" => \A k \in Keys : PendingFor(k) = {} => listed[k] = svcs[k]

(* What holds whoever writes the store, and what needs a store that only    *)
(* the loop writes.                                                         *)
CoreInv == TypeOK /\ LockInv /\ QueueItemsAgree /\ CountInv
LossInv == ListInv /\ NoLostUpdate

IndInv == CoreInv /\ LossInv

-----------------------------------------------------------------------------
(* Facts about sequences.  The empty sequence is one of every type.         *)

(* The empty sequence has every type the variables need.                    *)
LEMMA EmptySeqs == /\ <<>> \in Seq(WatchEvents) /\ <<>> \in Seq(Delta) /\ <<>> \in Seq(Keys)
BY EmptySeq

(* The last element of a sequence one element longer.                       *)
LEMMA LastOfAppend ==
  ASSUME NEW S, NEW s \in Seq(S), NEW d \in S
  PROVE  /\ Append(s, d) \in Seq(S)
         /\ Append(s, d) # <<>>
         /\ LastOf(Append(s, d)) = d
  BY DEF LastOf

(* dropping the first of several elements keeps the last one.               *)
LEMMA LastOfTail ==
  ASSUME NEW S, NEW s \in Seq(S), s # <<>>
  PROVE  /\ Tail(s) \in Seq(S)
         /\ Tail(s) # <<>> => LastOf(Tail(s)) = LastOf(s)
         /\ Tail(s) = <<>> => LastOf(s) = Head(s)
<1>1. Tail(s) \in Seq(S) /\ Len(Tail(s)) = Len(s) - 1 /\ Head(s) = s[1] /\ Len(s) \in Nat
  BY HeadTailProperties, EmptySeq, LenProperties
<1>2. ASSUME Tail(s) # <<>> PROVE LastOf(Tail(s)) = LastOf(s)
  <2>1. Len(Tail(s)) \in Nat \ {0}
    BY <1>1, <1>2, EmptySeq
  <2>2. Tail(s)[Len(Tail(s))] = s[Len(Tail(s)) + 1]
    BY <1>1, <2>1, HeadTailProperties
  <2> QED BY <1>1, <2>1, <2>2 DEF LastOf
<1>3. ASSUME Tail(s) = <<>> PROVE LastOf(s) = Head(s)
  <2>1. Len(s) = 1
    BY <1>1, <1>3, Len(Tail(s)) = 0, EmptySeq
  <2> QED BY <1>1, <2>1 DEF LastOf
<1> QED BY <1>1, <1>2, <1>3

(* Two sequences without a common element and without repetitions, one      *)
(* after the other.                                                         *)
LEMMA ConcatDistinct ==
  ASSUME NEW S, NEW s \in Seq(S), NEW t \in Seq(S),
         Distinct(s), Distinct(t),
         \A x \in S : ~ (Has(s, x) /\ Has(t, x))
  PROVE  /\ s \o t \in Seq(S)
         /\ Len(s \o t) = Len(s) + Len(t)
         /\ Distinct(s \o t)
         /\ \A x \in S : Has(s \o t, x) <=> Has(s, x) \/ Has(t, x)
         /\ \A i \in 1 .. Len(s) : (s \o t)[i] = s[i]
<1> DEFINE u == s \o t
<1>1. /\ u \in Seq(S) /\ Len(u) = Len(s) + Len(t)
      /\ \A i \in 1 .. Len(s) + Len(t) :
           u[i] = IF i <= Len(s) THEN s[i] ELSE t[i - Len(s)]
  BY ConcatProperties
<1>2. Len(s) \in Nat /\ Len(t) \in Nat
  BY LenProperties
<1>3. \A i \in 1 .. Len(s) : s[i] \in S /\ Has(s, s[i])
  BY ElementOfSeq DEF Has
<1>4. \A i \in 1 .. Len(t) : t[i] \in S /\ Has(t, t[i])
  BY ElementOfSeq DEF Has
<1> HIDE DEF u
<1>5. Distinct(u)
  <2> SUFFICES ASSUME NEW i \in 1 .. Len(u), NEW j \in 1 .. Len(u), u[i] = u[j]
               PROVE  i = j
    BY DEF Distinct
  <2>1. CASE i <= Len(s) /\ j <= Len(s)
    <3>1. i \in 1 .. Len(s) /\ j \in 1 .. Len(s) /\ u[i] = s[i] /\ u[j] = s[j]
      BY <1>1, <1>2, <2>1
    <3> QED BY <3>1 DEF Distinct
  <2>2. CASE i > Len(s) /\ j > Len(s)
    <3>1. i - Len(s) \in 1 .. Len(t) /\ j - Len(s) \in 1 .. Len(t)
      BY <1>1, <1>2, <2>2
    <3>2. u[i] = t[i - Len(s)] /\ u[j] = t[j - Len(s)]
      BY <1>1, <1>2, <2>2
    <3>3. i - Len(s) = j - Len(s)
      BY <3>1, <3>2 DEF Distinct
    <3> QED BY <3>3, <1>1, <1>2
  <2>3. CASE i <= Len(s) /\ j > Len(s)
    <3>1. i \in 1 .. Len(s) /\ j - Len(s) \in 1 .. Len(t)
      BY <1>1, <1>2, <2>3
    <3>2. u[i] = s[i] /\ u[j] = t[j - Len(s)]
      BY <1>1, <1>2, <2>3
    <3> QED BY <3>1, <3>2, <1>3, <1>4
  <2>4. CASE i > Len(s) /\ j <= Len(s)
    <3>1. j \in 1 .. Len(s) /\ i - Len(s) \in 1 .. Len(t)
      BY <1>1, <1>2, <2>4
    <3>2. u[j] = s[j] /\ u[i] = t[i - Len(s)]
      BY <1>1, <1>2, <2>4
    <3> QED BY <3>1, <3>2, <1>3, <1>4
  <2> QED BY <1>1, <1>2, <2>1, <2>2, <2>3, <2>4
<1>6. \A x \in S : Has(u, x) <=> Has(s, x) \/ Has(t, x)
  <2> SUFFICES ASSUME NEW x \in S PROVE Has(u, x) <=> Has(s, x) \/ Has(t, x)
    OBVIOUS
  <2>1. ASSUME Has(u, x) PROVE Has(s, x) \/ Has(t, x)
    <3>1. PICK i \in 1 .. Len(u) : u[i] = x
      BY <2>1 DEF Has
    <3>2. CASE i <= Len(s)
      BY <1>1, <1>2, <3>1, <3>2 DEF Has
    <3>3. CASE i > Len(s)
      <4>1. i - Len(s) \in 1 .. Len(t) /\ t[i - Len(s)] = x
        BY <1>1, <1>2, <3>1, <3>3
      <4> QED BY <4>1 DEF Has
    <3> QED BY <1>1, <1>2, <3>2, <3>3
  <2>2. ASSUME Has(s, x) PROVE Has(u, x)
    BY <1>1, <1>2, <2>2 DEF Has
  <2>3. ASSUME Has(t, x) PROVE Has(u, x)
    <3>1. PICK i \in 1 .. Len(t) : t[i] = x
      BY <2>3 DEF Has
    <3>2. i + Len(s) \in 1 .. Len(s) + Len(t) /\ ~ (i + Len(s) <= Len(s))
      BY <1>2
    <3>3. u[i + Len(s)] = t[(i + Len(s)) - Len(s)] /\ (i + Len(s)) - Len(s) = i
      BY <1>1, <1>2, <3>2
    <3> QED BY <1>1, <3>1, <3>2, <3>3 DEF Has
  <2> QED BY <2>1, <2>2, <2>3
<1>7. \A i \in 1 .. Len(s) : u[i] = s[i]
  BY <1>1, <1>2
<1> QED BY <1>1, <1>5, <1>6, <1>7 DEF u

(* A key appended to a queue that does not hold it.                         *)
LEMMA AppendDistinct ==
  ASSUME NEW S, NEW s \in Seq(S), NEW x \in S, Distinct(s), ~ Has(s, x)
  PROVE  /\ Append(s, x) \in Seq(S)
         /\ Len(Append(s, x)) = Len(s) + 1
         /\ Distinct(Append(s, x))
         /\ \A y \in S : Has(Append(s, x), y) <=> Has(s, y) \/ y = x
         /\ \A i \in 1 .. Len(s) : Append(s, x)[i] = s[i]
<1>1. Len(s) \in Nat
  BY LenProperties
<1>2. Append(s, x) \in Seq(S) /\ Len(Append(s, x)) = Len(s) + 1
  OBVIOUS
<1>3. /\ \A i \in 1 .. Len(s) : Append(s, x)[i] = s[i]
      /\ Append(s, x)[Len(s) + 1] = x
  BY <1>1
<1> QED BY <1>1, <1>2, <1>3 DEF Distinct, Has

(* What is left of a queue without repetitions when its head is taken.      *)
LEMMA TailDistinct ==
  ASSUME NEW S, NEW s \in Seq(S), s # <<>>, Distinct(s)
  PROVE  /\ Head(s) \in S /\ Has(s, Head(s))
         /\ Tail(s) \in Seq(S)
         /\ Len(Tail(s)) = Len(s) - 1 /\ Len(s) \in Nat \ {0}
         /\ Distinct(Tail(s))
         /\ \A y \in S : Has(Tail(s), y) <=> Has(s, y) /\ y # Head(s)
         /\ \A i \in 1 .. Len(s) - 1 : Tail(s)[i] = s[i + 1]
<1>1. Len(s) \in Nat \ {0}
  BY EmptySeq
<1>2. /\ Head(s) \in S /\ Head(s) = s[1]
      /\ Tail(s) \in Seq(S) /\ Len(Tail(s)) = Len(s) - 1
      /\ \A i \in 1 .. Len(s) - 1 : Tail(s)[i] = s[i + 1]
  BY HeadTailProperties
<1>3. Has(s, Head(s))
  BY <1>1, <1>2 DEF Has
<1>4. Distinct(Tail(s))
  <2> SUFFICES ASSUME NEW i \in 1 .. Len(Tail(s)), NEW j \in 1 .. Len(Tail(s)),
                      Tail(s)[i] = Tail(s)[j]
               PROVE  i = j
    BY DEF Distinct
  <2>1. i + 1 \in 1 .. Len(s) /\ j + 1 \in 1 .. Len(s) /\ s[i + 1] = s[j + 1]
    BY <1>1, <1>2
  <2>2. i + 1 = j + 1
    BY <2>1 DEF Distinct
  <2> QED BY <2>2, <1>1, <1>2
<1>5. \A y \in S : Has(Tail(s), y) <=> Has(s, y) /\ y # Head(s)
  <2> SUFFICES ASSUME NEW y \in S PROVE Has(Tail(s), y) <=> Has(s, y) /\ y # Head(s)
    OBVIOUS
  <2>1. ASSUME Has(Tail(s), y) PROVE Has(s, y) /\ y # Head(s)
    <3>1. PICK i \in 1 .. Len(Tail(s)) : Tail(s)[i] = y
      BY <2>1 DEF Has
    <3>2. i + 1 \in 1 .. Len(s) /\ s[i + 1] = y /\ 1 \in 1 .. Len(s) /\ i + 1 # 1
      BY <1>1, <1>2, <3>1
    <3> QED BY <1>2, <3>2 DEF Has, Distinct
  <2>2. ASSUME Has(s, y), y # Head(s) PROVE Has(Tail(s), y)
    <3>1. PICK i \in 1 .. Len(s) : s[i] = y
      BY <2>2 DEF Has
    <3>2. i - 1 \in 1 .. Len(Tail(s)) /\ Tail(s)[i - 1] = y
      BY <1>1, <1>2, <2>2, <3>1
    <3> QED BY <3>2 DEF Has
  <2> QED BY <2>1, <2>2
<1> QED BY <1>1, <1>2, <1>3, <1>4, <1>5

-----------------------------------------------------------------------------
(* Facts about the operators of the model.                                  *)

(* An object is neither a deletion nor the absence of one.                  *)
LEMMA ObjFacts ==
  /\ \A o \in Obj : o # Absent /\ o \notin Deletions /\ ObjectOf(o) = o
  /\ \A d \in Deletions : d \in Delta /\ ObjectOf(d) = Absent
  /\ Absent \notin Deletions /\ Absent \notin Obj
  /\ Obj \subseteq Delta
BY ObjAssumption, DeltaAssumption DEF Deletions, Delta, ObjectOf

(* Whatever dedupDeltas does with a deletion, the last delta is one.        *)
LEMMA AppendDeltaFacts ==
  ASSUME NEW s \in Seq(Delta), NEW d \in Deletions
  PROVE  /\ AppendDelta(s, d) \in Seq(Delta)
         /\ AppendDelta(s, d) # <<>>
         /\ LastOf(AppendDelta(s, d)) \in Deletions
<1>1. d \in Delta
  BY ObjFacts
<1>2. CASE s = <<>> \/ LastOf(s) \notin Deletions
  BY <1>1, <1>2, LastOfAppend DEF AppendDelta
<1>3. CASE s # <<>> /\ LastOf(s) \in Deletions /\ LastOf(s) = FinalStateUnknown
  <2>1. Len(s) \in 1 .. Len(s)
    BY <1>3, EmptySeq
  <2>2. /\ [s EXCEPT ![Len(s)] = d] \in Seq(Delta)
        /\ Len([s EXCEPT ![Len(s)] = d]) = Len(s)
        /\ [s EXCEPT ![Len(s)] = d][Len(s)] = d
    BY <1>1, <2>1, ExceptSeq
  <2>3. [s EXCEPT ![Len(s)] = d] # <<>>
    BY <2>1, <2>2, EmptySeq
  <2>4. AppendDelta(s, d) = [s EXCEPT ![Len(s)] = d]
    BY <1>3 DEF AppendDelta
  <2> QED BY <2>2, <2>3, <2>4 DEF LastOf
<1>4. CASE s # <<>> /\ LastOf(s) \in Deletions /\ LastOf(s) # FinalStateUnknown
  BY <1>4 DEF AppendDelta
<1> QED BY <1>2, <1>3, <1>4

(* An ordering of a set of keys is a sequence of exactly these keys.        *)
LEMMA OrderingFacts ==
  ASSUME NEW S \in SUBSET Keys, NEW p \in Orderings(S)
  PROVE  /\ p \in Seq(Keys)
         /\ Len(p) = Cardinality(S) /\ Len(p) \in Nat
         /\ Distinct(p)
         /\ \A k \in Keys : Has(p, k) <=> k \in S
<1>1. Cardinality(S) \in Nat
  BY KeysAssumption, FS_Subset, FS_CardinalityType
<1>2. p \in [1 .. Cardinality(S) -> S] /\ Distinct(p) /\ \A k \in S : Has(p, k)
  BY DEF Orderings
<1>3. p \in Seq(S)
  BY <1>1, <1>2, SeqDef
<1>4. p \in Seq(Keys)
  BY <1>3, SeqMonotonic
<1>5. Len(p) = Cardinality(S)
  BY <1>1, <1>2, <1>3
<1>6. \A k \in Keys : Has(p, k) => k \in S
  BY <1>3, ElementOfSeq DEF Has
<1> QED BY <1>1, <1>2, <1>4, <1>5, <1>6

(* A Sync delta: the queue never becomes empty, and ends with the object    *)
(* unless the key is about to be deleted.                                   *)
LEMMA AppendSyncFacts ==
  ASSUME TypeOK, NEW k \in Keys, NEW o \in Obj
  PROVE  /\ AppendSync(k, o) \in Seq(Delta)
         /\ AppendSync(k, o) # <<>>
         /\ ~ WillBeDeleted(k) => LastOf(AppendSync(k, o)) = o
         /\ WillBeDeleted(k) => AppendSync(k, o) = items[k]
<1>1. items[k] \in Seq(Delta) /\ o \in Delta
  BY ObjFacts DEF TypeOK
<1> QED BY <1>1, LastOfAppend DEF AppendSync, WillBeDeleted

-----------------------------------------------------------------------------
(* The steps, one lemma each.                                               *)

LEMMA InitInv == Init => IndInv
<1> SUFFICES ASSUME Init PROVE IndInv
  OBVIOUS
<1> USE DEF Init, ProcessInit
<1>1. TypeOK
  BY EmptySeqs DEF TypeOK, MaybeObj
<1>2. LockInv /\ QueueItemsAgree /\ CountInv /\ ListInv /\ NoLostUpdate
  BY DEF LockInv, QueueItemsAgree, CountInv, ListInv, NoLostUpdate, Distinct, Has
<1> QED BY <1>1, <1>2 DEF IndInv, CoreInv, LossInv

(* A write on the server: its event, if a watch is to come, is the last.    *)
LEMMA ServerWriteInv ==
  ASSUME CoreInv, NEW k \in Keys, NEW o \in MaybeObj, ServerWrite(k, o)
  PROVE  CoreInv' /\ (LossInv => LossInv')
<1> USE DEF CoreInv
<1> DEFINE e == [key |-> k, obj |-> o]
<1>1. e \in WatchEvents /\ watchBuf \in Seq(WatchEvents) /\ Len(watchBuf) \in Nat
  BY DEF TypeOK, WatchEvents
<1>2. TypeOK'
  BY <1>1 DEF ServerWrite, TypeOK, fifoVars, loopVars, historyVars
<1>3. (LockInv /\ QueueItemsAgree /\ CountInv)'
  BY DEF ServerWrite, LockInv, QueueItemsAgree, CountInv, fifoVars, loopVars, historyVars
<1>4. ASSUME LossInv PROVE ListInv'
  <2> USE <1>4 DEF LossInv
  <2>1. CASE rpc = "replace"
    <3>1. watchBuf' = Append(watchBuf, e) /\ listed' = listed
      BY <2>1 DEF ServerWrite
    <3>2. /\ Len(watchBuf') = Len(watchBuf) + 1
          /\ \A i \in 1 .. Len(watchBuf) : watchBuf'[i] = watchBuf[i]
          /\ watchBuf'[Len(watchBuf) + 1] = e
      BY <1>1, <3>1
    <3>3. Len(watchBuf) + 1 \in PendingFor(k)'
      BY <1>1, <3>2 DEF PendingFor
    <3>4. \A h \in Keys : h # k => PendingFor(h) \subseteq PendingFor(h)' /\ svcs'[h] = svcs[h]
      BY <1>1, <3>2 DEF PendingFor, ServerWrite, TypeOK
    <3> QED BY <2>1, <3>1, <3>3, <3>4 DEF ListInv, ServerWrite
  <2>2. CASE rpc # "replace"
    BY <2>2 DEF ServerWrite, ListInv
  <2> QED BY <2>1, <2>2
<1>5. ASSUME LossInv PROVE NoLostUpdate'
  <2> USE <1>5 DEF LossInv
  <2> SUFFICES ASSUME rpc # "list", NEW h \in Keys
               PROVE  /\ \A i \in PendingFor(h)' :
                           (\A j \in PendingFor(h)' : j <= i) => watchBuf'[i].obj = svcs'[h]
                      /\ PendingFor(h)' = {} /\ h \notin stale => Held(h)' = svcs'[h]
    BY DEF NoLostUpdate, ServerWrite, historyVars
  <2>1. /\ watchBuf' = Append(watchBuf, e)
        /\ Len(watchBuf') = Len(watchBuf) + 1
        /\ \A i \in 1 .. Len(watchBuf) : watchBuf'[i] = watchBuf[i]
        /\ watchBuf'[Len(watchBuf) + 1] = e
    BY <1>1 DEF ServerWrite
  <2>2. Held(h)' = Held(h)
    BY DEF ServerWrite, Held, fifoVars, loopVars
  <2>3. CASE h = k
    <3>1. Len(watchBuf) + 1 \in PendingFor(h)'
      BY <1>1, <2>1, <2>3 DEF PendingFor
    <3>2. ASSUME NEW i \in PendingFor(h)', \A j \in PendingFor(h)' : j <= i
          PROVE  watchBuf'[i].obj = svcs'[h]
      <4>1. i = Len(watchBuf) + 1
        BY <1>1, <2>1, <3>1, <3>2 DEF PendingFor
      <4>2. svcs'[h] = o
        BY <2>3 DEF ServerWrite, TypeOK
      <4> QED BY <2>1, <4>1, <4>2
    <3> QED BY <3>1, <3>2
  <2>4. CASE h # k
    <3>1. PendingFor(h)' = PendingFor(h)
      BY <1>1, <2>1, <2>4 DEF PendingFor
    <3>2. \A i \in PendingFor(h) : watchBuf'[i] = watchBuf[i]
      BY <2>1 DEF PendingFor
    <3>3. svcs'[h] = svcs[h]
      BY <2>4 DEF ServerWrite, TypeOK
    <3> QED BY <2>2, <3>1, <3>2, <3>3 DEF NoLostUpdate
  <2> QED BY <2>3, <2>4
<1> QED BY <1>2, <1>3, <1>4, <1>5 DEF LossInv

(* The list's answer is the server's content, and no event is under way.    *)
LEMMA ListStepInv ==
  ASSUME CoreInv, List
  PROVE  CoreInv' /\ (LossInv => LossInv')
<1> USE DEF CoreInv
<1>1. TypeOK'
  BY DEF List, TypeOK, serverVars, fifoVars, loopVars, historyVars
<1>2. (LockInv /\ QueueItemsAgree /\ CountInv)'
  BY DEF List, LockInv, QueueItemsAgree, CountInv, fifoVars, loopVars, historyVars
<1>3. ASSUME LossInv PROVE LossInv'
  BY <1>3 DEF List, LossInv, NoLostUpdate, ListInv, PendingFor, Held, serverVars
<1> QED BY <1>1, <1>2, <1>3

(* A watch that breaks: what was under way will be listed.                  *)
LEMMA WatchBreakInv ==
  ASSUME CoreInv, WatchBreak
  PROVE  CoreInv' /\ (LossInv => LossInv')
<1> USE DEF CoreInv
<1>1. TypeOK'
  BY DEF WatchBreak, TypeOK, serverVars, fifoVars, loopVars, historyVars
<1>2. (LockInv /\ QueueItemsAgree /\ CountInv)'
  BY DEF WatchBreak, LockInv, QueueItemsAgree, CountInv, fifoVars, loopVars, historyVars
<1>3. LossInv'
  BY DEF WatchBreak, LossInv, ListInv, NoLostUpdate
<1> QED BY <1>1, <1>2, <1>3

(* A new process knows nothing, and lists.                                  *)
LEMMA RestartInv ==
  ASSUME CoreInv, Restart
  PROVE  CoreInv' /\ (LossInv => LossInv')
<1>1. TypeOK'
  BY EmptySeqs DEF CoreInv, Restart, TypeOK, MaybeObj, serverVars
<1>2. (LockInv /\ QueueItemsAgree /\ CountInv)' /\ LossInv'
  BY DEF Restart, LockInv, QueueItemsAgree, CountInv, LossInv, ListInv, NoLostUpdate, Distinct, Has
<1> QED BY <1>1, <1>2 DEF CoreInv

(* Pop: the head of the queue, with all its deltas, is now in popDeltas.    *)
LEMMA PopInv ==
  ASSUME CoreInv, Pop
  PROVE  CoreInv' /\ (LossInv => LossInv')
<1> USE DEF CoreInv
<1> DEFINE h == Head(queue)
<1>1. /\ queue \in Seq(Keys) /\ queue # <<>> /\ Distinct(queue)
      /\ items \in [Keys -> Seq(Delta)]
      /\ initialPopulationCount \in Nat /\ popKey = None /\ None \notin Keys
  BY KeysAssumption DEF Pop, Unlocked, TypeOK, QueueItemsAgree
<1>2. /\ h \in Keys /\ Has(queue, h)
      /\ Tail(queue) \in Seq(Keys)
      /\ Len(Tail(queue)) = Len(queue) - 1 /\ Len(queue) \in Nat \ {0}
      /\ Distinct(Tail(queue))
      /\ \A y \in Keys : Has(Tail(queue), y) <=> Has(queue, y) /\ y # h
      /\ \A i \in 1 .. Len(queue) - 1 : Tail(queue)[i] = queue[i + 1]
  BY <1>1, TailDistinct
<1>3. /\ queue' = Tail(queue) /\ popKey' = h /\ popDeltas' = items[h]
      /\ items' = [items EXCEPT ![h] = <<>>]
      /\ initialPopulationCount' = CountAfterPop
  BY DEF Pop
<1>4. /\ CountAfterPop \in Nat
      /\ initialPopulationCount = 0 => CountAfterPop = 0
      /\ initialPopulationCount # 0 => CountAfterPop = initialPopulationCount - 1
  BY <1>1 DEF CountAfterPop
<1> HIDE DEF h
<1>5. TypeOK'
  BY <1>1, <1>2, <1>3, <1>4 DEF Pop, TypeOK, serverVars, reflectorVars, historyVars
<1>6. LockInv'
  BY <1>1, <1>2, <1>3 DEF LockInv
<1>7. QueueItemsAgree'
  BY <1>1, <1>2, <1>3 DEF QueueItemsAgree
<1>8. CountInv'
  <2>1. populated' = populated /\ unhandled' = unhandled /\ populated
    BY <1>1 DEF Pop, historyVars, CountInv
  <2>2. initialPopulationCount' <= Len(queue')
    BY <1>1, <1>2, <1>3, <1>4 DEF CountInv
  <2>3. ASSUME NEW k \in unhandled
        PROVE  k = popKey' \/ \E i \in 1 .. initialPopulationCount' : queue'[i] = k
    <3>1. k \in Keys /\ k # popKey
      BY <1>1 DEF TypeOK
    <3>2. PICK i \in 1 .. initialPopulationCount : queue[i] = k
      BY <3>1 DEF CountInv
    <3>3. CASE i = 1
      BY <1>1, <1>3, <3>2, <3>3 DEF h
    <3>4. CASE i # 1
      <4>1. i - 1 \in 1 .. initialPopulationCount' /\ i - 1 \in 1 .. Len(queue) - 1
        BY <1>1, <1>2, <1>3, <1>4, <3>2, <3>4 DEF CountInv
      <4>2. queue'[i - 1] = k
        BY <1>2, <1>3, <3>2, <4>1
      <4> QED BY <4>1, <4>2
    <3> QED BY <3>3, <3>4
  <2> QED BY <2>1, <2>2, <2>3 DEF CountInv
<1>9. ASSUME LossInv PROVE LossInv'
  <2>1. UNCHANGED <<svcs, rpc, listed, watchBuf, known, stale>>
    BY DEF Pop, serverVars, reflectorVars, historyVars
  <2>2. \A k \in Keys : PendingFor(k)' = PendingFor(k)
    BY <2>1 DEF PendingFor
  <2>3. ASSUME NEW k \in Keys PROVE Held(k)' = Held(k)
    BY <1>1, <1>2, <1>3, <2>1 DEF Held, QueueItemsAgree
  <2> QED BY <1>9, <2>1, <2>2, <2>3 DEF LossInv, ListInv, NoLostUpdate
<1> QED BY <1>5, <1>6, <1>7, <1>8, <1>9

(* One delta is applied to the store; what the key will hold is the same.   *)
LEMMA ProcessDeltaInv ==
  ASSUME CoreInv, ProcessDelta
  PROVE  CoreInv' /\ (LossInv => LossInv')
<1> USE DEF CoreInv
<1> DEFINE d == Head(popDeltas)
<1>1. popKey \in Keys /\ popKey # None /\ items[popKey] = <<>>
  BY KeysAssumption DEF ProcessDelta, LockInv, TypeOK
<1>2. /\ d \in Delta /\ popDeltas \in Seq(Delta) /\ popDeltas # <<>>
      /\ Tail(popDeltas) \in Seq(Delta)
      /\ Tail(popDeltas) # <<>> => LastOf(Tail(popDeltas)) = LastOf(popDeltas)
      /\ Tail(popDeltas) = <<>> => LastOf(popDeltas) = d
  BY LastOfTail, HeadTailProperties DEF ProcessDelta, TypeOK
<1>3. /\ known' = [known EXCEPT ![popKey] = ObjectOf(d)]
      /\ event' = [key |-> popKey, old |-> known[popKey], new |-> d]
      /\ popDeltas' = Tail(popDeltas)
      /\ UNCHANGED <<svcs, rpc, listed, watchBuf, items, queue, populated,
                     initialPopulationCount, popKey, unhandled, stale>>
  BY DEF ProcessDelta, ObjectOf, serverVars, reflectorVars, fifoVars, historyVars
<1>4. ObjectOf(d) \in MaybeObj
  BY <1>2 DEF ObjectOf, Delta, MaybeObj
<1> HIDE DEF d
<1>5. TypeOK'
  <2>1. known' \in [Keys -> MaybeObj]
    BY <1>3, <1>4 DEF TypeOK
  <2>2. event' \in HandlerEvents
    BY <1>1, <1>2, <1>3 DEF TypeOK, HandlerEvents
  <2> QED BY <1>2, <1>3, <2>1, <2>2 DEF TypeOK
<1>6. (LockInv /\ QueueItemsAgree /\ CountInv)'
  BY <1>1, <1>3 DEF LockInv, QueueItemsAgree, CountInv
<1>7. ASSUME LossInv PROVE LossInv'
  <2>1. \A k \in Keys : PendingFor(k)' = PendingFor(k)
    BY <1>3 DEF PendingFor
  <2>2. ASSUME NEW k \in Keys PROVE Held(k)' = Held(k)
    BY <1>1, <1>2, <1>3 DEF Held, TypeOK
  <2> QED BY <1>3, <1>7, <2>1, <2>2 DEF LossInv, ListInv, NoLostUpdate
<1> QED BY <1>5, <1>6, <1>7

(* The end of a callback, by return or panic.                               *)
LEMMA HandlerEndInv ==
  ASSUME CoreInv, HandlerReturn \/ HandlerPanic
  PROVE  CoreInv' /\ (LossInv => LossInv')
<1> USE DEF CoreInv
<1>1. UNCHANGED <<svcs, rpc, listed, watchBuf, items, queue, populated,
                  initialPopulationCount, known>>
  BY DEF HandlerReturn, HandlerPanic, serverVars, reflectorVars, fifoVars
<1>2. TypeOK'
  <2>1. /\ event' = NoEvent
        /\ popKey' \in {popKey, None} /\ popDeltas' \in {popDeltas, <<>>}
        /\ unhandled' \subseteq unhandled
        /\ stale' \subseteq stale \cup ({popKey} \cap Keys)
    <3>1. CASE HandlerReturn
      BY <3>1 DEF HandlerReturn, Release
    <3>2. CASE HandlerPanic
      BY <3>2, KeysAssumption DEF HandlerPanic, Release, TypeOK, LockInv
    <3> QED BY <3>1, <3>2
  <2> QED BY <1>1, <2>1, EmptySeqs DEF TypeOK
<1>3. LockInv'
  BY <1>1 DEF HandlerReturn, HandlerPanic, Release, LockInv, TypeOK
<1>4. QueueItemsAgree'
  BY <1>1 DEF QueueItemsAgree
<1>5. CountInv'
  BY <1>1 DEF HandlerReturn, HandlerPanic, Release, CountInv, LockInv
<1>6. ASSUME LossInv PROVE LossInv'
  <2>1. \A k \in Keys : PendingFor(k)' = PendingFor(k)
    BY <1>1 DEF PendingFor
  <2>2. stale \subseteq stale' /\ \A k \in Keys \ stale' : Held(k)' = Held(k)
    BY <1>1 DEF HandlerReturn, HandlerPanic, Release, Held
  <2> QED BY <1>1, <1>6, <2>1, <2>2 DEF LossInv, ListInv, NoLostUpdate
<1> QED BY <1>2, <1>3, <1>4, <1>5, <1>6

(* New keys, in any order, at the end of a queue without repetitions.       *)
LEMMA QueueGrows ==
  ASSUME NEW s \in Seq(Keys), Distinct(s), NEW N \in SUBSET Keys,
         \A k \in N : ~ Has(s, k), NEW p \in Orderings(N)
  PROVE  /\ s \o p \in Seq(Keys)
         /\ Len(s \o p) = Len(s) + Cardinality(N)
         /\ Len(s) \in Nat /\ Cardinality(N) \in Nat
         /\ Distinct(s \o p)
         /\ \A k \in Keys : Has(s \o p, k) <=> Has(s, k) \/ k \in N
         /\ \A i \in 1 .. Len(s) : (s \o p)[i] = s[i]
<1>1. /\ p \in Seq(Keys) /\ Len(p) = Cardinality(N) /\ Len(p) \in Nat
      /\ Distinct(p) /\ \A k \in Keys : Has(p, k) <=> k \in N
  BY OrderingFacts
<1>2. /\ s \o p \in Seq(Keys)
      /\ Len(s \o p) = Len(s) + Len(p)
      /\ Distinct(s \o p)
      /\ \A k \in Keys : Has(s \o p, k) <=> Has(s, k) \/ Has(p, k)
      /\ \A i \in 1 .. Len(s) : (s \o p)[i] = s[i]
  BY <1>1, ConcatDistinct
<1> QED BY <1>1, <1>2, LenProperties

(* A longer queue with the same beginning counts the same keys.             *)
LEMMA CountInvGrows ==
  ASSUME TypeOK, CountInv, populated, populated' = TRUE,
         UNCHANGED <<initialPopulationCount, unhandled, popKey>>,
         Len(queue') \in Nat, Len(queue) \in Nat, Len(queue) <= Len(queue'),
         \A i \in 1 .. Len(queue) : queue'[i] = queue[i]
  PROVE  CountInv'
<1>1. initialPopulationCount \in Nat /\ initialPopulationCount <= Len(queue)
  BY DEF TypeOK, CountInv
<1>2. \A i \in 1 .. initialPopulationCount : queue'[i] = queue[i]
  BY <1>1
<1> QED BY <1>1, <1>2 DEF CountInv

(* A resync puts stored objects behind the deltas; the keys it sets back    *)
(* are in stale.                                                            *)
LEMMA ResyncInv ==
  ASSUME CoreInv, Resync
  PROVE  CoreInv' /\ (LossInv => LossInv')
<1> USE DEF CoreInv
<1> DEFINE N == {k \in StoredKeys : items[k] = <<>>}
<1>1. PICK p \in Orderings(N) : queue' = queue \o p
  BY DEF Resync
<1>2. /\ UNCHANGED <<svcs, rpc, listed, watchBuf, populated, initialPopulationCount,
                     known, popKey, popDeltas, event, unhandled>>
      /\ populated /\ popKey = None
      /\ items' = [k \in Keys |-> IF k \in StoredKeys THEN AppendSync(k, known[k]) ELSE items[k]]
  BY DEF Resync, Unlocked, serverVars, reflectorVars, loopVars
<1>3. ASSUME NEW k \in StoredKeys
      PROVE  /\ k \in Keys /\ known[k] \in Obj
             /\ items'[k] = AppendSync(k, known[k])
             /\ items'[k] \in Seq(Delta) /\ items'[k] # <<>>
             /\ ~ WillBeDeleted(k) => LastOf(items'[k]) = known[k]
             /\ WillBeDeleted(k) => items'[k] = items[k]
  <2>1. k \in Keys /\ known[k] \in Obj
    BY DEF StoredKeys, TypeOK, MaybeObj
  <2>2. items'[k] = AppendSync(k, known[k])
    BY <1>2, <2>1
  <2> QED BY <2>1, <2>2, AppendSyncFacts
<1>4. \A k \in Keys : k \notin StoredKeys => items'[k] = items[k]
  BY <1>2
<1>5. /\ queue' \in Seq(Keys) /\ Distinct(queue')
      /\ Len(queue') = Len(queue) + Cardinality(N)
      /\ Len(queue) \in Nat /\ Cardinality(N) \in Nat
      /\ \A k \in Keys : Has(queue', k) <=> Has(queue, k) \/ k \in N
      /\ \A i \in 1 .. Len(queue) : queue'[i] = queue[i]
  <2>1. /\ queue \in Seq(Keys) /\ Distinct(queue)
        /\ N \in SUBSET Keys /\ \A k \in N : ~ Has(queue, k)
    BY DEF TypeOK, QueueItemsAgree, StoredKeys
  <2> HIDE DEF N
  <2> QED BY <1>1, <2>1, QueueGrows
<1>6. TypeOK'
  <2>1. items' \in [Keys -> Seq(Delta)]
    BY <1>2, <1>3, <1>4 DEF TypeOK
  <2>2. stale' \subseteq Keys
    BY DEF Resync, StoredKeys, TypeOK
  <2> QED BY <1>2, <1>5, <2>1, <2>2 DEF TypeOK
<1>7. LockInv'
  BY <1>2 DEF LockInv
<1>8. QueueItemsAgree'
  <2>1. \A k \in Keys : items'[k] # <<>> <=> items[k] # <<>> \/ k \in N
    BY <1>3, <1>4
  <2> HIDE DEF N
  <2> QED BY <1>5, <2>1 DEF QueueItemsAgree
<1>9. CountInv'
  BY <1>2, <1>5, CountInvGrows
<1>10. ASSUME LossInv PROVE LossInv'
  <2>1. \A k \in Keys : PendingFor(k)' = PendingFor(k)
    BY <1>2 DEF PendingFor
  <2>2. ASSUME NEW k \in Keys, k \notin stale' PROVE Held(k)' = Held(k)
    <3>1. CASE k \notin StoredKeys
      BY <1>2, <1>4, <3>1 DEF Held
    <3>2. CASE k \in StoredKeys /\ WillBeDeleted(k)
      BY <1>2, <1>3, <3>2 DEF Held
    <3>3. CASE k \in StoredKeys /\ ~ WillBeDeleted(k)
      <4>1. LastOf(items'[k]) = known[k] /\ items'[k] # <<>> /\ known[k] \in Obj
        BY <1>3, <3>3
      <4>2. items[k] # <<>> => LastOf(items[k]) = known[k]
        BY <2>2, <3>3 DEF Resync
      <4>3. ObjectOf(known[k]) = known[k]
        BY <4>1, ObjFacts
      <4>4. items[k] # <<>> => ObjectOf(LastOf(items[k])) = known[k]
        BY <4>2, <4>3
      <4>5. ObjectOf(LastOf(items'[k])) = known[k]
        BY <4>1, <4>3
      <4>6. popKey # k
        BY <1>2, KeysAssumption
      <4> QED BY <1>2, <4>1, <4>4, <4>5, <4>6 DEF Held
    <3> QED BY <3>1, <3>2, <3>3
  <2>3. stale \subseteq stale'
    BY DEF Resync
  <2> QED BY <1>2, <1>10, <2>1, <2>2, <2>3 DEF LossInv, ListInv, NoLostUpdate
<1> QED BY <1>6, <1>7, <1>8, <1>9, <1>10

(* The oldest event under way reaches the queue.                            *)
LEMMA WatchEventInv ==
  ASSUME CoreInv, WatchEvent
  PROVE  CoreInv' /\ (LossInv => LossInv')
<1> USE DEF CoreInv
<1> DEFINE k == Head(watchBuf).key
           o == Head(watchBuf).obj
<1>1. /\ watchBuf \in Seq(WatchEvents) /\ watchBuf # <<>> /\ rpc = "watch"
      /\ popKey = None /\ items \in [Keys -> Seq(Delta)] /\ queue \in Seq(Keys)
  BY DEF WatchEvent, Unlocked, TypeOK
<1>2. /\ Head(watchBuf) \in WatchEvents /\ Head(watchBuf) = watchBuf[1]
      /\ watchBuf' = Tail(watchBuf) /\ Tail(watchBuf) \in Seq(WatchEvents)
      /\ Len(watchBuf) \in Nat \ {0} /\ Len(watchBuf') = Len(watchBuf) - 1
      /\ \A i \in 1 .. Len(watchBuf) - 1 : watchBuf'[i] = watchBuf[i + 1]
  BY <1>1, HeadTailProperties, EmptySeq DEF WatchEvent
<1>3. k \in Keys /\ o \in MaybeObj
  BY <1>2 DEF WatchEvents
<1>4. /\ UNCHANGED <<svcs, rpc, listed, initialPopulationCount, known, popKey,
                     popDeltas, event, unhandled>>
      /\ populated' = TRUE /\ stale' = stale \ {k}
  BY DEF WatchEvent, serverVars, loopVars
<1>5. PICK deltas \in Seq(Delta) :
        /\ items' = [items EXCEPT ![k] = deltas]
        /\ queue' = IF items[k] = <<>> /\ deltas # <<>> THEN Append(queue, k) ELSE queue
        /\ items[k] # <<>> => deltas # <<>>
        /\ deltas # <<>> => ObjectOf(LastOf(deltas)) = o
        /\ deltas = <<>> => known[k] = o
  <2>1. CASE o # Absent
    <3>1. o \in Delta /\ ObjectOf(o) = o
      BY <1>3, <2>1, ObjFacts DEF MaybeObj
    <3>2. /\ Append(items[k], o) \in Seq(Delta) /\ Append(items[k], o) # <<>>
          /\ LastOf(Append(items[k], o)) = o
      <4> HIDE DEF k, o
      <4>1. items[k] \in Seq(Delta)
        BY <1>1, <1>3
      <4> QED BY <3>1, <4>1, LastOfAppend
    <3>3. Enqueue(k, Append(items[k], o))
      BY <2>1 DEF WatchEvent
    <3> HIDE DEF k, o
    <3> QED BY <3>1, <3>2, <3>3 DEF Enqueue
  <2>2. CASE o = Absent /\ (known[k] # Absent \/ items[k] # <<>>)
    <3>1. Deleted \in Deletions
      BY DEF Deletions
    <3>2. /\ AppendDelta(items[k], Deleted) \in Seq(Delta)
          /\ AppendDelta(items[k], Deleted) # <<>>
          /\ ObjectOf(LastOf(AppendDelta(items[k], Deleted))) = Absent
      BY <1>1, <1>3, <3>1, AppendDeltaFacts, ObjFacts
    <3>3. Enqueue(k, AppendDelta(items[k], Deleted))
      BY <2>2 DEF WatchEvent
    <3> HIDE DEF k, o
    <3> QED BY <2>2, <3>2, <3>3 DEF Enqueue
  <2>3. CASE o = Absent /\ known[k] = Absent /\ items[k] = <<>>
    <3>1. UNCHANGED <<items, queue>>
      BY <2>3 DEF WatchEvent
    <3>2. items' = [items EXCEPT ![k] = <<>>]
      BY <1>1, <1>3, <2>3, <3>1
    <3> HIDE DEF k, o
    <3> QED BY <2>3, <3>1, <3>2, EmptySeqs
  <2> QED BY <2>1, <2>2, <2>3
<1> HIDE DEF k, o
<1>6. /\ queue' \in Seq(Keys) /\ Distinct(queue')
      /\ Len(queue) \in Nat /\ Len(queue') \in Nat /\ Len(queue) <= Len(queue')
      /\ \A h \in Keys : Has(queue', h) <=>
                          Has(queue, h) \/ (h = k /\ items[k] = <<>> /\ deltas # <<>>)
      /\ \A i \in 1 .. Len(queue) : queue'[i] = queue[i]
  <2>1. Distinct(queue) /\ (items[k] = <<>> => ~ Has(queue, k)) /\ Len(queue) \in Nat
    BY <1>1, <1>3, LenProperties DEF QueueItemsAgree
  <2>2. CASE items[k] = <<>> /\ deltas # <<>>
    <3>1. queue' = Append(queue, k)
      BY <1>5, <2>2
    <3> QED BY <1>1, <1>3, <2>1, <2>2, <3>1, AppendDistinct
  <2>3. CASE ~ (items[k] = <<>> /\ deltas # <<>>)
    <3>1. queue' = queue
      BY <1>5, <2>3
    <3> QED BY <1>1, <2>1, <2>3, <3>1
  <2> QED BY <2>2, <2>3
<1>7. TypeOK'
  <2>1. items' \in [Keys -> Seq(Delta)]
    BY <1>1, <1>3, <1>5
  <2>2. watchBuf' \in Seq(WatchEvents)
    BY <1>2
  <2> QED BY <1>4, <1>6, <2>1, <2>2 DEF TypeOK
<1>8. LockInv'
  BY <1>1, <1>4 DEF LockInv
<1>9. QueueItemsAgree'
  <2>1. \A h \in Keys : items'[h] = IF h = k THEN deltas ELSE items[h]
    BY <1>1, <1>5
  <2> QED BY <1>3, <1>5, <1>6, <2>1 DEF QueueItemsAgree
<1>10. CountInv'
  <2>1. CASE populated
    BY <1>4, <1>6, <2>1, CountInvGrows
  <2>2. CASE ~ populated
    BY <1>4, <1>6, <2>2 DEF CountInv
  <2> QED BY <2>1, <2>2
<1>11. ASSUME LossInv PROVE LossInv'
  <2> USE <1>11 DEF LossInv
  <2> SUFFICES ASSUME NEW h \in Keys
               PROVE  /\ \A i \in PendingFor(h)' :
                           (\A j \in PendingFor(h)' : j <= i) => watchBuf'[i].obj = svcs[h]
                      /\ PendingFor(h)' = {} /\ h \notin stale' => Held(h)' = svcs[h]
    BY <1>1, <1>4 DEF ListInv, NoLostUpdate
  <2>1. \A i \in PendingFor(h)' : i + 1 \in PendingFor(h) /\ watchBuf'[i] = watchBuf[i + 1]
    BY <1>2 DEF PendingFor
  <2>2. \A i \in PendingFor(h) : i # 1 => i - 1 \in PendingFor(h)'
    BY <1>2 DEF PendingFor
  <2>3. 1 \in PendingFor(h) <=> h = k
    BY <1>2 DEF PendingFor, k
  <2>4. PendingFor(h) \subseteq Nat \ {0} /\ PendingFor(h)' \subseteq Nat \ {0}
    BY DEF PendingFor
  <2>5. ASSUME NEW i \in PendingFor(h)', \A j \in PendingFor(h)' : j <= i
        PROVE  watchBuf'[i].obj = svcs[h]
    <3>1. \A j \in PendingFor(h) : j <= i + 1
      <4> SUFFICES ASSUME NEW j \in PendingFor(h) PROVE j <= i + 1
        OBVIOUS
      <4>1. CASE j = 1
        BY <2>4, <4>1
      <4>2. CASE j # 1
        <5>1. j - 1 <= i
          BY <2>2, <2>5, <4>2
        <5> QED BY <2>4, <5>1
      <4> QED BY <4>1, <4>2
    <3> QED BY <1>1, <2>1, <3>1 DEF NoLostUpdate
  <2>6. ASSUME PendingFor(h)' = {}, h \notin stale' PROVE Held(h)' = svcs[h]
    <3>1. CASE h = k
      <4>1. \A j \in PendingFor(h) : j <= 1
        BY <2>2, <2>6
      <4>2. o = svcs[h]
        BY <1>1, <1>2, <2>3, <3>1, <4>1 DEF NoLostUpdate, o
      <4>3. items'[h] = deltas
        BY <1>1, <1>3, <1>5, <3>1
      <4>4. popKey' # h
        BY <1>1, <1>4, KeysAssumption
      <4>5. CASE deltas # <<>>
        BY <1>1, <1>4, <1>5, <4>2, <4>3, <4>5 DEF Held
      <4>6. CASE deltas = <<>>
        BY <1>1, <1>4, <1>5, <3>1, <4>2, <4>3, <4>4, <4>6 DEF Held
      <4> QED BY <4>5, <4>6
    <3>2. CASE h # k
      <4>1. PendingFor(h) = {} /\ h \notin stale
        BY <1>4, <2>2, <2>3, <2>6, <3>2
      <4>2. Held(h)' = Held(h)
        BY <1>1, <1>4, <1>5, <3>2 DEF Held
      <4> QED BY <1>1, <4>1, <4>2 DEF NoLostUpdate
    <3> QED BY <3>1, <3>2
  <2> QED BY <2>5, <2>6
<1> QED BY <1>7, <1>8, <1>9, <1>10, <1>11

(* Replace: listed keys end with their object, unlisted stored keys with a  *)
(* deletion; the exceptions are in stale.                                   *)
LEMMA ReplaceInv ==
  ASSUME CoreInv, Replace
  PROVE  CoreInv' /\ (LossInv => LossInv')
<1> USE DEF CoreInv
<1> DEFINE L == {k \in ListedKeys : items[k] = <<>>}
           G == {k \in GoneKeys : items[k] = <<>>}
<1>1. PICK p \in Orderings(L), q \in Orderings(G) : queue' = queue \o p \o q
  BY DEF Replace
<1>2. /\ UNCHANGED <<svcs, watchBuf, known, popKey, popDeltas, event>>
      /\ rpc = "replace" /\ rpc' = "watch" /\ popKey = None
      /\ populated' = TRUE /\ stale' = MissedByReplace
      /\ listed' = [k \in Keys |-> Absent]
      /\ items' = ReplaceItems
  BY DEF Replace, Unlocked, serverVars, loopVars
<1>3. /\ L \subseteq Keys /\ G \subseteq Keys /\ L \cap G = {}
      /\ queue \in Seq(Keys) /\ Distinct(queue)
      /\ \A k \in L \cup G : ~ Has(queue, k)
  BY DEF ListedKeys, GoneKeys, TypeOK, QueueItemsAgree
<1>4. ASSUME NEW k \in ListedKeys
      PROVE  /\ k \in Keys /\ listed[k] \in Obj
             /\ items'[k] \in Seq(Delta) /\ items'[k] # <<>>
             /\ ~ WillBeDeleted(k) => LastOf(items'[k]) = listed[k]
  <2>1. k \in Keys /\ listed[k] \in Obj
    BY DEF ListedKeys, TypeOK, MaybeObj
  <2>2. items'[k] = AppendSync(k, listed[k])
    BY <1>2, <2>1 DEF ReplaceItems
  <2>3. WillBeDeleted(k) => items[k] # <<>> /\ items[k] \in Seq(Delta)
    BY <2>1 DEF WillBeDeleted, TypeOK
  <2> QED BY <2>1, <2>2, <2>3, AppendSyncFacts
<1>5. ASSUME NEW k \in GoneKeys
      PROVE  /\ k \in Keys /\ listed[k] = Absent
             /\ items'[k] \in Seq(Delta) /\ items'[k] # <<>>
             /\ LastOf(items'[k]) \in Deletions
  <2>1. k \in Keys /\ listed[k] = Absent /\ k \notin ListedKeys
    BY DEF GoneKeys, ListedKeys
  <2>2. items'[k] = AppendDelta(items[k], FinalStateUnknown)
    BY <1>2, <2>1 DEF ReplaceItems
  <2>3. items[k] \in Seq(Delta) /\ FinalStateUnknown \in Deletions
    BY <2>1 DEF TypeOK, Deletions
  <2> QED BY <2>1, <2>2, <2>3, AppendDeltaFacts
<1>6. ASSUME NEW k \in Keys, k \notin ListedKeys, k \notin GoneKeys
      PROVE  items'[k] = items[k] /\ listed[k] = Absent /\ known[k] = Absent
  BY <1>2, <1>6 DEF ReplaceItems, ListedKeys, GoneKeys
<1>7. /\ queue' \in Seq(Keys) /\ Distinct(queue')
      /\ Len(queue) \in Nat /\ Cardinality(L) \in Nat /\ Len(queue') \in Nat
      /\ Len(queue') >= Len(queue) + Cardinality(L)
      /\ \A k \in Keys : Has(queue', k) <=> Has(queue, k) \/ k \in L \/ k \in G
      /\ \A i \in 1 .. Len(queue) : queue'[i] = queue[i]
      /\ \A i \in 1 .. Len(queue \o p) : queue'[i] = (queue \o p)[i]
      /\ \A k \in L : Has(queue \o p, k)
      /\ Len(queue \o p) = Len(queue) + Cardinality(L)
  <2> HIDE DEF L, G
  <2>1. /\ queue \o p \in Seq(Keys)
        /\ Len(queue \o p) = Len(queue) + Cardinality(L)
        /\ Len(queue) \in Nat /\ Cardinality(L) \in Nat
        /\ Distinct(queue \o p)
        /\ \A k \in Keys : Has(queue \o p, k) <=> Has(queue, k) \/ k \in L
        /\ \A i \in 1 .. Len(queue) : (queue \o p)[i] = queue[i]
    BY <1>3, QueueGrows
  <2>2. \A k \in G : ~ Has(queue \o p, k)
    BY <1>3, <2>1
  <2> DEFINE r == queue \o p
  <2> HIDE DEF r
  <2>3. /\ r \o q \in Seq(Keys)
        /\ Len(r \o q) = Len(r) + Cardinality(G)
        /\ Len(r) \in Nat /\ Cardinality(G) \in Nat
        /\ Distinct(r \o q)
        /\ \A k \in Keys : Has(r \o q, k) <=> Has(r, k) \/ k \in G
        /\ \A i \in 1 .. Len(r) : (r \o q)[i] = r[i]
    BY <1>3, <2>1, <2>2, QueueGrows DEF r
  <2>4. queue' = r \o q
    BY <1>1 DEF r
  <2>5. \A i \in 1 .. Len(queue) : i \in 1 .. Len(r)
    BY <2>1, <2>3 DEF r
  <2>6. \A i \in 1 .. Len(queue) : queue'[i] = queue[i]
    BY <2>1, <2>3, <2>4, <2>5 DEF r
  <2>7. \A k \in L : Has(r, k)
    BY <1>3, <2>1 DEF r
  <2>8. Len(queue') \in Nat /\ Len(queue') >= Len(queue) + Cardinality(L)
    BY <2>1, <2>3, <2>4 DEF r
  <2>9. \A k \in Keys : Has(queue', k) <=> Has(queue, k) \/ k \in L \/ k \in G
    BY <2>1, <2>3, <2>4 DEF r
  <2> QED BY <2>1, <2>3, <2>4, <2>6, <2>7, <2>8, <2>9 DEF r
<1>8. TypeOK'
  <2>1. items' \in [Keys -> Seq(Delta)]
    <3>1. \A k \in Keys : items'[k] \in Seq(Delta)
      BY <1>4, <1>5, <1>6 DEF TypeOK
    <3>2. items' = [k \in Keys |-> items'[k]]
      BY <1>2 DEF ReplaceItems
    <3> QED BY <3>1, <3>2
  <2>2. Cardinality(ListedKeys) \in Nat
    BY KeysAssumption, FS_Subset, FS_CardinalityType DEF ListedKeys
  <2>3. initialPopulationCount' \in Nat /\ unhandled' \subseteq Keys
    BY <2>2 DEF Replace, TypeOK, ListedKeys
  <2>4. stale' \subseteq Keys /\ listed' \in [Keys -> MaybeObj]
    BY <1>2 DEF MissedByReplace, MaybeObj
  <2> QED BY <1>2, <1>7, <2>1, <2>3, <2>4 DEF TypeOK
<1>9. LockInv'
  BY <1>2 DEF LockInv
<1>10. QueueItemsAgree'
  <2>1. \A k \in Keys : items'[k] # <<>> <=> items[k] # <<>> \/ k \in L \/ k \in G
    BY <1>4, <1>5, <1>6
  <2> HIDE DEF L, G
  <2> QED BY <1>7, <2>1 DEF QueueItemsAgree
<1>11. CountInv'
  <2>1. CASE populated
    <3>1. UNCHANGED <<initialPopulationCount, unhandled, popKey>>
      BY <1>2, <2>1 DEF Replace
    <3>2. Len(queue) <= Len(queue')
      BY <1>7
    <3> QED BY <1>2, <1>7, <2>1, <3>1, <3>2, CountInvGrows
  <2>2. CASE ~ populated
    <3>1. queue = <<>>
      BY <2>2 DEF CountInv
    <3>2. L = ListedKeys
      BY <3>1, <1>4 DEF QueueItemsAgree, Has, ListedKeys
    <3>3. initialPopulationCount' = Cardinality(L) /\ unhandled' = L
      BY <2>2, <3>2 DEF Replace
    <3> HIDE DEF L, G
    <3>4. Len(queue) = 0
      BY <3>1, EmptySeq
    <3>5. initialPopulationCount' <= Len(queue') /\ initialPopulationCount' = Len(queue \o p)
      BY <1>7, <3>3, <3>4
    <3>6. \A k \in unhandled' : \E i \in 1 .. initialPopulationCount' : queue'[i] = k
      BY <1>7, <3>3, <3>5 DEF Has
    <3> QED BY <1>2, <3>5, <3>6 DEF CountInv
  <2> QED BY <2>1, <2>2
<1>12. ASSUME LossInv PROVE LossInv'
  <2>1. \A k \in Keys : PendingFor(k)' = PendingFor(k)
    BY <1>2 DEF PendingFor
  <2>2. ASSUME NEW k \in Keys, k \notin stale' PROVE Held(k)' = listed[k]
    <3>1. CASE k \in ListedKeys
      <4>1. ~ WillBeDeleted(k)
        BY <1>2, <2>2, <3>1 DEF MissedByReplace
      <4>2. /\ items'[k] # <<>>
            /\ ObjectOf(LastOf(items'[k])) = listed[k]
        BY <1>4, <3>1, <4>1, ObjFacts
      <4> QED BY <1>2, <4>2 DEF Held
    <3>2. CASE k \in GoneKeys
      <4>1. items'[k] # <<>> /\ ObjectOf(LastOf(items'[k])) = listed[k]
        BY <1>5, <3>2, ObjFacts
      <4> QED BY <1>2, <4>1 DEF Held
    <3>3. CASE k \notin ListedKeys /\ k \notin GoneKeys
      <4>1. items[k] = <<>>
        BY <1>2, <2>2, <3>3 DEF MissedByReplace
      <4>2. items'[k] = <<>> /\ known[k] = listed[k] /\ popKey' # k
        BY <1>2, <1>6, <3>3, <4>1, KeysAssumption
      <4> QED BY <1>2, <4>2 DEF Held
    <3> QED BY <3>1, <3>2, <3>3
  <2>3. \A k \in Keys : PendingFor(k) = {} => listed[k] = svcs[k]
    BY <1>2, <1>12 DEF LossInv, ListInv
  <2> QED BY <1>2, <1>12, <2>1, <2>2, <2>3 DEF LossInv, ListInv, NoLostUpdate
<1> QED BY <1>8, <1>9, <1>10, <1>11, <1>12

-----------------------------------------------------------------------------
(* A step that changes nothing.                                             *)
LEMMA StutterInv ==
  ASSUME CoreInv, UNCHANGED vars
  PROVE  CoreInv' /\ (LossInv => LossInv')
BY DEF CoreInv, LossInv, TypeOK, LockInv, QueueItemsAgree, CountInv, ListInv, NoLostUpdate,
       Held, PendingFor, vars, serverVars, reflectorVars, fifoVars, loopVars, historyVars

(* A step of the informer, whoever writes the services and however many     *)
(* watch events there may be.                                               *)
InformerAction ==
  \/ \E k \in Keys, o \in MaybeObj : ServerWrite(k, o)
  \/ List \/ Replace \/ WatchEvent \/ WatchBreak \/ Resync
  \/ Pop \/ ProcessDelta \/ HandlerReturn \/ HandlerPanic \/ Restart
  \/ UNCHANGED vars

(* Every such step keeps both parts of the invariant.                       *)
LEMMA InformerActionInv ==
  ASSUME CoreInv, InformerAction
  PROVE  CoreInv' /\ (LossInv => LossInv')
BY ServerWriteInv, ListStepInv, ReplaceInv, WatchEventInv, WatchBreakInv, ResyncInv, PopInv,
   ProcessDeltaInv, HandlerEndInv, RestartInv, StutterInv DEF InformerAction

(* Every step keeps the invariant.                                          *)
LEMMA NextInv == IndInv /\ [Next]_vars => IndInv'
<1>1. [Next]_vars => InformerAction
  BY DEF Next, InformerAction
<1> QED BY <1>1, InformerActionInv DEF IndInv

(* The inductive invariant holds throughout.                                *)
THEOREM Invariance == Spec => []IndInv
BY InitInv, NextInv, PTL DEF Spec

(* Every variable keeps its type.                                           *)
THEOREM TypeCorrect == Spec => []TypeOK
<1>1. IndInv => TypeOK
  BY DEF IndInv, CoreInv
<1> QED BY <1>1, Invariance, PTL

(* DeltaFIFO's comment "items in the set are in the queue and vice versa"   *)
(* holds, each key being queued once.                                       *)
THEOREM QueueAgrees == Spec => []QueueItemsAgree
<1>1. IndInv => QueueItemsAgree
  BY DEF IndInv, CoreInv
<1> QED BY <1>1, Invariance, PTL

(* HasSynced answers true only when every service of the first list has     *)
(* been through the handlers: what a one-shot run relies on.                *)
THEOREM SyncedIsHandled == Spec => []SyncedMeansHandled
<1>1. IndInv => SyncedMeansHandled
  <2> SUFFICES ASSUME IndInv, HasSynced PROVE unhandled = {}
    BY DEF SyncedMeansHandled
  <2>1. \A k \in unhandled : k \in Keys /\ k # popKey
    BY KeysAssumption DEF IndInv, CoreInv, TypeOK, HasSynced, Unlocked
  <2>2. \A k \in unhandled : \E i \in 1 .. 0 : queue[i] = k
    BY <2>1 DEF IndInv, CoreInv, CountInv, HasSynced
  <2> QED BY <2>2
<1> QED BY <1>1, Invariance, PTL

(* No change of a service is lost between the server and the store outside  *)
(* the three races of the queue and a panic.                                *)
THEOREM NothingLost == Spec => []NoLostUpdate
<1>1. IndInv => NoLostUpdate
  BY DEF IndInv, LossInv
<1> QED BY <1>1, Invariance, PTL
=============================================================================
