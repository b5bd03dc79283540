------------------------- MODULE PooledTurnsProofs -------------------------
(***************************************************************************)
(* For any numbers of items, workers and jobs: a pool loses no item and    *)
(* runs none twice, and settles when everything is over; and its turns     *)
(* use the provider's slots as ProviderSlots says, so that the slots stay  *)
(* safe whatever the pool, its closing and its cancellations do to the     *)
(* workers that hold them.                                                 *)
(*                                                                         *)
(* The argument for the pool is where an item is.  A queued item is in one *)
(* of the chain, the queue for fresh agents and the queues of busy         *)
(* workers, and a running one is in one batch; each step takes an item out *)
(* of where it is before it puts it elsewhere.  The pool takes its own     *)
(* steps only, so that this holds whatever its turns wait for.             *)
(***************************************************************************)
EXTENDS PooledTurns, FiniteSetTheorems, SequenceTheorems, TLAPS

-----------------------------------------------------------------------------
(* The semaphore is safe for any callers and any limits: the counter       *)
(* counts, the queue holds the waiters, and no slot is left free.          *)
SlotsInv == SlotsTypeOK /\ SlotsSafe

LEMMA HoldersFinite == IsFiniteSet(Holders) /\ Cardinality(Holders) \in Nat
  <1>1. Holders \in SUBSET Callers
    BY DEF Holders
  <1> QED
    BY <1>1, SlotsAssumption, FS_Subset, FS_CardinalityType

LEMMA SlotsStart == SlotsInit => SlotsInv
  <1> SUFFICES ASSUME SlotsInit PROVE SlotsInv
    OBVIOUS
  <1>1. SlotsTypeOK
    BY SlotsAssumption DEF SlotsInit, SlotsTypeOK
  <1>2. Holders = {}
    BY DEF SlotsInit, Holders
  <1>3. SlotsCounted
    BY <1>2, FS_EmptySet DEF SlotsInit, SlotsCounted
  <1> QED
    BY <1>1, <1>3 DEF SlotsInit, SlotsInv, SlotsSafe, QueueIsWaiters, NoIdleSlot

-----------------------------------------------------------------------------
(* Acquiring takes a slot or the last place in the queue. *)
LEMMA AcquireSafe == ASSUME SlotsInv, NEW c \in Callers, Acquire(c) PROVE SlotsInv'
  <1> USE DEF SlotsInv, SlotsSafe, SlotsTypeOK
  <1>1. CASE Room(current, max)
    <2>1. SlotsTypeOK'
      BY <1>1 DEF Acquire
    <2>2. Holders' = Holders \cup {c} /\ c \notin Holders
      BY <1>1 DEF Acquire, Holders
    <2>3. SlotsCounted'
      BY <1>1, <2>2, HoldersFinite, FS_AddElement DEF Acquire, SlotsCounted
    <2>4. queue = <<>> /\ queue' = <<>>
      BY <1>1 DEF Acquire, NoIdleSlot
    <2>5. QueueIsWaiters' /\ NoIdleSlot'
      BY <1>1, <2>4 DEF Acquire, QueueIsWaiters, NoIdleSlot
    <2> QED
      BY <2>1, <2>3, <2>5
  <1>2. CASE ~Room(current, max)
    <2>1. SlotsTypeOK'
      BY SMTT(30), <1>2 DEF Acquire
    <2>2. Holders' = Holders /\ current' = current /\ max' = max
      BY <1>2 DEF Acquire, Holders
    <2>3. /\ Len(queue') = Len(queue) + 1 /\ queue'[Len(queue) + 1] = c
          /\ \A i \in 1..Len(queue) : queue'[i] = queue[i]
      BY <1>2 DEF Acquire
    <2>4. /\ request[c] = "none" /\ request'[c] = "wait"
          /\ \A d \in Callers : d # c => request'[d] = request[d]
      BY <1>2 DEF Acquire
    <2>5. QueueIsWaiters'
      BY SMTT(30), <2>3, <2>4, <2>1 DEF QueueIsWaiters
    <2>6. NoIdleSlot'
      BY <1>2, <2>2 DEF NoIdleSlot, Room
    <2> QED
      BY <2>1, <2>2, <2>5, <2>6 DEF SlotsCounted
  <1> QED
    BY <1>1, <1>2

(* Taking out one waiter keeps the order of the others. *)
LEMMA SpliceSeq ==
  ASSUME SlotsTypeOK, NEW i \in 1..Len(queue)
  PROVE  /\ Splice(i) \in Seq(Callers) /\ Len(Splice(i)) = Len(queue) - 1
         /\ \A j \in 1..(Len(queue) - 1) :
              Splice(i)[j] = IF j < i THEN queue[j] ELSE queue[j + 1]
  <1>1. \A j \in 1..(Len(queue) - 1) :
          (IF j < i THEN queue[j] ELSE queue[j + 1]) \in Callers
    BY DEF SlotsTypeOK
  <1>2. Len(queue) - 1 \in Nat
    BY DEF SlotsTypeOK
  <1>3. Splice(i) \in [1..(Len(queue) - 1) -> Callers]
    BY <1>1 DEF Splice, Without
  <1>4. Splice(i) \in Seq(Callers)
    BY <1>2, <1>3, SeqDef
  <1>5. Len(Splice(i)) = Len(queue) - 1
    BY <1>2, <1>3, <1>4, LenProperties
  <1> QED
    BY <1>4, <1>5 DEF Splice, Without

LEMMA AbortSafe == ASSUME SlotsInv, NEW c \in Callers, Abort(c) PROVE SlotsInv'
  <1> USE DEF SlotsInv, SlotsSafe
  <1>1. PICK i \in 1..Len(queue) :
          /\ queue[i] = c /\ queue' = Splice(i)
          /\ request' = [request EXCEPT ![c] = "none"]
          /\ UNCHANGED <<max, current>>
    BY DEF Abort
  <1>2. SlotsTypeOK'
    BY <1>1, SpliceSeq DEF SlotsTypeOK
  <1>3. request[c] = "wait" /\ \A d \in Callers : d # c => request'[d] = request[d]
    BY <1>1 DEF QueueIsWaiters, SlotsTypeOK
  <1>4. Holders' = Holders
    BY <1>1, <1>3 DEF Holders, SlotsTypeOK
  <1>5. SlotsCounted'
    BY <1>1, <1>4 DEF SlotsCounted
  <1>6. /\ Len(queue') = Len(queue) - 1
        /\ \A j \in 1..(Len(queue) - 1) :
             queue'[j] = IF j < i THEN queue[j] ELSE queue[j + 1]
    BY <1>1, SpliceSeq
  <1>7. QueueIsWaiters'
    <2>1. Len(queue) \in Nat /\ \A j \in 1..Len(queue) : queue[j] \in Callers
      BY DEF SlotsTypeOK
    <2>2. \A j \in 1..Len(queue') : request'[queue'[j]] = "wait"
      BY SMTT(30), <1>1, <1>3, <1>6, <2>1 DEF QueueIsWaiters
    <2>3. \A j, k \in 1..Len(queue') : queue'[j] = queue'[k] => j = k
      BY SMTT(30), <1>6, <2>1 DEF QueueIsWaiters
    <2>4. ASSUME NEW d \in Callers, request'[d] = "wait"
          PROVE  \E j \in 1..Len(queue') : queue'[j] = d
      <3>1. d # c /\ request[d] = "wait"
        BY <1>1, <1>3, <2>4 DEF SlotsTypeOK
      <3>2. PICK k \in 1..Len(queue) : queue[k] = d
        BY <3>1 DEF QueueIsWaiters
      <3>3. k # i
        BY <1>1, <3>1, <3>2
      <3>4. CASE k < i
        BY <3>2, <3>4, <1>6, <2>1
      <3>5. CASE k > i
        <4>1. k - 1 \in 1..Len(queue') /\ queue'[k - 1] = d
          BY <3>2, <3>5, <1>6, <2>1
        <4> QED
          BY <4>1
      <3> QED
        BY <3>3, <3>4, <3>5, <2>1
    <2> QED
      BY <2>2, <2>3, <2>4 DEF QueueIsWaiters
  <1>8. NoIdleSlot'
    BY <1>1 DEF NoIdleSlot, SlotsTypeOK
  <1> QED
    BY <1>2, <1>5, <1>7, <1>8

(* A request in progress holds a slot that is counted. *)
LEMMA HolderCounted ==
  ASSUME SlotsInv, NEW c \in Callers, request[c] = "stream"
  PROVE  c \in Holders /\ current > 0 /\ Freed = current - 1
  <1> USE DEF SlotsInv, SlotsSafe, SlotsTypeOK
  <1>1. c \in Holders
    BY DEF Holders
  <1>2. Cardinality(Holders) # 0
    BY <1>1, HoldersFinite, FS_EmptySet
  <1> QED
    BY <1>1, <1>2 DEF SlotsCounted, Freed

(* A release passes its slot to the first waiter, or leaves the queue alone. *)
LEMMA ReleaseSafe == ASSUME SlotsInv, NEW c \in Callers, Release(c) PROVE SlotsInv'
  <1> USE DEF SlotsInv, SlotsSafe, SlotsTypeOK
  <1>1. c \in Holders /\ current > 0 /\ Freed = current - 1
    BY HolderCounted DEF Release
  <1>2. Cardinality(Holders \ {c}) = current - 1 /\ IsFiniteSet(Holders \ {c})
    BY <1>1, HoldersFinite, FS_RemoveElement DEF SlotsCounted
  <1>3. CASE Room(Freed, max) /\ queue # <<>>
    <2> DEFINE h == Head(queue)
    <2>1. /\ h \in Callers /\ h = queue[1] /\ 1 \in 1..Len(queue)
          /\ request[h] = "wait" /\ request[c] = "stream" /\ h # c
      BY <1>3 DEF QueueIsWaiters, Release
    <2>2. /\ max' = max /\ current' = current /\ queue' = Tail(queue)
          /\ request' = [request EXCEPT ![c] = "none", ![h] = "stream"]
      BY <1>1, <1>3 DEF Release
    <2>3. SlotsTypeOK'
      BY <1>3, <2>1, <2>2
    <2> HIDE DEF h
    <2>4. Holders' = (Holders \ {c}) \cup {h} /\ h \notin Holders \ {c}
      BY <2>1, <2>2 DEF Holders
    <2>5. SlotsCounted'
      <3>1. Cardinality((Holders \ {c}) \cup {h}) = Cardinality(Holders \ {c}) + 1
        BY <1>2, <2>4, FS_AddElement
      <3>2. Cardinality(Holders') = current
        BY <1>1, <1>2, <2>4, <3>1
      <3> QED
        BY <2>2, <3>2 DEF SlotsCounted
    <2>6. /\ Len(queue') = Len(queue) - 1
          /\ \A j \in 1..Len(queue') : j + 1 \in 1..Len(queue) /\ queue'[j] = queue[j + 1]
      BY <1>3, <2>2
    <2>7. \A j \in 1..Len(queue') : queue'[j] # h /\ queue'[j] # c
      <3> SUFFICES ASSUME NEW j \in 1..Len(queue') PROVE queue'[j] # h /\ queue'[j] # c
        OBVIOUS
      <3>1. j + 1 \in 1..Len(queue) /\ j + 1 # 1 /\ queue'[j] = queue[j + 1]
        BY <2>6
      <3> QED
        BY <2>1, <3>1 DEF QueueIsWaiters
    <2>8. QueueIsWaiters'
      <3>1. \A j \in 1..Len(queue') : request'[queue'[j]] = "wait"
        BY <2>1, <2>2, <2>6, <2>7 DEF QueueIsWaiters
      <3>2. ASSUME NEW j \in 1..Len(queue'), NEW k \in 1..Len(queue'), queue'[j] = queue'[k]
            PROVE  j = k
        <4>1. /\ j + 1 \in 1..Len(queue) /\ queue'[j] = queue[j + 1]
              /\ k + 1 \in 1..Len(queue) /\ queue'[k] = queue[k + 1]
          BY <2>6
        <4>2. j + 1 = k + 1
          BY ONLY <3>2, <4>1, SlotsInv DEF SlotsInv, SlotsSafe, QueueIsWaiters
        <4> QED
          BY ONLY <4>2, j \in 1..Len(queue'), k \in 1..Len(queue')
      <3>3. ASSUME NEW d \in Callers, request'[d] = "wait"
            PROVE  \E j \in 1..Len(queue') : queue'[j] = d
        <4>1. d # h /\ request[d] = "wait"
          BY <2>1, <2>2, <3>3
        <4>2. PICK k \in 1..Len(queue) : queue[k] = d
          BY <4>1 DEF QueueIsWaiters
        <4>3. k # 1
          BY <2>1, <4>1, <4>2
        <4>4. k - 1 \in 1..Len(queue') /\ queue'[k - 1] = d
          BY <4>2, <4>3, <2>6
        <4> QED
          BY <4>4
      <3> QED
        BY <3>1, <3>2, <3>3 DEF QueueIsWaiters
    <2>9. NoIdleSlot'
      BY <1>3, <2>2 DEF NoIdleSlot, Room
    <2> QED
      BY <2>3, <2>5, <2>8, <2>9
  <1>4. CASE ~(Room(Freed, max) /\ queue # <<>>)
    <2>1. /\ max' = max /\ current' = Freed /\ queue' = queue
          /\ request' = [request EXCEPT ![c] = "none"]
      BY <1>4 DEF Release
    <2>2. SlotsTypeOK'
      BY <1>1, <2>1
    <2>3. Holders' = Holders \ {c}
      BY <2>1 DEF Holders
    <2>4. SlotsCounted'
      BY <1>1, <1>2, <2>1, <2>3 DEF SlotsCounted
    <2>5. QueueIsWaiters'
      BY <2>1 DEF QueueIsWaiters, Release
    <2>6. NoIdleSlot'
      BY <1>4, <2>1 DEF NoIdleSlot
    <2> QED
      BY <2>2, <2>4, <2>5, <2>6
  <1> QED
    BY <1>3, <1>4
-----------------------------------------------------------------------------
(* How many waiters a new limit admits. *)
LEMMA AdmittedBound ==
  ASSUME SlotsInv, NEW limit \in Limits
  PROVE  /\ Admitted(limit) \in 0..Len(queue)
         /\ Admitted(limit) = Len(queue) \/ ~Room(current + Admitted(limit), limit)
  BY SlotsAssumption DEF SlotsInv, SlotsTypeOK, Admitted, Room

(* The first waiters are as many callers. *)
LEMMA WaitersCounted ==
  ASSUME SlotsInv, NEW n \in 0..Len(queue)
  PROVE  LET first == {c \in Callers : \E i \in 1..n : queue[i] = c} IN
         /\ IsFiniteSet(first) /\ Cardinality(first) = n
         /\ first \cap Holders = {}
  <1> USE DEF SlotsInv, SlotsSafe, SlotsTypeOK
  <1> DEFINE first == {c \in Callers : \E i \in 1..n : queue[i] = c}
             f == [i \in 1..n |-> queue[i]]
  <1>1. n \in Nat /\ 1..n \subseteq 1..Len(queue) /\ \A i \in 1..n : queue[i] \in Callers
    OBVIOUS
  <1>2. f \in Bijection(1..n, first)
    <2>1. f \in [1..n -> first]
      BY <1>1
    <2>2. \A c \in first : \E i \in 1..n : f[i] = c
      OBVIOUS
    <2>3. \A i, j \in 1..n : f[i] = f[j] => i = j
      BY <1>1 DEF QueueIsWaiters
    <2> QED
      BY <2>1, <2>2, <2>3, Zenon DEF Bijection, Injection, Surjection, IsInjective
  <1>3. ExistsBijection(1..n, first)
    BY <1>2 DEF ExistsBijection
  <1>4. IsFiniteSet(first) /\ Cardinality(first) = n
    BY <1>1, <1>3, FS_NatBijection, FS_CountingElements
  <1>5. first \cap Holders = {}
    BY <1>1 DEF QueueIsWaiters, Holders
  <1> QED
    BY <1>4, <1>5

(* A new limit admits the first waiters that fit, and leaves none behind   *)
(* that does.                                                              *)
LEMMA ResizeSafe ==
  ASSUME SlotsInv, NEW limit \in Limits, Resize(limit)
  PROVE  SlotsInv'
  <1> USE DEF SlotsInv, SlotsSafe, SlotsTypeOK
  <1> DEFINE n == Admitted(limit)
             first == {c \in Callers : \E i \in 1..n : queue[i] = c}
  <1>1. /\ n \in 0..Len(queue)
        /\ n = Len(queue) \/ ~Room(current + n, limit)
    BY AdmittedBound
  <1>2. /\ max' = limit /\ current' = current + n
        /\ queue' = SubSeq(queue, n + 1, Len(queue))
        /\ request' = [c \in Callers |-> IF \E i \in 1..n : queue[i] = c
                                          THEN "stream" ELSE request[c]]
    BY DEF Resize
  <1>3. IsFiniteSet(first) /\ Cardinality(first) = n /\ first \cap Holders = {}
    BY <1>1, WaitersCounted
  <1> HIDE DEF n
  <1>4. Len(queue) \in Nat /\ current \in Nat /\ n \in Nat /\ n <= Len(queue)
    BY <1>1
  <1>5. /\ queue' \in Seq(Callers) /\ Len(queue') = Len(queue) - n
        /\ \A i \in 1..(Len(queue) - n) : queue'[i] = queue[i + n]
    BY <1>2, <1>4
  <1>6. SlotsTypeOK'
    BY <1>2, <1>4, <1>5
  <1>7. Holders' = Holders \cup first
    BY <1>2 DEF Holders
  <1>8. SlotsCounted'
    <2>1. Cardinality(Holders') = Cardinality(Holders) + n - Cardinality(first \cap Holders)
      BY <1>3, <1>7, HoldersFinite, FS_Union
    <2>2. Cardinality(first \cap Holders) = 0
      BY <1>3, FS_EmptySet
    <2> HIDE DEF first
    <2>3. Cardinality(Holders') = Cardinality(Holders) + n
      BY <2>1, <2>2, <1>4, HoldersFinite
    <2> QED
      BY <2>3, <1>2 DEF SlotsCounted
  <1>9. QueueIsWaiters'
    <2>1. \A i \in 1..Len(queue') : i + n \in 1..Len(queue) /\ queue'[i] = queue[i + n]
      BY <1>4, <1>5
    <2>2. \A i \in 1..Len(queue') : request'[queue'[i]] = "wait"
      <3> SUFFICES ASSUME NEW i \in 1..Len(queue') PROVE request'[queue'[i]] = "wait"
        OBVIOUS
      <3>1. i + n \in 1..Len(queue) /\ queue'[i] = queue[i + n] /\ queue[i + n] \in Callers
        BY <2>1
      <3>2. ~\E j \in 1..n : queue[j] = queue[i + n]
        BY <1>4, <1>5, <3>1 DEF QueueIsWaiters
      <3> QED
        BY <1>2, <3>1, <3>2 DEF QueueIsWaiters
    <2>3. \A i, j \in 1..Len(queue') : queue'[i] = queue'[j] => i = j
      <3> SUFFICES ASSUME NEW i \in 1..Len(queue'), NEW j \in 1..Len(queue'),
                          queue'[i] = queue'[j]
                   PROVE  i = j
        OBVIOUS
      <3>1. i + n = j + n
        BY SMTT(30), <2>1 DEF QueueIsWaiters
      <3> QED
        BY <1>4, <3>1
    <2>4. ASSUME NEW c \in Callers, request'[c] = "wait"
          PROVE  \E i \in 1..Len(queue') : queue'[i] = c
      <3>1. request[c] = "wait" /\ ~\E i \in 1..n : queue[i] = c
        BY <1>2, <2>4
      <3>2. PICK k \in 1..Len(queue) : queue[k] = c
        BY <3>1 DEF QueueIsWaiters
      <3>3. k > n
        BY <3>1, <3>2, <1>4
      <3>4. k - n \in 1..Len(queue') /\ queue'[k - n] = c
        BY <3>2, <3>3, <1>4, <1>5
      <3> QED
        BY <3>4
    <2> QED
      BY <2>2, <2>3, <2>4 DEF QueueIsWaiters
  <1>10. NoIdleSlot'
    BY <1>1, <1>2, <1>4, <1>5 DEF NoIdleSlot
  <1> QED
    BY <1>6, <1>8, <1>9, <1>10

LEMMA SlotsStep == SlotsInv /\ [SlotsNext]_slots => SlotsInv'
  <1> SUFFICES ASSUME SlotsInv, [SlotsNext]_slots PROVE SlotsInv'
    OBVIOUS
  <1>1. CASE SlotsNext
    BY <1>1, AcquireSafe, AbortSafe, ReleaseSafe, ResizeSafe DEF SlotsNext
  <1>2. CASE UNCHANGED slots
    BY <1>2 DEF slots, SlotsInv, SlotsSafe, SlotsTypeOK, SlotsCounted, Holders, QueueIsWaiters,
       NoIdleSlot
  <1> QED
    BY <1>1, <1>2

-----------------------------------------------------------------------------
THEOREM SlotsInvariant == SlotsSpec => []SlotsInv
  BY SlotsStart, SlotsStep, PTL DEF SlotsSpec

(* No slot leaks, is invented, is handed to somebody who gave up or stays  *)
(* free while somebody waits, for any callers and any changes of the limit. *)
THEOREM SlotsCorrect == SlotsSpec => []SlotsSafe
  <1>1. SlotsInv => SlotsSafe
    BY DEF SlotsInv
  <1> QED
    BY <1>1, SlotsInvariant, PTL

(* No step takes the requests in progress past the cap. *)
THEOREM CapCorrect == SlotsSpec => CapRespected
  <1>1. SlotsInv /\ [SlotsNext]_slots => [current' > current => max' = 0 \/ current' <= max']_slots
    <2> SUFFICES ASSUME SlotsInv, SlotsNext, current' > current
                 PROVE  max' = 0 \/ current' <= max'
      BY DEF SlotsNext
    <2> USE DEF SlotsInv, SlotsTypeOK
    <2>1. ASSUME NEW c \in Callers, Acquire(c) PROVE max' = 0 \/ current' <= max'
      BY <2>1, SlotsAssumption DEF Acquire, Room
    <2>2. ASSUME NEW c \in Callers, Abort(c) PROVE FALSE
      BY <2>2 DEF Abort
    <2>3. ASSUME NEW c \in Callers, Release(c) PROVE FALSE
      <3>1. current > 0 /\ Freed = current - 1
        BY <2>3, HolderCounted DEF Release
      <3> QED
        BY <2>3, <3>1 DEF Release
    <2>4. ASSUME NEW limit \in Limits, Resize(limit) PROVE max' = 0 \/ current' <= max'
      BY <2>4, SlotsAssumption DEF Resize, Admitted
    <2> QED
      BY <2>1, <2>2, <2>3, <2>4 DEF SlotsNext
  <1> QED
    BY <1>1, SlotsInvariant, PTL DEF SlotsSpec, CapRespected

-----------------------------------------------------------------------------
(* The pool.                                                               *)

Once(s) == \A j, k \in 1..Len(s) : s[j] = s[k] => j = k

(* Nobody waits twice, or in two places. *)
NoDuplicates ==
    /\ Once(chain) /\ Once(freshQueue) /\ Once(roster)
    /\ \A w \in Workers : Once(work[w])

Apart ==
    /\ ListItems(chain) \cap ListItems(freshQueue) = {}
    /\ \A w \in Workers : /\ ListItems(chain) \cap ListItems(work[w]) = {}
                          /\ ListItems(freshQueue) \cap ListItems(work[w]) = {}
    /\ \A v, w \in Workers : ListItems(work[v]) \cap ListItems(work[w]) # {} => v = w

(* Who waits is queued; the chain may hold what was dropped by a close. *)
WaitingIsQueued ==
    /\ \A i \in ListItems(freshQueue) : status[i] = "queued"
    /\ \A w \in Workers : \A i \in ListItems(work[w]) : status[i] = "queued"
    /\ \A i \in ListItems(chain) : status[i] = "queued" \/ (closed /\ status[i] = "cancelled")

Waits(i) == \/ i \in ListItems(chain) \cup ListItems(freshQueue)
            \/ \E w \in Workers : i \in ListItems(work[w])

QueuedWaits == pool # "refused" => \A i \in Items : status[i] = "queued" => Waits(i)

(* Items are queued on busy workers that are reused, or for fresh ones.    *)
QueuesServed ==
    /\ \A w \in Workers : work[w] # <<>> => state[w] = "running" /\ ~freshAgents
    /\ freshQueue # <<>> => freshAgents /\ (roster # <<>> \/ chain # <<>> \/ unreserved)

(* A worker's id is reserved for the head of the chain, while there is room. *)
SpawnsHead ==
    spawning => chain # <<>> /\ \E n \in Ceilings : n = 0 \/ Len(roster) < n

(* A running item is in one batch, of a running worker; what is queued was *)
(* in none, nor has it a worker of its own.                                *)
BatchesRun ==
    /\ \A w \in Workers : \A i \in batch[w] : status[i] = "running" /\ state[w] = "running"
    /\ \A v, w \in Workers : batch[v] \cap batch[w] # {} => v = w
    /\ \A w \in Workers : state[w] # "none" => status[w] \notin {"new", "queued"}
    /\ \A w \in Workers : job[w] # "none" => state[w] = "running"

(* After the close, and after the drain, nothing is left to do. *)
OverIsEmpty ==
    /\ closed => \A i \in Items : status[i] # "queued"
    /\ due => Drained(status)
    /\ pool = "done" => closed /\ Drained(status)

PushedInOrder == \E n \in 0..MaxItems : \A i \in Items : status[i] = "new" <=> n < i

PoolIInv ==
    /\ PoolTypeOK /\ NoDuplicates /\ Apart /\ WaitingIsQueued /\ QueuedWaits /\ QueuesServed
    /\ SpawnsHead /\ BatchesRun /\ OverIsEmpty /\ PushedInOrder

-----------------------------------------------------------------------------
(* Queues as sets of what is in them. *)

LEMMA ListTyped ==
  ASSUME NEW S, NEW s \in Seq(S)
  PROVE  /\ ListItems(s) \subseteq S /\ Len(s) \in Nat
         /\ s = <<>> <=> ListItems(s) = {}
  <1>1. Len(s) \in Nat /\ \A k \in 1..Len(s) : s[k] \in S
    OBVIOUS
  <1>2. s = <<>> => ListItems(s) = {}
    BY DEF ListItems
  <1>3. s # <<>> => 1 \in 1..Len(s)
    OBVIOUS
  <1> QED
    BY <1>1, <1>2, <1>3 DEF ListItems

LEMMA EmptyList == ListItems(<<>>) = {} /\ Once(<<>>)
  BY DEF ListItems, Once

LEMMA AppendOnce ==
  ASSUME NEW S, NEW s \in Seq(S), NEW i \in S
  PROVE  /\ Append(s, i) \in Seq(S) /\ Len(Append(s, i)) = Len(s) + 1
         /\ ListItems(Append(s, i)) = ListItems(s) \cup {i}
         /\ Once(s) /\ i \notin ListItems(s) => Once(Append(s, i))
  <1>1. /\ Append(s, i) \in Seq(S) /\ Len(Append(s, i)) = Len(s) + 1
        /\ Append(s, i)[Len(s) + 1] = i /\ \A k \in 1..Len(s) : Append(s, i)[k] = s[k]
        /\ Len(s) \in Nat
    OBVIOUS
  <1>2. 1..(Len(s) + 1) = 1..Len(s) \cup {Len(s) + 1}
    BY <1>1
  <1> HIDE DEF ListItems
  <1>3. ListItems(Append(s, i)) = ListItems(s) \cup {i}
    BY <1>1, <1>2 DEF ListItems
  <1>4. Once(s) /\ i \notin ListItems(s) => Once(Append(s, i))
    BY <1>1, <1>2 DEF ListItems, Once
  <1> QED
    BY <1>1, <1>3, <1>4

LEMMA TailOnce ==
  ASSUME NEW S, NEW s \in Seq(S), s # <<>>
  PROVE  /\ Tail(s) \in Seq(S) /\ Head(s) \in S /\ Head(s) \in ListItems(s)
         /\ ListItems(s) = ListItems(Tail(s)) \cup {Head(s)}
         /\ Once(s) => Once(Tail(s)) /\ Head(s) \notin ListItems(Tail(s))
  <1>1. /\ Tail(s) \in Seq(S) /\ Len(Tail(s)) = Len(s) - 1 /\ Len(s) \in Nat \ {0}
        /\ Head(s) = s[1] /\ \A k \in 1..(Len(s) - 1) : Tail(s)[k] = s[k + 1]
        /\ \A k \in 1..Len(s) : s[k] \in S
    OBVIOUS
  <1>2. Head(s) \in ListItems(s) /\ Head(s) \in S
    BY <1>1 DEF ListItems
  <1>3. ListItems(Tail(s)) \subseteq ListItems(s)
    BY <1>1 DEF ListItems
  <1>4. ASSUME NEW k \in 1..Len(s) PROVE s[k] \in ListItems(Tail(s)) \cup {Head(s)}
    <2>1. CASE k = 1
      BY <1>1, <2>1
    <2>2. CASE k # 1
      <3>1. k - 1 \in 1..(Len(s) - 1) /\ Tail(s)[k - 1] = s[k]
        BY <1>1, <2>2
      <3> QED
        BY <1>1, <3>1 DEF ListItems
    <2> QED
      BY <2>1, <2>2
  <1>5. ListItems(s) = ListItems(Tail(s)) \cup {Head(s)}
    BY <1>2, <1>3, <1>4 DEF ListItems
  <1>6. ASSUME Once(s) PROVE Once(Tail(s)) /\ Head(s) \notin ListItems(Tail(s))
    BY <1>1, <1>6 DEF ListItems, Once
  <1> QED
    BY <1>1, <1>2, <1>5, <1>6

LEMMA ConcatOnce ==
  ASSUME NEW S, NEW s \in Seq(S), NEW t \in Seq(S)
  PROVE  /\ s \o t \in Seq(S) /\ ListItems(s \o t) = ListItems(s) \cup ListItems(t)
         /\ s # <<>> => s \o t # <<>> /\ Head(s \o t) = Head(s)
         /\ Once(s) /\ Once(t) /\ ListItems(s) \cap ListItems(t) = {} => Once(s \o t)
  <1> DEFINE u == s \o t
  <1>1. /\ u \in Seq(S) /\ Len(u) = Len(s) + Len(t) /\ Len(s) \in Nat /\ Len(t) \in Nat
        /\ \A k \in 1..Len(s) : u[k] = s[k]
        /\ \A k \in 1..Len(u) : k > Len(s) => u[k] = t[k - Len(s)]
        /\ \A k \in 1..Len(t) : u[k + Len(s)] = t[k]
    OBVIOUS
  <1> HIDE DEF u
  <1>2. ListItems(u) = ListItems(s) \cup ListItems(t)
    <2>1. \A k \in 1..Len(u) : k \in 1..Len(s) \/ k - Len(s) \in 1..Len(t)
      BY <1>1
    <2>2. \A k \in 1..Len(t) : k + Len(s) \in 1..Len(u)
      BY <1>1
    <2>3. \A k \in 1..Len(s) : k \in 1..Len(u)
      BY <1>1
    <2>4. ASSUME NEW i \in ListItems(u) PROVE i \in ListItems(s) \cup ListItems(t)
      <3>1. PICK k \in 1..Len(u) : u[k] = i
        BY <2>4 DEF ListItems
      <3>2. CASE k \in 1..Len(s)
        BY <1>1, <3>1, <3>2 DEF ListItems
      <3>3. CASE k \notin 1..Len(s)
        <4>1. k - Len(s) \in 1..Len(t) /\ t[k - Len(s)] = i
          BY <1>1, <3>1, <3>3, <2>1
        <4> QED
          BY <4>1 DEF ListItems
      <3> QED
        BY <3>2, <3>3
    <2>5. ListItems(s) \subseteq ListItems(u)
      BY SMTT(30), <1>1, <2>3 DEF ListItems
    <2>6. ListItems(t) \subseteq ListItems(u)
      BY ZenonT(60), <1>1, <2>2 DEF ListItems
    <2> QED
      BY <2>4, <2>5, <2>6
  <1>3. ASSUME s # <<>> PROVE u # <<>> /\ Head(u) = Head(s)
    BY <1>1, <1>3
  <1>4. ASSUME Once(s), Once(t), ListItems(s) \cap ListItems(t) = {} PROVE Once(u)
    <2> SUFFICES ASSUME NEW j \in 1..Len(u), NEW k \in 1..Len(u), u[j] = u[k] PROVE j = k
      BY DEF Once
    <2>1. CASE j <= Len(s) /\ k <= Len(s)
      BY <1>1, <1>4, <2>1 DEF Once
    <2>2. CASE j > Len(s) /\ k > Len(s)
      <3>1. t[j - Len(s)] = t[k - Len(s)] /\ j - Len(s) \in 1..Len(t) /\ k - Len(s) \in 1..Len(t)
        BY <1>1, <2>2
      <3> QED
        BY SMTT(30), <1>1, <1>4, <3>1 DEF Once
    <2>3. ASSUME NEW a \in 1..Len(u), NEW b \in 1..Len(u), a <= Len(s), b > Len(s), u[a] = u[b]
          PROVE  FALSE
      <3>1. u[a] = s[a] /\ a \in 1..Len(s)
        BY <1>1, <2>3
      <3>2. u[b] = t[b - Len(s)] /\ b - Len(s) \in 1..Len(t)
        BY <1>1, <2>3
      <3>3. u[a] \in ListItems(s) /\ u[b] \in ListItems(t)
        BY <3>1, <3>2 DEF ListItems
      <3> QED
        BY <1>4, <2>3, <3>3
    <2> QED
      BY <1>1, <2>1, <2>2, <2>3
  <1> QED
    BY <1>1, <1>2, <1>3, <1>4 DEF u

LEMMA DismissedOnce ==
  ASSUME roster \in Seq(Workers), Once(roster), NEW w \in ListItems(roster)
  PROVE  /\ Dismissed(w) \in Seq(Workers) /\ Len(Dismissed(w)) = Len(roster) - 1
         /\ ListItems(Dismissed(w)) = ListItems(roster) \ {w} /\ Once(Dismissed(w))
  <1> DEFINE at == CHOOSE k \in 1..Len(roster) : roster[k] = w
             d == [k \in 1..(Len(roster) - 1) |-> IF k < at THEN roster[k] ELSE roster[k + 1]]
  <1>1. at \in 1..Len(roster) /\ roster[at] = w
    BY DEF ListItems
  <1> HIDE DEF at
  <1>2. Len(roster) - 1 \in Nat /\ \A k \in 1..Len(roster) : roster[k] \in Workers
    BY <1>1
  <1>3. d \in [1..(Len(roster) - 1) -> Workers]
    BY <1>1, <1>2
  <1>4. d \in Seq(Workers)
    BY <1>2, <1>3, SeqDef
  <1>5. Len(d) = Len(roster) - 1
    BY <1>2, <1>3, <1>4, LenProperties
  <1>6. /\ \A k \in 1..(Len(roster) - 1) : k < at => d[k] = roster[k]
        /\ \A k \in 1..(Len(roster) - 1) : k >= at => d[k] = roster[k + 1]
    BY <1>1, <1>2
  <1> HIDE DEF d
  <1>7. Once(d)
    BY <1>1, <1>2, <1>5, <1>6 DEF Once
  <1>8. \A k \in 1..Len(d) : d[k] \in ListItems(roster) \ {w}
    BY <1>1, <1>2, <1>5, <1>6 DEF ListItems, Once
  <1>9. ASSUME NEW k \in 1..Len(roster), roster[k] # w PROVE \E j \in 1..Len(d) : d[j] = roster[k]
    <2>1. CASE k < at
      BY <1>1, <1>5, <1>6, <2>1
    <2>2. CASE k > at
      <3>1. k - 1 \in 1..(Len(roster) - 1) /\ k - 1 >= at
        BY <1>1, <1>2, <2>2
      <3> QED
        BY <1>2, <1>5, <1>6, <3>1
    <2> QED
      BY <1>1, <1>9, <2>1, <2>2
  <1>10. ListItems(d) = ListItems(roster) \ {w}
    BY SMTT(30), <1>8, <1>9 DEF ListItems
  <1> QED
    BY <1>4, <1>5, <1>7, <1>10 DEF Dismissed, d, at

-----------------------------------------------------------------------------
(* What the invariant says of one item or one worker. *)

OverStays == \A i \in Items : status[i] \in Over => status'[i] = status[i]

LEMMA Lists ==
  ASSUME PoolTypeOK
  PROVE  /\ ListItems(chain) \subseteq Items /\ (chain = <<>> <=> ListItems(chain) = {})
         /\ ListItems(freshQueue) \subseteq Items
         /\ freshQueue = <<>> <=> ListItems(freshQueue) = {}
         /\ \A w \in Workers : /\ ListItems(work[w]) \subseteq Items
                               /\ work[w] = <<>> <=> ListItems(work[w]) = {}
         /\ ListItems(roster) \subseteq Workers /\ (roster = <<>> <=> ListItems(roster) = {})
         /\ Len(roster) \in Nat
  BY ListTyped DEF PoolTypeOK

(* The queues of a closed pool are empty. *)
LEMMA ClosedQueues ==
  ASSUME PoolIInv, closed
  PROVE  freshQueue = <<>> /\ \A w \in Workers : work[w] = <<>>
  BY Lists DEF PoolIInv, WaitingIsQueued, OverIsEmpty

(* The head of the chain. *)
LEMMA ChainHead ==
  ASSUME PoolIInv, chain # <<>>
  PROVE  /\ Tail(chain) \in Seq(Items) /\ Once(Tail(chain)) /\ Head(chain) \in Items
         /\ Head(chain) \in ListItems(chain) /\ Head(chain) \notin ListItems(Tail(chain))
         /\ ListItems(chain) = ListItems(Tail(chain)) \cup {Head(chain)}
         /\ Head(chain) \notin ListItems(freshQueue)
         /\ \A w \in Workers : Head(chain) \notin ListItems(work[w])
  <1>1. chain \in Seq(Items) /\ Once(chain)
    BY DEF PoolIInv, PoolTypeOK, NoDuplicates
  <1>2. /\ Tail(chain) \in Seq(Items) /\ Once(Tail(chain)) /\ Head(chain) \in Items
        /\ Head(chain) \in ListItems(chain) /\ Head(chain) \notin ListItems(Tail(chain))
        /\ ListItems(chain) = ListItems(Tail(chain)) \cup {Head(chain)}
    BY <1>1, TailOnce
  <1> QED
    BY <1>2 DEF PoolIInv, Apart

(* The queues stay as they are. *)
SameQueues == UNCHANGED <<chain, freshQueue, work, roster>>

LEMMA QueuesStay ==
  ASSUME PoolIInv, SameQueues
  PROVE  NoDuplicates' /\ Apart'
  BY DEF PoolIInv, SameQueues, NoDuplicates, Apart

(* One queued item begins its turn, with a worker that has none.           *)
LEMMA TurnStarts ==
  ASSUME PoolIInv, NEW w \in Workers, NEW i \in Items, StartTurn(w, {i}),
         status[i] = "queued", w = i \/ state[w] = "idle",
         UNCHANGED <<closed, due, pool>>
  PROVE  /\ status' = [j \in Items |-> IF j = i THEN "running" ELSE status[j]]
         /\ status' \in [Items -> {"new", "queued", "running"} \cup Over]
         /\ batch' \in [Workers -> SUBSET Items]
         /\ state' = [state EXCEPT ![w] = "running"]
         /\ job' \in [Workers -> {"none", "running", "cancelled"}]
         /\ BatchesRun' /\ OverIsEmpty' /\ PushedInOrder' /\ OverStays
  <1> USE DEF PoolIInv
  <1>1. /\ status' = [j \in Items |-> IF j = i THEN "running" ELSE status[j]]
        /\ batch' = [batch EXCEPT ![w] = {i}]
        /\ state' = [state EXCEPT ![w] = "running"]
        /\ job' = [job EXCEPT ![w] = IF MayRegister THEN "running" ELSE "none"]
    BY DEF StartTurn
  <1>2. state[w] # "running"
    BY DEF BatchesRun
  <1>3. /\ \A v \in Workers : i \notin batch[v] /\ (v = w => batch[v] = {})
        /\ i \notin ListItems(roster)
    BY <1>2 DEF BatchesRun, PoolTypeOK, Workers
  <1>4. /\ status' \in [Items -> {"new", "queued", "running"} \cup Over]
        /\ batch' \in [Workers -> SUBSET Items]
        /\ job' \in [Workers -> {"none", "running", "cancelled"}]
    BY <1>1 DEF PoolTypeOK
  <1>5. BatchesRun'
    <2>1. /\ \A v \in Workers : batch'[v] = IF v = w THEN {i} ELSE batch[v]
          /\ \A v \in Workers : state'[v] = IF v = w THEN "running" ELSE state[v]
          /\ \A v \in Workers : v # w => job'[v] = job[v]
          /\ \A j \in Items : status'[j] = IF j = i THEN "running" ELSE status[j]
      BY <1>1 DEF PoolTypeOK
    <2>2. \A v \in Workers : batch[v] \subseteq Items
      BY DEF PoolTypeOK
    <2>3. \A v \in Workers : \A j \in batch'[v] : status'[j] = "running" /\ state'[v] = "running"
      BY <1>3, <2>1, <2>2 DEF BatchesRun
    <2>4. \A u, v \in Workers : batch'[u] \cap batch'[v] # {} => u = v
      BY <1>3, <2>1 DEF BatchesRun
    <2>5. \A v \in Workers : state'[v] # "none" => status'[v] \notin {"new", "queued"}
      BY <2>1 DEF BatchesRun, Workers
    <2>6. \A v \in Workers : job'[v] # "none" => state'[v] = "running"
      BY <2>1 DEF BatchesRun
    <2> QED
      BY <2>3, <2>4, <2>5, <2>6 DEF BatchesRun
  <1>6. OverIsEmpty'
    BY <1>1 DEF OverIsEmpty, Drained
  <1>7. PushedInOrder'
    BY <1>1 DEF PushedInOrder
  <1>8. OverStays
    BY <1>1 DEF OverStays, Over
  <1> QED
    BY <1>1, <1>4, <1>5, <1>6, <1>7, <1>8

-----------------------------------------------------------------------------
(* The dispatch of the item at the head of the chain. *)

(* The head leaves the chain and goes nowhere: it was dropped. *)
LEMMA SkipSafe ==
  ASSUME PoolIInv, chain # <<>>, ~spawning, Skip, UNCHANGED <<settings, unreserved, aggregate>>
  PROVE  PoolIInv' /\ OverStays
  <1> USE DEF PoolIInv
  <1>1. /\ chain' = Tail(chain)
        /\ UNCHANGED <<freshAgents, ceiling, status, spawning, freshQueue, unreserved, roster,
                       state, work, batch, cursor, job, ending, others, pool, due, closed>>
    BY DEF Skip, settings, workers, jobs, aggregate
  <1>2. closed
    BY ChainHead DEF Skip, WaitingIsQueued
  <1>3. /\ freshQueue = <<>> /\ \A w \in Workers : work[w] = <<>>
        /\ ListItems(chain') \subseteq ListItems(chain) /\ chain' \in Seq(Items) /\ Once(chain')
    BY <1>1, <1>2, ClosedQueues, ChainHead
  <1>4. PoolTypeOK'
    BY <1>1, <1>3 DEF PoolTypeOK
  <1>5. NoDuplicates' /\ Apart'
    BY <1>1, <1>3 DEF NoDuplicates, Apart
  <1>6. WaitingIsQueued' /\ QueuedWaits'
    BY <1>1, <1>2, <1>3 DEF WaitingIsQueued, QueuedWaits, OverIsEmpty
  <1>7. QueuesServed' /\ SpawnsHead'
    BY <1>1, <1>3 DEF QueuesServed, SpawnsHead
  <1>8. BatchesRun' /\ OverIsEmpty' /\ PushedInOrder' /\ OverStays
    BY <1>1 DEF BatchesRun, OverIsEmpty, Drained, PushedInOrder, OverStays
  <1> QED
    BY <1>4, <1>5, <1>6, <1>7, <1>8

(* The head waits for a fresh agent; a worker is there to free it. *)
LEMMA PostponeSafe ==
  ASSUME PoolIInv, chain # <<>>, ~spawning, ~closed, status[Head(chain)] = "queued", Postpone,
         UNCHANGED <<settings, unreserved, aggregate>>
  PROVE  PoolIInv' /\ OverStays
  <1> DEFINE i == Head(chain)
  <1> USE DEF PoolIInv
  <1>1. /\ chain' = Tail(chain) /\ freshQueue' = Append(freshQueue, i) /\ freshAgents
        /\ UNCHANGED <<freshAgents, ceiling, status, spawning, unreserved, roster,
                       state, work, batch, cursor, job, ending, others, pool, due, closed>>
    BY DEF Postpone, settings, workers, jobs, aggregate
  <1>2. /\ i \in Items /\ i \notin ListItems(freshQueue) /\ i \notin ListItems(chain')
        /\ ListItems(chain) = ListItems(chain') \cup {i} /\ chain' \in Seq(Items) /\ Once(chain')
        /\ \A w \in Workers : i \notin ListItems(work[w])
    BY <1>1, ChainHead
  <1>3. /\ freshQueue' \in Seq(Items) /\ Once(freshQueue')
        /\ ListItems(freshQueue') = ListItems(freshQueue) \cup {i}
    BY <1>1, <1>2, AppendOnce DEF PoolTypeOK, NoDuplicates
  <1>4. roster # <<>>
    <2>1. ceiling \in Nat /\ ceiling # 0 /\ ~(Len(roster) < ceiling)
      BY PoolAssumption DEF Postpone, Capacity, PoolTypeOK
    <2> QED
      BY <2>1
  <1> HIDE DEF i
  <1>5. PoolTypeOK'
    BY <1>1, <1>2, <1>3 DEF PoolTypeOK
  <1>6. NoDuplicates' /\ Apart'
    BY <1>1, <1>2, <1>3 DEF NoDuplicates, Apart
  <1>7. status[i] = "queued"
    BY DEF i
  <1>8. WaitingIsQueued' /\ QueuedWaits'
    BY <1>1, <1>2, <1>3, <1>7 DEF WaitingIsQueued, QueuedWaits, Waits
  <1>9. QueuesServed' /\ SpawnsHead'
    BY <1>1, <1>4 DEF QueuesServed, SpawnsHead
  <1>10. BatchesRun' /\ OverIsEmpty' /\ PushedInOrder' /\ OverStays
    BY <1>1 DEF BatchesRun, OverIsEmpty, Drained, PushedInOrder, OverStays
  <1> QED
    BY <1>5, <1>6, <1>8, <1>9, <1>10

(* A new worker is wanted only while there is room for it. *)
LEMMA ReserveSafe ==
  ASSUME PoolIInv, chain # <<>>, Reserve, UNCHANGED <<settings, unreserved, aggregate>>
  PROVE  PoolIInv' /\ OverStays
  <1> USE DEF PoolIInv
  <1>1. /\ spawning' = TRUE
        /\ UNCHANGED <<freshAgents, ceiling, status, chain, freshQueue, unreserved, roster,
                       state, work, batch, cursor, job, ending, others, pool, due, closed>>
    BY DEF Reserve, settings, workers, jobs, aggregate
  <1>2. \E n \in Ceilings : n = 0 \/ Len(roster) < n
    <2>1. ceiling \in Ceilings /\ ceiling \in Nat
      BY PoolAssumption DEF PoolTypeOK
    <2>2. CASE Capacity
      BY <2>1, <2>2 DEF Capacity
    <2>3. CASE ~Capacity
      <3>1. \A w \in Workers : state[w] = "none"
        BY <2>3 DEF Reserve, Idle, PoolTypeOK
      <3>2. roster = <<>>
        BY <3>1, Lists DEF PoolTypeOK
      <3> QED
        BY <2>1, <3>2
    <2> QED
      BY <2>2, <2>3
  <1>3. PoolTypeOK' /\ SpawnsHead'
    BY <1>1, <1>2 DEF PoolTypeOK, SpawnsHead
  <1>4. NoDuplicates' /\ Apart' /\ WaitingIsQueued' /\ QueuedWaits' /\ QueuesServed'
    BY <1>1 DEF NoDuplicates, Apart, WaitingIsQueued, QueuedWaits, Waits, QueuesServed
  <1>5. BatchesRun' /\ OverIsEmpty' /\ PushedInOrder' /\ OverStays
    BY <1>1 DEF BatchesRun, OverIsEmpty, Drained, PushedInOrder, OverStays
  <1> QED
    BY <1>3, <1>4, <1>5

(* The head goes to an idle worker and runs at once. *)
LEMMA AssignSafe ==
  ASSUME PoolIInv, chain # <<>>, ~spawning, ~closed, status[Head(chain)] = "queued", Assign,
         UNCHANGED <<settings, unreserved, aggregate>>
  PROVE  PoolIInv' /\ OverStays
  <1> DEFINE i == Head(chain)
  <1> USE DEF PoolIInv
  <1>1. /\ chain' = Tail(chain) /\ ~freshAgents
        /\ UNCHANGED <<freshAgents, ceiling, spawning, freshQueue, unreserved, roster,
                       work, cursor, ending, others, pool, due, closed>>
    BY DEF Assign, settings, aggregate
  <1>2. PICK w \in Workers : state[w] = "idle" /\ StartTurn(w, {i})
    BY DEF Assign, Idle
  <1>3. /\ i \in Items /\ i \notin ListItems(freshQueue) /\ i \notin ListItems(chain')
        /\ ListItems(chain) = ListItems(chain') \cup {i} /\ chain' \in Seq(Items) /\ Once(chain')
        /\ \A v \in Workers : i \notin ListItems(work[v])
    BY <1>1, ChainHead
  <1> HIDE DEF i
  <1>4. status[i] = "queued"
    BY DEF i
  <1>5. /\ status' = [j \in Items |-> IF j = i THEN "running" ELSE status[j]]
        /\ status' \in [Items -> {"new", "queued", "running"} \cup Over]
        /\ batch' \in [Workers -> SUBSET Items]
        /\ state' = [state EXCEPT ![w] = "running"]
        /\ job' \in [Workers -> {"none", "running", "cancelled"}]
        /\ BatchesRun' /\ OverIsEmpty' /\ PushedInOrder' /\ OverStays
    BY <1>1, <1>2, <1>3, <1>4, TurnStarts
  <1>6. PoolTypeOK'
    <2>1. state' \in [Workers -> {"none", "idle", "running"}]
          /\ \A v \in Workers : state'[v] # "none" <=> v \in ListItems(roster)
      BY <1>2, <1>5 DEF PoolTypeOK
    <2> QED
      BY <1>1, <1>3, <1>5, <2>1 DEF PoolTypeOK
  <1>7. NoDuplicates' /\ Apart'
    BY <1>1, <1>3 DEF NoDuplicates, Apart
  <1>8. WaitingIsQueued' /\ QueuedWaits'
    BY <1>1, <1>3, <1>5, Lists DEF WaitingIsQueued, QueuedWaits, Waits
  <1>9. QueuesServed' /\ SpawnsHead'
    BY <1>1, <1>2, <1>5 DEF QueuesServed, SpawnsHead, PoolTypeOK
  <1> QED
    BY <1>5, <1>6, <1>7, <1>8, <1>9

(* The head is queued on a busy worker. *)
LEMMA EnqueueSafe ==
  ASSUME PoolIInv, chain # <<>>, ~spawning, ~closed, status[Head(chain)] = "queued", Enqueue,
         UNCHANGED <<settings, unreserved, aggregate>>
  PROVE  PoolIInv' /\ OverStays
  <1> DEFINE i == Head(chain)
  <1> USE DEF PoolIInv
  <1>1. /\ chain' = Tail(chain) /\ ~freshAgents
        /\ UNCHANGED <<freshAgents, ceiling, status, spawning, freshQueue, unreserved, roster,
                       state, batch, job, ending, others, pool, due, closed>>
    BY DEF Enqueue, settings, jobs, aggregate
  <1>2. PICK o \in Busy :
          /\ work' = [work EXCEPT ![roster[Slot(o) + 1]] = Append(work[roster[Slot(o) + 1]], i)]
          /\ cursor' = (Slot(o) + 1) % Len(roster)
    BY DEF Enqueue
  <1>3. o \in 0..(Len(roster) - 1) /\ state[roster[Slot(o) + 1]] = "running"
    BY DEF Busy, BusyAt
  <1>4. Len(roster) \in Nat \ {0} /\ cursor + o \in Nat
    BY <1>3 DEF PoolTypeOK
  <1>5. Slot(o) + 1 \in 1..Len(roster) /\ cursor' \in Nat
    <2>1. Slot(o) \in 0..(Len(roster) - 1)
      BY <1>4 DEF Slot
    <2>2. (Slot(o) + 1) % Len(roster) \in 0..(Len(roster) - 1)
      BY <1>4, <2>1
    <2> QED
      BY <1>2, <1>4, <2>1, <2>2
  <1>6. PICK w \in Workers : state[w] = "running" /\ work' = [work EXCEPT ![w] = Append(work[w], i)]
    <2>1. roster[Slot(o) + 1] \in Workers
      BY <1>5 DEF PoolTypeOK
    <2> QED
      BY <1>2, <1>3, <2>1
  <1>7. /\ i \in Items /\ i \notin ListItems(freshQueue) /\ i \notin ListItems(chain')
        /\ ListItems(chain) = ListItems(chain') \cup {i} /\ chain' \in Seq(Items) /\ Once(chain')
        /\ \A v \in Workers : i \notin ListItems(work[v])
    BY <1>1, ChainHead
  <1> HIDE DEF i
  <1>8. status[i] = "queued"
    BY DEF i
  <1>9. /\ Append(work[w], i) \in Seq(Items) /\ Once(Append(work[w], i))
        /\ ListItems(Append(work[w], i)) = ListItems(work[w]) \cup {i}
    BY <1>7, AppendOnce DEF PoolTypeOK, NoDuplicates
  <1>10. work' \in [Workers -> Seq(Items)] /\ work'[w] = Append(work[w], i)
         /\ \A v \in Workers : v # w => work'[v] = work[v]
    BY <1>6, <1>9 DEF PoolTypeOK
  <1>11. PoolTypeOK'
    BY <1>1, <1>5, <1>7, <1>10 DEF PoolTypeOK
  <1>12. NoDuplicates'
    BY <1>1, <1>7, <1>9, <1>10 DEF NoDuplicates
  <1>13. Apart'
    BY <1>1, <1>7, <1>9, <1>10 DEF Apart
  <1>14. WaitingIsQueued' /\ QueuedWaits'
    <2>1. WaitingIsQueued'
      BY <1>1, <1>7, <1>8, <1>9, <1>10 DEF WaitingIsQueued
    <2>2. ASSUME NEW j \in Items, Waits(j) PROVE Waits(j)'
      <3>1. CASE j = i
        BY <1>9, <1>10, <3>1 DEF Waits
      <3>2. CASE j # i
        BY <1>1, <1>7, <1>9, <1>10, <2>2, <3>2 DEF Waits
      <3> QED
        BY <3>1, <3>2
    <2> QED
      BY <1>1, <2>1, <2>2 DEF QueuedWaits
  <1>15. QueuesServed' /\ SpawnsHead'
    BY <1>1, <1>6, <1>10 DEF QueuesServed, SpawnsHead
  <1>16. BatchesRun' /\ OverIsEmpty' /\ PushedInOrder' /\ OverStays
    BY <1>1 DEF BatchesRun, OverIsEmpty, Drained, PushedInOrder, OverStays
  <1> QED
    BY <1>11, <1>12, <1>13, <1>14, <1>15, <1>16

LEMMA DispatchSafe == ASSUME PoolIInv, Dispatch PROVE PoolIInv' /\ OverStays
  BY SkipSafe, PostponeSafe, ReserveSafe, AssignSafe, EnqueueSafe DEF Dispatch

-----------------------------------------------------------------------------
(* The reservation of a worker's id, and pushing. *)

(* The item runs, unless it was dropped while the id was being reserved.   *)
LEMMA ReservedSafe == ASSUME PoolIInv, Reserved PROVE PoolIInv' /\ OverStays
  <1> DEFINE i == Head(chain)
  <1> USE DEF PoolIInv
  <1>1. /\ chain # <<>> /\ chain' = Tail(chain) /\ spawning' = FALSE
        /\ UNCHANGED <<freshAgents, ceiling, freshQueue, unreserved, work, cursor, ending, others,
                       pool, due, closed>>
    BY DEF Reserved, settings, aggregate, SpawnsHead
  <1>2. /\ i \in Items /\ i \notin ListItems(freshQueue) /\ i \notin ListItems(chain')
        /\ ListItems(chain) = ListItems(chain') \cup {i} /\ chain' \in Seq(Items) /\ Once(chain')
        /\ \A v \in Workers : i \notin ListItems(work[v])
    BY <1>1, ChainHead
  <1>3. CASE StillWanted(i)
    <2>1. /\ status[i] = "queued" /\ ~closed /\ StartTurn(i, {i})
          /\ roster' = Append(roster, i) /\ i \in Workers
      BY <1>2, <1>3 DEF Reserved, StillWanted, Workers
    <2> HIDE DEF i
    <2>2. state[i] = "none" /\ i \notin ListItems(roster)
      BY <2>1 DEF BatchesRun, PoolTypeOK
    <2>3. /\ status' = [j \in Items |-> IF j = i THEN "running" ELSE status[j]]
          /\ status' \in [Items -> {"new", "queued", "running"} \cup Over]
          /\ batch' \in [Workers -> SUBSET Items]
          /\ state' = [state EXCEPT ![i] = "running"]
          /\ job' \in [Workers -> {"none", "running", "cancelled"}]
          /\ BatchesRun' /\ OverIsEmpty' /\ PushedInOrder' /\ OverStays
      BY <1>1, <1>2, <2>1, TurnStarts
    <2>4. /\ roster' \in Seq(Workers) /\ Once(roster') /\ Len(roster') = Len(roster) + 1
          /\ ListItems(roster') = ListItems(roster) \cup {i}
      BY <2>1, <2>2, AppendOnce DEF PoolTypeOK, NoDuplicates
    <2>5. \E n \in Ceilings : n = 0 \/ Len(roster') <= n
      <3>1. PICK n \in Ceilings : n = 0 \/ Len(roster) < n
        BY DEF SpawnsHead, Reserved
      <3> QED
        BY <2>4, <3>1, PoolAssumption, Lists
    <2>6. PoolTypeOK'
      <3>1. state' \in [Workers -> {"none", "idle", "running"}]
            /\ \A v \in Workers : state'[v] # "none" <=> v \in ListItems(roster')
        BY <2>1, <2>3, <2>4 DEF PoolTypeOK
      <3> QED
        BY <1>1, <1>2, <2>3, <2>4, <2>5, <3>1 DEF PoolTypeOK
    <2>7. NoDuplicates' /\ Apart'
      BY <1>1, <1>2, <2>4 DEF NoDuplicates, Apart
    <2>8. WaitingIsQueued' /\ QueuedWaits'
      BY <1>1, <1>2, <2>3, Lists DEF WaitingIsQueued, QueuedWaits, Waits
    <2>9. roster' # <<>>
      BY <2>4, ListTyped
    <2>10. QueuesServed' /\ SpawnsHead'
      BY <1>1, <2>1, <2>3, <2>9 DEF QueuesServed, SpawnsHead, PoolTypeOK
    <2> QED
      BY <2>3, <2>6, <2>7, <2>8, <2>10
  <1>4. CASE ~StillWanted(i)
    <2>1. UNCHANGED <<status, roster, state, batch, job>>
      BY <1>4 DEF Reserved
    <2>2. closed
      BY <1>4, <1>1, ChainHead DEF StillWanted, WaitingIsQueued
    <2> HIDE DEF i
    <2>3. freshQueue = <<>> /\ \A w \in Workers : work[w] = <<>>
      BY <2>2, ClosedQueues
    <2>4. PoolTypeOK' /\ NoDuplicates' /\ Apart'
      BY <1>1, <1>2, <2>1 DEF PoolTypeOK, NoDuplicates, Apart
    <2>5. WaitingIsQueued' /\ QueuedWaits'
      BY <1>1, <1>2, <2>1, <2>2 DEF WaitingIsQueued, QueuedWaits, OverIsEmpty
    <2>6. QueuesServed' /\ SpawnsHead'
      BY <1>1, <2>1, <2>3 DEF QueuesServed, SpawnsHead
    <2>7. BatchesRun' /\ OverIsEmpty' /\ PushedInOrder' /\ OverStays
      BY <1>1, <2>1 DEF BatchesRun, OverIsEmpty, Drained, PushedInOrder, OverStays
    <2> QED
      BY <2>4, <2>5, <2>6, <2>7
  <1> QED
    BY <1>3, <1>4

(* The item fails with its reservation; fresh items may be deserted. *)
LEMMA ReserveFailsSafe == ASSUME PoolIInv, ReserveFails PROVE PoolIInv' /\ OverStays
  <1> DEFINE i == Head(chain)
  <1> USE DEF PoolIInv
  <1>1. /\ chain # <<>> /\ chain' = Tail(chain) /\ spawning' = FALSE /\ ~due
        /\ status' = [status EXCEPT ![i] = IF status[i] = "queued" THEN "failed" ELSE status[i]]
        /\ unreserved' = TRUE /\ Notify
        /\ UNCHANGED <<freshAgents, ceiling, freshQueue, work, roster, state, batch, job, cursor,
                       ending, others, pool, closed>>
    BY DEF ReserveFails, settings, workers, jobs, SpawnsHead
  <1>2. /\ i \in Items /\ i \notin ListItems(freshQueue) /\ i \notin ListItems(chain')
        /\ ListItems(chain) = ListItems(chain') \cup {i} /\ chain' \in Seq(Items) /\ Once(chain')
        /\ \A v \in Workers : i \notin ListItems(work[v])
    BY <1>1, ChainHead
  <1>3. status[i] \in {"queued", "cancelled"}
    BY <1>1, ChainHead DEF WaitingIsQueued
  <1> HIDE DEF i
  <1>4. /\ \A j \in Items : j # i => status'[j] = status[j]
        /\ status'[i] \in {"failed", "cancelled"} /\ (status[i] # "queued" => status'[i] = status[i])
        /\ status' \in [Items -> {"new", "queued", "running"} \cup Over]
    BY <1>1, <1>2, <1>3 DEF PoolTypeOK, Over
  <1>5. due' \in BOOLEAN /\ (due' => Drained(status'))
    BY <1>1 DEF Notify
  <1>6. PoolTypeOK' /\ NoDuplicates' /\ Apart'
    BY <1>1, <1>2, <1>4, <1>5 DEF PoolTypeOK, NoDuplicates, Apart
  <1>7. WaitingIsQueued' /\ QueuedWaits'
    BY <1>1, <1>2, <1>4, Lists DEF WaitingIsQueued, QueuedWaits, Waits
  <1>8. QueuesServed' /\ SpawnsHead'
    BY <1>1 DEF QueuesServed, SpawnsHead
  <1>9. BatchesRun'
    <2>1. \A w \in Workers : i \notin batch[w] /\ (w = i => status'[w] \notin {"new", "queued"})
      BY <1>3, <1>4 DEF BatchesRun
    <2> QED
      BY <1>1, <1>4, <2>1 DEF BatchesRun, PoolTypeOK, Workers
  <1>10. OverIsEmpty'
    BY <1>1, <1>4, <1>5 DEF OverIsEmpty, Drained
  <1>11. PushedInOrder' /\ OverStays
    BY <1>3, <1>4 DEF PushedInOrder, OverStays, Over
  <1> QED
    BY <1>6, <1>7, <1>8, <1>9, <1>10, <1>11

(* The items of a push, in their order. *)
LEMMA PushedList ==
  ASSUME NEW m \in Nat, NEW n \in Nat, (m + 1)..(m + n) \subseteq Items
  PROVE  LET t == [k \in 1..n |-> m + 1 + k - 1]
         IN  t \in Seq(Items) /\ ListItems(t) = (m + 1)..(m + n) /\ Once(t)
  <1> DEFINE t == [k \in 1..n |-> m + 1 + k - 1]
  <1>1. \A k \in 1..n : m + 1 + k - 1 \in (m + 1)..(m + n) /\ t[k] = m + 1 + k - 1
    OBVIOUS
  <1>2. t \in [1..n -> Items]
    BY <1>1
  <1>3. t \in Seq(Items)
    BY <1>2, SeqDef
  <1>4. Len(t) = n
    BY <1>2, <1>3, LenProperties
  <1>5. \A k \in 1..n : t[k] = m + k
    BY <1>1
  <1> HIDE DEF t
  <1>6. ASSUME NEW i \in (m + 1)..(m + n) PROVE i \in ListItems(t)
    <2>1. i - m \in 1..n /\ t[i - m] = i
      BY <1>5
    <2> QED
      BY <1>4, <2>1 DEF ListItems
  <1>7. ListItems(t) = (m + 1)..(m + n)
    <2>1. \A k \in 1..n : t[k] \in (m + 1)..(m + n)
      BY <1>5
    <2>2. ListItems(t) \subseteq (m + 1)..(m + n)
      BY <1>4, <2>1 DEF ListItems
    <2> QED
      BY <1>6, <2>2
  <1>8. Once(t)
    BY <1>4, <1>5 DEF Once
  <1> QED
    BY <1>3, <1>7, <1>8 DEF t

LEMMA PushSafe == ASSUME PoolIInv, NEW n \in 1..MaxItems, Push(n) PROVE PoolIInv' /\ OverStays
  <1> USE DEF PoolIInv
  <1>1. PICK m \in 0..MaxItems : \A i \in Items : status[i] = "new" <=> m < i
    BY DEF PushedInOrder
  <1>2. m \in Nat /\ n \in Nat /\ MaxItems \in Nat
    BY PoolAssumption
  <1>3. Cardinality({i \in Items : status[i] # "new"}) = m
    <2>1. {i \in Items : status[i] # "new"} = 1..m
      BY <1>1, <1>2 DEF Items
    <2>2. Cardinality(1..m) = m
      BY <1>2, FS_Interval
    <2> QED
      BY <2>1, <2>2
  <1> DEFINE pushed == (m + 1)..(m + n)
             t == [k \in 1..n |-> m + 1 + k - 1]
  <1>4. m + 1 + n - 1 = m + n
    BY <1>2
  <1>5. /\ pushed \subseteq Items /\ ~closed /\ ~due
        /\ status' = [i \in Items |-> IF i \in pushed THEN "queued" ELSE status[i]]
        /\ pool' = IF pool # "none" THEN pool ELSE IF MayRegister THEN "waiting" ELSE "refused"
        /\ chain' = IF pool = "none" /\ ~MayRegister THEN chain ELSE chain \o t
        /\ UNCHANGED <<freshAgents, ceiling, spawning, freshQueue, unreserved, roster, state, work,
                       batch, cursor, job, ending, others, due, closed>>
    BY <1>3, <1>4 DEF Push, Quiet, settings, workers, jobs
  <1>6. t \in Seq(Items) /\ ListItems(t) = pushed /\ Once(t)
    BY <1>2, <1>5, PushedList
  <1>7. \A i \in pushed : m < i /\ i <= m + n
    BY <1>2
  <1>8. \A i \in Items : i \in pushed <=> m < i /\ i <= m + n
    BY <1>2 DEF Items
  <1> HIDE DEF pushed, t
  <1>9. \A i \in pushed : i \in Items /\ status[i] = "new"
    BY <1>1, <1>5, <1>7
  <1>10. \A i \in pushed : /\ i \notin ListItems(chain) /\ i \notin ListItems(freshQueue)
                           /\ \A w \in Workers : i \notin ListItems(work[w])
    BY <1>9 DEF WaitingIsQueued
  <1>11. /\ chain' \in Seq(Items) /\ Once(chain')
         /\ ListItems(chain) \subseteq ListItems(chain')
         /\ ListItems(chain') \subseteq ListItems(chain) \cup pushed
         /\ pool' # "refused" => pushed \subseteq ListItems(chain')
         /\ chain # <<>> => chain' # <<>>
    <2>1. chain \in Seq(Items) /\ Once(chain) /\ ListItems(chain) \cap ListItems(t) = {}
      BY <1>6, <1>10 DEF PoolTypeOK, NoDuplicates
    <2>2. /\ chain \o t \in Seq(Items) /\ ListItems(chain \o t) = ListItems(chain) \cup pushed
          /\ Once(chain \o t) /\ (chain # <<>> => chain \o t # <<>>)
      BY <1>6, <2>1, ConcatOnce
    <2> QED
      BY <1>5, <2>1, <2>2
  <1>12. /\ \A i \in Items : status'[i] = IF i \in pushed THEN "queued" ELSE status[i]
         /\ status' \in [Items -> {"new", "queued", "running"} \cup Over]
    BY <1>5 DEF PoolTypeOK
  <1>13. pool' \in {"none", "refused", "waiting", "cancelled", "done"}
         /\ (pool # "none" => pool' = pool) /\ pool' # "done"
    BY <1>5 DEF PoolTypeOK, OverIsEmpty
  <1>14. PoolTypeOK'
    BY <1>5, <1>11, <1>12, <1>13 DEF PoolTypeOK
  <1>15. NoDuplicates' /\ Apart'
    BY <1>5, <1>10, <1>11 DEF NoDuplicates, Apart
  <1>16. WaitingIsQueued'
    BY <1>5, <1>9, <1>10, <1>11, <1>12, Lists DEF WaitingIsQueued
  <1>17. QueuedWaits'
    <2> SUFFICES ASSUME pool' # "refused", NEW i \in Items, status'[i] = "queued" PROVE Waits(i)'
      BY DEF QueuedWaits
    <2>1. CASE i \in pushed
      BY <1>11, <2>1 DEF Waits
    <2>2. CASE i \notin pushed
      <3>1. Waits(i)
        BY <1>12, <1>13, <2>2 DEF QueuedWaits
      <3> QED
        BY <1>5, <1>11, <3>1 DEF Waits
    <2> QED
      BY <2>1, <2>2
  <1>18. QueuesServed' /\ SpawnsHead'
    BY <1>5, <1>11 DEF QueuesServed, SpawnsHead
  <1>19. BatchesRun'
    <2>1. \A w \in Workers : \A i \in batch[w] : i \in Items /\ i \notin pushed
      BY <1>9 DEF BatchesRun, PoolTypeOK
    <2>2. \A w \in Workers : state[w] # "none" => w \notin pushed
      BY <1>9 DEF BatchesRun
    <2> QED
      BY <1>5, <1>12, <2>1, <2>2 DEF BatchesRun, Workers
  <1>20. OverIsEmpty'
    BY <1>5, <1>13 DEF OverIsEmpty
  <1>21. PushedInOrder'
    <2>1. m + n \in 0..MaxItems
      <3>1. m + n \in pushed
        BY <1>2 DEF pushed
      <3> QED
        BY <1>2, <1>5, <3>1 DEF Items
    <2>2. \A i \in Items : status'[i] = "new" <=> m + n < i
      <3>1. \A i \in Items : i \in Nat
        BY DEF Items
      <3> QED
        BY <1>1, <1>2, <1>8, <1>12, <3>1
    <2> QED
      BY <2>1, <2>2 DEF PushedInOrder
  <1>22. OverStays
    BY <1>9, <1>12 DEF OverStays, Over
  <1> QED
    BY <1>14, <1>15, <1>16, <1>17, <1>18, <1>19, <1>20, <1>21, <1>22

-----------------------------------------------------------------------------
(* The end of a turn. *)

(* The worker leaves, its items get the outcome of the turn. *)
LEMMA WorkerLeaves ==
  ASSUME PoolIInv, NEW w \in Workers, job[w] # "none", NEW again, Leave(w, again)
  PROVE  /\ chain' = chain \o again
         /\ status' \in [Items -> {"new", "queued", "running"} \cup Over]
         /\ \A i \in Items : status[i] \in {"new", "queued"} \cup Over => status'[i] = status[i]
         /\ \A i \in Items : status'[i] # status[i] => status'[i] = "settled"
         /\ roster' \in Seq(Workers) /\ Once(roster') /\ Len(roster') = Len(roster) - 1
         /\ state' \in [Workers -> {"none", "idle", "running"}]
         /\ \A v \in Workers : state'[v] # "none" <=> v \in ListItems(roster')
         /\ \A v \in Workers : v # w => state'[v] = state[v]
         /\ work' \in [Workers -> Seq(Items)] /\ work'[w] = <<>>
         /\ \A v \in Workers : v # w => work'[v] = work[v]
         /\ batch' \in [Workers -> SUBSET Items]
         /\ job' \in [Workers -> {"none", "running", "cancelled"}]
         /\ BatchesRun' /\ PushedInOrder' /\ OverStays
  <1> USE DEF PoolIInv
  <1>1. /\ status' = [i \in Items |-> IF i \in batch[w] THEN "settled" ELSE status[i]]
        /\ chain' = chain \o again /\ roster' = Dismissed(w)
        /\ state' = [state EXCEPT ![w] = "none"] /\ work' = [work EXCEPT ![w] = <<>>]
        /\ batch' = [batch EXCEPT ![w] = {}] /\ job' = [job EXCEPT ![w] = "none"]
    BY DEF Leave, Settled
  <1>2. /\ \A i \in batch[w] : i \in Items /\ status[i] = "running"
        /\ w \in ListItems(roster)
    BY DEF BatchesRun, PoolTypeOK
  <1>3. /\ roster' \in Seq(Workers) /\ Once(roster') /\ Len(roster') = Len(roster) - 1
        /\ ListItems(roster') = ListItems(roster) \ {w}
    BY <1>1, <1>2, DismissedOnce DEF PoolTypeOK, NoDuplicates
  <1>4. /\ status' \in [Items -> {"new", "queued", "running"} \cup Over]
        /\ \A i \in Items : status'[i] = IF i \in batch[w] THEN "settled" ELSE status[i]
    BY <1>1 DEF PoolTypeOK, Over
  <1>5. /\ state' \in [Workers -> {"none", "idle", "running"}] /\ state'[w] = "none"
        /\ \A v \in Workers : v # w => state'[v] = state[v]
    BY <1>1 DEF PoolTypeOK
  <1>6. /\ work' \in [Workers -> Seq(Items)] /\ work'[w] = <<>>
        /\ \A v \in Workers : v # w => work'[v] = work[v]
    BY <1>1 DEF PoolTypeOK
  <1>7. /\ batch' \in [Workers -> SUBSET Items] /\ batch'[w] = {}
        /\ \A v \in Workers : v # w => batch'[v] = batch[v]
    BY <1>1 DEF PoolTypeOK
  <1>8. /\ job' \in [Workers -> {"none", "running", "cancelled"}] /\ job'[w] = "none"
        /\ \A v \in Workers : v # w => job'[v] = job[v]
    BY <1>1 DEF PoolTypeOK
  <1>9. \A v \in Workers : state'[v] # "none" <=> v \in ListItems(roster')
    BY <1>3, <1>5 DEF PoolTypeOK
  <1>10. BatchesRun'
    <2>1. \A v \in Workers : v # w => \A i \in batch[v] : i \in Items /\ i \notin batch[w]
      BY DEF BatchesRun, PoolTypeOK
    <2>2. \A v \in Workers : \A i \in batch'[v] : status'[i] = "running" /\ state'[v] = "running"
      BY <1>4, <1>5, <1>7, <2>1 DEF BatchesRun
    <2>3. \A u, v \in Workers : batch'[u] \cap batch'[v] # {} => u = v
      BY <1>7 DEF BatchesRun
    <2>4. \A v \in Workers : state'[v] # "none" => status'[v] \notin {"new", "queued"}
      BY <1>4, <1>5 DEF BatchesRun, Workers
    <2>5. \A v \in Workers : job'[v] # "none" => state'[v] = "running"
      BY <1>5, <1>8 DEF BatchesRun
    <2> QED
      BY <2>2, <2>3, <2>4, <2>5 DEF BatchesRun
  <1>11. PushedInOrder'
    BY <1>2, <1>4 DEF PushedInOrder
  <1>12. \A i \in Items : status[i] \in {"new", "queued"} \cup Over => status'[i] = status[i]
    BY <1>2, <1>4 DEF Over
  <1>13. \A i \in Items : status'[i] # status[i] => status'[i] = "settled"
    BY <1>4
  <1> QED
    BY <1>1, <1>3, <1>4, <1>5, <1>6, <1>7, <1>8, <1>9, <1>10, <1>11, <1>12, <1>13 DEF OverStays

(* A fresh agent leaves; the next item it has room for is dispatched. *)
LEMMA FinishFreshSafe ==
  ASSUME PoolIInv, NEW w \in Workers, job[w] # "none", FinishFresh(w), Notify, ~due,
         ending' \in SUBSET Workers, UNCHANGED <<settings, spawning, unreserved, others, pool, closed>>
  PROVE  PoolIInv' /\ OverStays
  <1> USE DEF PoolIInv
  <1>1. /\ freshAgents /\ Leave(w, NextFresh) /\ cursor' = cursor
        /\ freshQueue' = IF freshQueue = <<>> THEN <<>> ELSE Tail(freshQueue)
        /\ UNCHANGED <<freshAgents, ceiling>>
    BY DEF FinishFresh, settings
  <1>2. /\ chain' = chain \o NextFresh
        /\ status' \in [Items -> {"new", "queued", "running"} \cup Over]
        /\ \A i \in Items : status[i] \in {"new", "queued"} \cup Over => status'[i] = status[i]
        /\ \A i \in Items : status'[i] # status[i] => status'[i] = "settled"
        /\ roster' \in Seq(Workers) /\ Once(roster') /\ Len(roster') = Len(roster) - 1
        /\ state' \in [Workers -> {"none", "idle", "running"}]
        /\ \A v \in Workers : state'[v] # "none" <=> v \in ListItems(roster')
        /\ \A v \in Workers : v # w => state'[v] = state[v]
        /\ work' \in [Workers -> Seq(Items)] /\ work'[w] = <<>>
        /\ \A v \in Workers : v # w => work'[v] = work[v]
        /\ batch' \in [Workers -> SUBSET Items]
        /\ job' \in [Workers -> {"none", "running", "cancelled"}]
        /\ BatchesRun' /\ PushedInOrder' /\ OverStays
    BY <1>1, WorkerLeaves
  <1>3. \A v \in Workers : work[v] = <<>> /\ work'[v] = <<>>
    BY <1>1, <1>2 DEF QueuesServed
  <1>4. due' \in BOOLEAN /\ (due' => Drained(status'))
    BY DEF Notify
  <1>5. OverIsEmpty'
    BY <1>2, <1>4 DEF OverIsEmpty, Drained
  <1>6. \E n \in Ceilings : n = 0 \/ Len(roster') <= n
    BY <1>2, Lists, PoolAssumption DEF PoolTypeOK
  <1>7. spawning => chain # <<>> /\ \E n \in Ceilings : n = 0 \/ Len(roster') < n
    BY <1>2, Lists, PoolAssumption DEF SpawnsHead
  <1>8. \A v \in Workers : ListItems(work[v]) = {} /\ Once(work'[v]) /\ ListItems(work'[v]) = {}
    BY <1>3, EmptyList
  <1>9. CASE freshQueue = <<>>
    <2>1. freshQueue' = freshQueue /\ chain' = chain
      <3>1. chain \o <<>> = chain
        BY DEF PoolTypeOK
      <3> QED
        BY <1>1, <1>2, <1>9, <3>1 DEF NextFresh
    <2>2. PoolTypeOK'
      BY <1>1, <1>2, <1>4, <1>6, <2>1 DEF PoolTypeOK
    <2>3. NoDuplicates' /\ Apart'
      BY <1>2, <1>8, <2>1 DEF NoDuplicates, Apart
    <2>4. WaitingIsQueued' /\ QueuedWaits'
      BY ZenonT(60), <1>2, <1>8, <2>1, Lists DEF WaitingIsQueued, QueuedWaits, Waits, Over
    <2>5. QueuesServed' /\ SpawnsHead'
      BY <1>3, <1>7, <1>9, <2>1 DEF QueuesServed, SpawnsHead
    <2> QED
      BY <1>2, <1>5, <2>2, <2>3, <2>4, <2>5
  <1>10. CASE freshQueue # <<>>
    <2> DEFINE i == Head(freshQueue)
    <2>1. /\ freshQueue' = Tail(freshQueue) /\ i \in Items /\ i \in ListItems(freshQueue)
          /\ freshQueue' \in Seq(Items) /\ Once(freshQueue') /\ i \notin ListItems(freshQueue')
          /\ ListItems(freshQueue) = ListItems(freshQueue') \cup {i}
      BY <1>1, <1>10, TailOnce DEF PoolTypeOK, NoDuplicates
    <2>2. chain' = chain \o <<i>>
      BY <1>2, <1>10 DEF NextFresh
    <2> HIDE DEF i
    <2>3. chain' = Append(chain, i)
      BY <2>1, <2>2 DEF PoolTypeOK
    <2>4. i \notin ListItems(chain) /\ status[i] = "queued"
      BY <2>1 DEF Apart, WaitingIsQueued
    <2>5. /\ chain' \in Seq(Items) /\ Once(chain') /\ chain' # <<>>
          /\ ListItems(chain') = ListItems(chain) \cup {i}
      <3>1. chain \in Seq(Items) /\ Once(chain)
        BY DEF PoolTypeOK, NoDuplicates
      <3>2. /\ chain' \in Seq(Items) /\ Once(chain')
            /\ ListItems(chain') = ListItems(chain) \cup {i}
        BY <2>1, <2>3, <2>4, <3>1, AppendOnce
      <3> QED
        BY <3>2, ListTyped
    <2>6. PoolTypeOK'
      BY <1>1, <1>2, <1>4, <1>6, <2>1, <2>5 DEF PoolTypeOK
    <2>7. NoDuplicates' /\ Apart'
      BY SMTT(30), <1>2, <1>8, <2>1, <2>4, <2>5 DEF NoDuplicates, Apart
    <2>8. WaitingIsQueued' /\ QueuedWaits'
      <3>1. WaitingIsQueued'
        <4>1. /\ \A j \in ListItems(freshQueue) : status'[j] = "queued"
              /\ \A j \in ListItems(chain) : status'[j] = status[j]
          BY <1>2, Lists DEF WaitingIsQueued, Over
        <4>2. \A j \in ListItems(chain') :
                status'[j] = "queued" \/ (closed /\ status'[j] = "cancelled")
          BY <2>1, <2>5, <4>1 DEF WaitingIsQueued
        <4> QED
          BY <1>8, <2>1, <4>1, <4>2 DEF WaitingIsQueued
      <3>2. \A j \in Items : status'[j] = "queued" => status[j] = "queued"
        BY <1>2
      <3>3. \A j \in Items : Waits(j) => Waits(j)'
        BY <1>8, <2>1, <2>5 DEF Waits
      <3> QED
        BY <3>1, <3>2, <3>3 DEF QueuedWaits
    <2>9. QueuesServed' /\ SpawnsHead'
      BY <1>1, <1>3, <1>7, <2>5 DEF QueuesServed, SpawnsHead
    <2> QED
      BY <1>2, <1>5, <2>6, <2>7, <2>8, <2>9
  <1> QED
    BY <1>9, <1>10

(* A worker that is gone leaves; what was queued on it is dispatched again. *)
LEMMA FinishDeadSafe ==
  ASSUME PoolIInv, NEW w \in Workers, job[w] # "none", FinishDead(w), Notify, ~due,
         ending' \in SUBSET Workers, UNCHANGED <<settings, spawning, unreserved, others, pool, closed>>
  PROVE  PoolIInv' /\ OverStays
  <1> USE DEF PoolIInv
  <1>1. /\ ~freshAgents /\ Leave(w, work[w]) /\ UNCHANGED <<cursor, freshQueue, freshAgents, ceiling>>
    BY DEF FinishDead, Stranded, settings
  <1>2. /\ chain' = chain \o work[w]
        /\ status' \in [Items -> {"new", "queued", "running"} \cup Over]
        /\ \A i \in Items : status[i] \in {"new", "queued"} \cup Over => status'[i] = status[i]
        /\ \A i \in Items : status'[i] # status[i] => status'[i] = "settled"
        /\ roster' \in Seq(Workers) /\ Once(roster') /\ Len(roster') = Len(roster) - 1
        /\ state' \in [Workers -> {"none", "idle", "running"}]
        /\ \A v \in Workers : state'[v] # "none" <=> v \in ListItems(roster')
        /\ \A v \in Workers : v # w => state'[v] = state[v]
        /\ work' \in [Workers -> Seq(Items)] /\ work'[w] = <<>>
        /\ \A v \in Workers : v # w => work'[v] = work[v]
        /\ batch' \in [Workers -> SUBSET Items]
        /\ job' \in [Workers -> {"none", "running", "cancelled"}]
        /\ BatchesRun' /\ PushedInOrder' /\ OverStays
    BY <1>1, WorkerLeaves
  <1>3. due' \in BOOLEAN /\ (due' => Drained(status'))
    BY DEF Notify
  <1>4. OverIsEmpty'
    BY <1>2, <1>3 DEF OverIsEmpty, Drained
  <1>5. \E n \in Ceilings : n = 0 \/ Len(roster') <= n
    BY <1>2, Lists, PoolAssumption DEF PoolTypeOK
  <1>6. /\ chain' \in Seq(Items) /\ Once(chain')
        /\ ListItems(chain') = ListItems(chain) \cup ListItems(work[w])
        /\ chain # <<>> => chain' # <<>>
    BY <1>2, ConcatOnce DEF PoolTypeOK, NoDuplicates, Apart
  <1>7. spawning => chain' # <<>> /\ \E n \in Ceilings : n = 0 \/ Len(roster') < n
    BY <1>2, <1>6, Lists, PoolAssumption DEF SpawnsHead
  <1>8. Once(work'[w]) /\ ListItems(work'[w]) = {}
    BY <1>2, EmptyList
  <1>9. PoolTypeOK'
    BY <1>1, <1>2, <1>3, <1>5, <1>6 DEF PoolTypeOK
  <1>10. NoDuplicates'
    BY <1>1, <1>2, <1>6, <1>8 DEF NoDuplicates
  <1>11. Apart'
    <2>1. \A v \in Workers : ListItems(work'[v]) = IF v = w THEN {} ELSE ListItems(work[v])
      BY <1>2, <1>8
    <2> QED
      BY <1>1, <1>6, <2>1 DEF Apart
  <1>12. WaitingIsQueued'
    <2>1. \A v \in Workers : \A i \in ListItems(work'[v]) : status'[i] = "queued"
      <3>1. \A v \in Workers : \A i \in ListItems(work[v]) :
              i \in Items /\ status[i] = "queued" /\ status'[i] = status[i]
        BY <1>2, Lists DEF WaitingIsQueued
      <3>2. \A v \in Workers : v # w => work'[v] = work[v]
        BY <1>2
      <3> QED
        BY <1>8, <3>1, <3>2
    <2>2. \A i \in ListItems(chain') : status'[i] = "queued" \/ (closed /\ status'[i] = "cancelled")
      BY ZenonT(60), <1>2, <1>6, Lists DEF WaitingIsQueued, Over
    <2>3. \A i \in ListItems(freshQueue) : status'[i] = "queued"
      BY <1>2, Lists DEF WaitingIsQueued
    <2> QED
      BY <1>1, <2>1, <2>2, <2>3, Zenon DEF WaitingIsQueued
  <1>13. QueuedWaits'
    <2> SUFFICES ASSUME pool # "refused", NEW i \in Items, status'[i] = "queued" PROVE Waits(i)'
      BY DEF QueuedWaits
    <2>1. Waits(i)
      BY <1>2 DEF QueuedWaits
    <2>2. ASSUME NEW v \in Workers, i \in ListItems(work[v]) PROVE Waits(i)'
      <3>1. CASE v = w
        BY <1>6, <2>2, <3>1 DEF Waits
      <3>2. CASE v # w
        BY <1>2, <2>2, <3>2 DEF Waits
      <3> QED
        BY <3>1, <3>2
    <2>3. ASSUME i \in ListItems(chain) \cup ListItems(freshQueue) PROVE Waits(i)'
      BY <1>1, <1>6, <2>3 DEF Waits
    <2> QED
      BY <2>1, <2>2, <2>3 DEF Waits
  <1>14. QueuesServed' /\ SpawnsHead'
    <2>1. freshQueue = <<>>
      BY <1>1 DEF QueuesServed
    <2> QED
      BY <1>1, <1>2, <1>7, <2>1 DEF QueuesServed, SpawnsHead
  <1> QED
    BY <1>2, <1>4, <1>9, <1>10, <1>11, <1>12, <1>13, <1>14

(* A worker that lives takes what was queued on it as its next batch. *)
LEMMA FinishKeptSafe ==
  ASSUME PoolIInv, NEW w \in Workers, job[w] # "none", FinishKept(w), Notify, ~due,
         ending' \in SUBSET Workers, UNCHANGED <<settings, spawning, unreserved, others, pool, closed>>
  PROVE  PoolIInv' /\ OverStays
  <1> DEFINE taken == ListItems(work[w])
  <1> USE DEF PoolIInv
  <1>1. /\ ~freshAgents
        /\ status' = [i \in Items |-> IF i \in taken THEN "running"
                                      ELSE IF i \in batch[w] THEN "settled" ELSE status[i]]
        /\ batch' = [batch EXCEPT ![w] = taken]
        /\ state' = [state EXCEPT ![w] = IF taken = {} THEN "idle" ELSE "running"]
        /\ work' = [work EXCEPT ![w] = <<>>]
        /\ job' = [job EXCEPT ![w] = IF taken # {} /\ MayRegister THEN "running" ELSE "none"]
        /\ UNCHANGED <<chain, freshQueue, roster, cursor, freshAgents, ceiling>>
    BY DEF FinishKept, Settled, settings
  <1>2. /\ taken \subseteq Items /\ \A i \in taken : status[i] = "queued"
        /\ \A i \in batch[w] : i \in Items /\ status[i] = "running"
    BY Lists DEF WaitingIsQueued, BatchesRun, PoolTypeOK
  <1>3. state[w] = "running" /\ w \in ListItems(roster)
    BY DEF BatchesRun, PoolTypeOK
  <1>4. /\ \A i \in Items : status'[i] = IF i \in taken THEN "running"
                                         ELSE IF i \in batch[w] THEN "settled" ELSE status[i]
        /\ status' \in [Items -> {"new", "queued", "running"} \cup Over]
    BY <1>1 DEF PoolTypeOK, Over
  <1>5. /\ batch' \in [Workers -> SUBSET Items] /\ batch'[w] = taken
        /\ \A v \in Workers : v # w => batch'[v] = batch[v]
    BY <1>1, <1>2 DEF PoolTypeOK
  <1>6. /\ state' \in [Workers -> {"none", "idle", "running"}]
        /\ state'[w] = IF taken = {} THEN "idle" ELSE "running"
        /\ \A v \in Workers : v # w => state'[v] = state[v]
    BY <1>1 DEF PoolTypeOK
  <1>7. /\ work' \in [Workers -> Seq(Items)] /\ work'[w] = <<>>
        /\ \A v \in Workers : v # w => work'[v] = work[v]
    BY <1>1 DEF PoolTypeOK
  <1>8. /\ job' \in [Workers -> {"none", "running", "cancelled"}]
        /\ job'[w] # "none" => taken # {}
        /\ \A v \in Workers : v # w => job'[v] = job[v]
    BY <1>1 DEF PoolTypeOK
  <1>9. due' \in BOOLEAN /\ (due' => Drained(status'))
    BY DEF Notify
  <1>10. /\ \A i \in ListItems(chain) : i \notin taken
         /\ \A i \in ListItems(freshQueue) : i \notin taken
         /\ \A v \in Workers : v # w => \A i \in ListItems(work[v]) : i \notin taken
    BY DEF Apart
  <1> HIDE DEF taken
  <1>11. PoolTypeOK'
    <2>1. \A v \in Workers : state'[v] # "none" <=> v \in ListItems(roster)
      BY <1>3, <1>6 DEF PoolTypeOK
    <2> QED
      BY <1>1, <1>4, <1>5, <1>6, <1>7, <1>8, <1>9, <2>1 DEF PoolTypeOK
  <1>12. \A v \in Workers : /\ Once(work'[v])
                            /\ ListItems(work'[v]) = IF v = w THEN {} ELSE ListItems(work[v])
    BY <1>7, EmptyList DEF NoDuplicates
  <1>13. NoDuplicates' /\ Apart'
    <2>1. NoDuplicates'
      BY <1>1, <1>12 DEF NoDuplicates
    <2>2. \A v \in Workers : ListItems(work'[v]) \subseteq ListItems(work[v])
      BY <1>12
    <2>3. Apart'
      BY <1>1, <2>2 DEF Apart
    <2> QED
      BY <2>1, <2>3
  <1>14. WaitingIsQueued'
    <2>1. \A i \in ListItems(chain) \cup ListItems(freshQueue) : i \in Items /\ i \notin batch[w]
      BY <1>2, Lists DEF WaitingIsQueued
    <2>2. \A i \in ListItems(chain) \cup ListItems(freshQueue) : status'[i] = status[i]
      BY <1>4, <1>10, <2>1
    <2>3. \A v \in Workers : v # w => \A i \in ListItems(work[v]) : i \in Items /\ i \notin batch[w]
      BY <1>2, Lists DEF WaitingIsQueued
    <2>4. \A v \in Workers : v # w => \A i \in ListItems(work[v]) : status'[i] = status[i]
      BY <1>4, <1>10, <2>3
    <2>5. WaitingIsQueued
      BY <1>2
    <2>6. ASSUME NEW v \in Workers, NEW i \in ListItems(work'[v]) PROVE status'[i] = "queued"
      <3>1. v # w /\ i \in ListItems(work[v])
        BY <1>12
      <3> QED
        BY <2>4, <2>5, <3>1 DEF WaitingIsQueued
    <2>7. \A i \in ListItems(freshQueue') : status'[i] = "queued"
      BY <1>1, <2>2, <2>5 DEF WaitingIsQueued
    <2>8. \A i \in ListItems(chain') :
            status'[i] = "queued" \/ (closed' /\ status'[i] = "cancelled")
      BY <1>1, <2>2, <2>5 DEF WaitingIsQueued
    <2> QED
      BY ONLY <2>6, <2>7, <2>8 DEF WaitingIsQueued
  <1>15. QueuedWaits'
    <2> SUFFICES ASSUME pool # "refused", NEW i \in Items, status'[i] = "queued" PROVE Waits(i)'
      BY DEF QueuedWaits
    <2>1. status[i] = "queued" /\ i \notin taken
      BY <1>4
    <2>2. Waits(i)
      BY <2>1 DEF QueuedWaits
    <2> QED
      BY <1>1, <1>12, <2>1, <2>2 DEF Waits, taken
  <1>16. QueuesServed' /\ SpawnsHead'
    BY <1>1, <1>6, <1>7 DEF QueuesServed, SpawnsHead
  <1>17. BatchesRun'
    <2>1. \A v \in Workers : \A i \in batch[v] : i \in Items /\ status[i] = "running" /\ i \notin taken
      BY <1>2 DEF BatchesRun, PoolTypeOK
    <2>2. \A v \in Workers : v # w => \A i \in batch[v] : i \notin batch[w]
      BY DEF BatchesRun
    <2>3. \A v \in Workers : \A i \in batch'[v] : status'[i] = "running" /\ state'[v] = "running"
      BY <1>2, <1>4, <1>5, <1>6, <2>1, <2>2 DEF BatchesRun
    <2>4. \A u, v \in Workers : batch'[u] \cap batch'[v] # {} => u = v
      BY <1>5, <2>1 DEF BatchesRun
    <2>5. \A v \in Workers : state'[v] # "none" => status'[v] \notin {"new", "queued"}
      BY <1>3, <1>4, <1>6 DEF BatchesRun, Workers
    <2>6. \A v \in Workers : job'[v] # "none" => state'[v] = "running"
      BY <1>6, <1>8 DEF BatchesRun
    <2> QED
      BY <2>3, <2>4, <2>5, <2>6 DEF BatchesRun
  <1>18. OverIsEmpty'
    <2>1. closed => \A i \in Items : status'[i] # "queued"
      BY <1>4 DEF OverIsEmpty
    <2>2. closed => taken = {}
      BY <1>2 DEF OverIsEmpty
    <2>3. pool = "done" => closed /\ Drained(status')
      BY <1>4, <2>2 DEF OverIsEmpty, Drained
    <2> QED
      BY <1>9, <2>1, <2>3 DEF OverIsEmpty, Drained
  <1>19. PushedInOrder'
    BY <1>2, <1>4 DEF PushedInOrder
  <1>20. OverStays
    BY <1>2, <1>4 DEF OverStays, Over
  <1> QED
    BY <1>11, <1>13, <1>14, <1>15, <1>16, <1>17, <1>18, <1>19, <1>20

LEMMA TurnEndsSafe == ASSUME PoolIInv, NEW w \in Workers, TurnEnds(w) PROVE PoolIInv' /\ OverStays
  <1>1. ending' \in SUBSET Workers /\ ~due /\ job[w] # "none" /\ Notify
        /\ UNCHANGED <<settings, spawning, unreserved, others, pool, closed>>
    BY DEF TurnEnds, Quiet, settings
  <1> QED
    BY <1>1, FinishFreshSafe, FinishDeadSafe, FinishKeptSafe DEF TurnEnds

-----------------------------------------------------------------------------
(* Closing, cancelling and the manager's own steps. *)

LEMMA PoolSettlesSafe == ASSUME PoolIInv, PoolSettles PROVE PoolIInv' /\ OverStays
  <1> USE DEF PoolIInv
  <1>1. /\ due /\ due' = FALSE /\ pool' = "done" /\ closed' = TRUE
        /\ UNCHANGED <<freshAgents, ceiling, status, chain, spawning, freshQueue, unreserved, roster,
                       state, work, batch, cursor, job, ending, others>>
    BY DEF PoolSettles, settings, items, workers, jobs
  <1>2. Drained(status)
    BY <1>1 DEF OverIsEmpty
  <1>3. PoolTypeOK'
    BY <1>1 DEF PoolTypeOK
  <1>4. NoDuplicates' /\ Apart' /\ WaitingIsQueued' /\ QueuesServed' /\ SpawnsHead'
    BY <1>1 DEF NoDuplicates, Apart, WaitingIsQueued, QueuesServed, SpawnsHead
  <1>5. QueuedWaits' /\ OverIsEmpty'
    BY <1>1, <1>2 DEF QueuedWaits, OverIsEmpty, Drained
  <1>6. BatchesRun' /\ PushedInOrder' /\ OverStays
    BY <1>1 DEF BatchesRun, PushedInOrder, OverStays
  <1> QED
    BY <1>3, <1>4, <1>5, <1>6

(* What was queued is dropped; what runs goes on. *)
LEMMA DropSafe ==
  ASSUME PoolIInv, Drop, Notify, ~due, UNCHANGED <<ending, others>>,
         pool' \in {pool, "cancelled"}, pool' # "done" \/ pool' = pool,
         job' \in [Workers -> {"none", "running", "cancelled"}],
         \A w \in Workers : job'[w] # "none" => job[w] # "none"
  PROVE  PoolIInv' /\ OverStays
  <1> USE DEF PoolIInv
  <1>1. /\ closed' = TRUE /\ freshQueue' = <<>> /\ work' = [w \in Workers |-> <<>>]
        /\ status' = [i \in Items |-> IF status[i] = "queued" THEN "cancelled" ELSE status[i]]
        /\ UNCHANGED <<freshAgents, ceiling, chain, spawning, unreserved, roster, state, batch, cursor>>
    BY DEF Drop, settings
  <1>2. /\ \A i \in Items : status'[i] = IF status[i] = "queued" THEN "cancelled" ELSE status[i]
        /\ status' \in [Items -> {"new", "queued", "running"} \cup Over]
    BY <1>1 DEF PoolTypeOK, Over
  <1>3. /\ freshQueue' \in Seq(Items) /\ ListItems(freshQueue') = {} /\ Once(freshQueue')
        /\ work' \in [Workers -> Seq(Items)]
        /\ \A w \in Workers : work'[w] = <<>> /\ Once(work'[w]) /\ ListItems(work'[w]) = {}
    BY <1>1, EmptyList
  <1>4. due' \in BOOLEAN /\ (due' => Drained(status'))
    BY DEF Notify
  <1>5. pool' \in {"none", "refused", "waiting", "cancelled", "done"}
    BY DEF PoolTypeOK
  <1>6. PoolTypeOK'
    BY <1>1, <1>2, <1>3, <1>4, <1>5 DEF PoolTypeOK
  <1>7. NoDuplicates' /\ Apart'
    BY <1>1, <1>3 DEF NoDuplicates, Apart
  <1>8. WaitingIsQueued'
    BY <1>1, <1>2, <1>3, Lists DEF WaitingIsQueued
  <1>9. QueuedWaits' /\ QueuesServed' /\ SpawnsHead'
    BY <1>1, <1>2, <1>3 DEF QueuedWaits, QueuesServed, SpawnsHead
  <1>10. BatchesRun'
    <2>1. \A w \in Workers : \A i \in batch[w] : i \in Items
      BY DEF PoolTypeOK
    <2> QED
      BY <1>1, <1>2, <2>1 DEF BatchesRun, Workers
  <1>11. OverIsEmpty'
    BY <1>1, <1>2, <1>4 DEF OverIsEmpty, Drained
  <1>12. PushedInOrder' /\ OverStays
    BY <1>2 DEF PushedInOrder, OverStays, Over
  <1> QED
    BY <1>6, <1>7, <1>8, <1>9, <1>10, <1>11, <1>12

LEMMA CloseSafe == ASSUME PoolIInv, Close PROVE PoolIInv' /\ OverStays
  BY DropSafe DEF Close, CloseNotifies, Quiet, jobs, PoolIInv, PoolTypeOK

LEMMA CancelPoolSafe == ASSUME PoolIInv, CancelPool PROVE PoolIInv' /\ OverStays
  <1>1. /\ pool' = "cancelled" /\ Drop /\ Notify /\ ~due /\ UNCHANGED <<ending, others>>
        /\ job' = [w \in Workers |-> IF job[w] = "running" THEN "cancelled" ELSE job[w]]
    BY DEF CancelPool, CloseNotifies, Quiet
  <1>2. /\ job' \in [Workers -> {"none", "running", "cancelled"}]
        /\ \A w \in Workers : job'[w] # "none" => job[w] # "none"
    BY <1>1 DEF PoolIInv, PoolTypeOK
  <1> QED
    BY <1>1, <1>2, DropSafe

(* The manager's jobs and the setting change, and no item. *)
LEMMA ElsewhereSafe ==
  ASSUME PoolIInv, UNCHANGED <<freshAgents, items, workers, aggregate>>,
         ceiling' \in Ceilings, others' \in 0..MaxOthers, ending' \in SUBSET Workers,
         job' \in [Workers -> {"none", "running", "cancelled"}],
         \A w \in Workers : job'[w] # "none" => job[w] # "none"
  PROVE  PoolIInv' /\ OverStays
  <1> USE DEF PoolIInv
  <1>1. UNCHANGED <<freshAgents, status, chain, spawning, freshQueue, unreserved, roster,
                    state, work, batch, cursor, pool, due, closed>>
    BY DEF items, workers, aggregate
  <1>2. PoolTypeOK'
    BY <1>1 DEF PoolTypeOK
  <1>3. NoDuplicates' /\ Apart' /\ WaitingIsQueued' /\ QueuesServed' /\ SpawnsHead'
    BY <1>1 DEF NoDuplicates, Apart, WaitingIsQueued, QueuesServed, SpawnsHead
  <1>4. QueuedWaits' /\ OverIsEmpty' /\ PushedInOrder' /\ OverStays
    BY <1>1 DEF QueuedWaits, Waits, OverIsEmpty, Drained, PushedInOrder, OverStays
  <1>5. BatchesRun'
    BY <1>1 DEF BatchesRun
  <1> QED
    BY <1>2, <1>3, <1>4, <1>5

-----------------------------------------------------------------------------
LEMMA PoolStart == PoolInit => PoolIInv
  <1> SUFFICES ASSUME PoolInit PROVE PoolIInv
    OBVIOUS
  <1>1. 0 \in 0..MaxOthers /\ 0 \in 0..MaxItems
    BY PoolAssumption
  <1>2. /\ status \in [Items -> {"new", "queued", "running"} \cup Over]
        /\ \A i \in Items : status[i] = "new" /\ 0 < i
    BY DEF PoolInit, Items
  <1>3. /\ \A w \in Workers : state[w] = "none" /\ work[w] = <<>> /\ batch[w] = {} /\ job[w] = "none"
        /\ state \in [Workers -> {"none", "idle", "running"}]
        /\ work \in [Workers -> Seq(Items)] /\ batch \in [Workers -> SUBSET Items]
        /\ job \in [Workers -> {"none", "running", "cancelled"}]
    BY DEF PoolInit
  <1>4. chain = <<>> /\ freshQueue = <<>> /\ roster = <<>> /\ cursor = 0 /\ others = 0 /\ ending = {}
    BY DEF PoolInit
  <1>5. /\ freshAgents \in BOOLEAN /\ closed \in BOOLEAN /\ due \in BOOLEAN /\ spawning \in BOOLEAN
        /\ unreserved \in BOOLEAN /\ ceiling \in Ceilings
        /\ pool = "none" /\ ~closed /\ ~due /\ ~spawning
    BY DEF PoolInit
  <1>6. PoolTypeOK
    <2>1. \E n \in Ceilings : n = 0 \/ Len(roster) <= n
      BY <1>4, <1>5, PoolAssumption
    <2> QED
      BY <1>1, <1>2, <1>3, <1>4, <1>5, <2>1, EmptyList DEF PoolTypeOK
  <1>7. NoDuplicates /\ Apart /\ WaitingIsQueued /\ QueuedWaits /\ QueuesServed
    BY <1>2, <1>3, <1>4, EmptyList DEF NoDuplicates, Apart, WaitingIsQueued, QueuedWaits, QueuesServed
  <1>8. SpawnsHead /\ BatchesRun /\ OverIsEmpty
    BY <1>2, <1>3, <1>5 DEF SpawnsHead, BatchesRun, OverIsEmpty
  <1>9. PushedInOrder
    BY <1>1, <1>2 DEF PushedInOrder
  <1> QED
    BY <1>6, <1>7, <1>8, <1>9 DEF PoolIInv

(* Every step a pool takes. *)
PoolNext ==
    \/ PoolStep \/ CancelPool \/ PoolContinues
    \/ \E w \in Workers : CancelBatch(w) \/ TurnEnds(w)

LEMMA PoolStepSafe == ASSUME PoolIInv, [PoolNext]_poolVars PROVE PoolIInv' /\ OverStays
  <1>1. ASSUME NEW n \in 1..MaxItems, Push(n) PROVE PoolIInv' /\ OverStays
    BY <1>1, PushSafe
  <1>2. CASE Reserved \/ ReserveFails \/ Close \/ CancelPool \/ Dispatch \/ PoolSettles
    BY <1>2, ReservedSafe, ReserveFailsSafe, CloseSafe, CancelPoolSafe, DispatchSafe, PoolSettlesSafe
  <1>3. CASE Elsewhere
    <2>1. others' \in 0..MaxOthers /\ UNCHANGED <<settings, items, workers, job, ending, aggregate>>
      BY <1>3, PoolAssumption DEF Elsewhere, PoolIInv, PoolTypeOK
    <2> QED
      BY <2>1, ElsewhereSafe DEF settings, PoolIInv, PoolTypeOK
  <1>4. CASE Reconfigure
    BY <1>4, ElsewhereSafe DEF Reconfigure, jobs, PoolIInv, PoolTypeOK
  <1>5. ASSUME NEW w \in Workers, JobSettles(w) PROVE PoolIInv' /\ OverStays
    BY <1>5, ElsewhereSafe DEF JobSettles, settings, PoolIInv, PoolTypeOK
  <1>6. ASSUME NEW w \in Workers, CancelBatch(w) PROVE PoolIInv' /\ OverStays
    <2>1. /\ job' \in [Workers -> {"none", "running", "cancelled"}]
          /\ \A v \in Workers : job'[v] # "none" => job[v] # "none"
      BY <1>6 DEF CancelBatch, PoolIInv, PoolTypeOK
    <2> QED
      BY <1>6, <2>1, ElsewhereSafe DEF CancelBatch, settings, PoolIInv, PoolTypeOK
  <1>7. ASSUME NEW w \in Workers, TurnEnds(w) PROVE PoolIInv' /\ OverStays
    BY <1>7, TurnEndsSafe
  <1>8. CASE UNCHANGED poolVars
    BY <1>8, ElsewhereSafe DEF poolVars, settings, jobs, PoolIInv, PoolTypeOK
  <1> QED
    BY <1>1, <1>2, <1>3, <1>4, <1>5, <1>6, <1>7, <1>8 DEF PoolNext, PoolStep, PoolContinues

(* What the invariant says, as the runs check it. *)
LEMMA WaitsOnce == PoolIInv => QueuedOnce
  <1> USE DEF PoolIInv
  <1> SUFFICES ASSUME PoolIInv, pool # "refused", NEW i \in Items, status[i] = "queued"
               PROVE  /\ Cardinality(Places(i)) = 1
                      /\ i \in ListItems(freshQueue) => roster # <<>> \/ chain # <<>> \/ unreserved
    BY DEF QueuedOnce
  <1>1. i \in ListItems(freshQueue) => roster # <<>> \/ chain # <<>> \/ unreserved
    BY Lists DEF QueuesServed
  <1>2. /\ Once(chain) /\ Once(freshQueue)
        /\ \A w \in Workers : i \in ListItems(work[w]) => state[w] = "running"
    BY Lists DEF NoDuplicates, QueuesServed
  <1> DEFINE C == {k \in 1..Len(chain) : chain[k] = i}
             F == {k \in 1..Len(freshQueue) : freshQueue[k] = i}
             W == {w \in Workers : i \in ListItems(work[w]) /\ state[w] = "running"}
  <1>3. Places(i) = {<<"chain", k>> : k \in C} \cup {<<"fresh", k>> : k \in F}
                    \cup {<<"worker", w>> : w \in W}
    BY Zenon DEF Places
  <1>4. \/ \E k : C = {k} /\ F = {} /\ W = {}
        \/ \E k : C = {} /\ F = {k} /\ W = {}
        \/ \E w : C = {} /\ F = {} /\ W = {w}
    <2>1. CASE i \in ListItems(chain)
      <3>1. PICK k \in 1..Len(chain) : chain[k] = i
        BY <2>1 DEF ListItems
      <3>2. C = {k}
        BY <1>2, <3>1 DEF Once
      <3>3. F = {} /\ W = {}
        BY <2>1 DEF Apart, ListItems
      <3> QED
        BY <3>2, <3>3
    <2>2. CASE i \in ListItems(freshQueue)
      <3>1. PICK k \in 1..Len(freshQueue) : freshQueue[k] = i
        BY <2>2 DEF ListItems
      <3>2. F = {k}
        BY <1>2, <3>1 DEF Once
      <3>3. C = {} /\ W = {}
        BY <2>2 DEF Apart, ListItems
      <3> QED
        BY <3>2, <3>3
    <2>3. ASSUME NEW w \in Workers, i \in ListItems(work[w])
          PROVE  C = {} /\ F = {} /\ W = {w}
      <3>1. W = {w}
        BY <1>2, <2>3 DEF Apart
      <3>2. C = {} /\ F = {}
        BY <2>3 DEF Apart, ListItems
      <3> QED
        BY <3>1, <3>2
    <2>4. Waits(i)
      BY DEF QueuedWaits
    <2> QED
      BY <2>1, <2>2, <2>3, <2>4 DEF Waits
  <1> HIDE DEF C, F, W
  <1>5. \E spot : Places(i) = {spot}
    <2>1. ASSUME NEW k, C = {k}, F = {}, W = {} PROVE Places(i) = {<<"chain", k>>}
      BY <1>3, <2>1
    <2>2. ASSUME NEW k, C = {}, F = {k}, W = {} PROVE Places(i) = {<<"fresh", k>>}
      BY <1>3, <2>2
    <2>3. ASSUME NEW w, C = {}, F = {}, W = {w} PROVE Places(i) = {<<"worker", w>>}
      BY <1>3, <2>3
    <2> QED
      BY <1>4, <2>1, <2>2, <2>3
  <1> QED
    BY <1>1, <1>5, FS_Singleton

LEMMA SettlesDrained == PoolIInv => DrainIsFull
  BY DEF PoolIInv, DrainIsFull, OverIsEmpty, Drained, PoolTypeOK

-----------------------------------------------------------------------------
(* The composition. *)

(* Each step of the composition is a step of the slots or leaves them. *)
LEMMA StepUsesSlots == [Next]_pooled => [SlotsNext]_slots
  <1> SUFFICES ASSUME [Next]_pooled PROVE [SlotsNext]_slots
    OBVIOUS
  <1>1. CASE Continues
    BY <1>1, PooledAssumption DEF Continues, Doomed, SlotsNext
  <1>2. CASE PoolEvent
    BY <1>2 DEF PoolEvent
  <1>3. ASSUME NEW w \in Workers, Request(w) \/ Answered(w) \/ Finish(w)
        PROVE  [SlotsNext]_slots
    BY <1>3, PooledAssumption DEF Request, Answered, Finish, SlotsNext
  <1>4. ASSUME NEW limit \in Limits, Setting(limit) PROVE [SlotsNext]_slots
    BY <1>4 DEF Setting, SlotsNext
  <1>5. CASE UNCHANGED pooled
    BY <1>5 DEF pooled
  <1> QED
    BY <1>1, <1>2, <1>3, <1>4, <1>5 DEF Next

(* The composition implements the slots. *)
THEOREM UsesSlots == Spec => SlotsSpec
  <1>1. Init => SlotsInit
    BY DEF Init
  <1> QED
    BY <1>1, StepUsesSlots, PTL DEF Spec, SlotsSpec

(* No closing, cancellation or failing worker of a pool leaks a slot. *)
THEOREM PooledSlotsCorrect == Spec => []SlotsSafe
  BY UsesSlots, SlotsCorrect, PTL

-----------------------------------------------------------------------------
(* Each step of the composition is a step of the pool or leaves it. *)
LEMMA StepOfPool == [Next]_pooled => [PoolNext]_poolVars
  <1> SUFFICES ASSUME [Next]_pooled PROVE [PoolNext]_poolVars
    OBVIOUS
  <1>1. CASE Continues
    BY <1>1 DEF Continues, PoolNext
  <1>2. CASE PoolEvent
    BY <1>2 DEF PoolEvent, PoolNext
  <1>3. ASSUME NEW w \in Workers, Request(w) \/ Answered(w) \/ Finish(w)
        PROVE  [PoolNext]_poolVars
    BY <1>3 DEF Request, Answered, Finish, PoolNext
  <1>4. ASSUME NEW limit \in Limits, Setting(limit) PROVE [PoolNext]_poolVars
    BY <1>4 DEF Setting
  <1>5. CASE UNCHANGED pooled
    BY <1>5 DEF pooled
  <1> QED
    BY <1>1, <1>2, <1>3, <1>4, <1>5 DEF Next

(* The invariant of the pool: where each item is, and who runs it. *)
THEOREM PoolInvariant == Spec => []PoolIInv
  <1>1. Init => PoolIInv
    BY PoolStart DEF Init
  <1>2. PoolIInv /\ [Next]_pooled => PoolIInv'
    BY StepOfPool, PoolStepSafe
  <1> QED
    BY <1>1, <1>2, PTL DEF Spec

(* A pool settles only when nothing is queued or in a turn. *)
THEOREM PoolCorrect == Spec => []PoolInv
  <1>1. PoolIInv /\ SlotsInv => PoolInv
    BY SettlesDrained DEF PoolInv, TypeOK, PoolIInv, SlotsInv
  <1> QED
    BY <1>1, PoolInvariant, UsesSlots, SlotsInvariant, PTL

(* No item of a pool is lost or run twice, whatever worker dies: it waits  *)
(* in one place, from which a later step takes it.                         *)
THEOREM QueuedOnceCorrect == Spec => []QueuedOnce
  BY PoolInvariant, WaitsOnce, PTL

(* What is over, or was dropped by a close, never runs again. *)
THEOREM OverIsFinalCorrect == Spec => OverIsFinal
  <1>1. PoolIInv /\ [Next]_pooled => [\A i \in Items : status[i] \in Over => status'[i] = status[i]]_poolVars
    BY StepOfPool, PoolStepSafe DEF OverStays
  <1> QED
    BY <1>1, PoolInvariant, PTL DEF Spec, OverIsFinal
=============================================================================
