--------------------------- MODULE ProviderSlots ---------------------------
(***************************************************************************)
(* The concurrency cap of one provider: the resizable Semaphore of         *)
(* task/parallel.ts, held around each model request by                     *)
(* task/provider-concurrency.ts and released when its stream has ended.    *)
(*                                                                         *)
(* A caller is a coroutine that makes one request at a time.  Zero stands  *)
(* for no limit, as normalizeConcurrencyLimit makes of every setting that  *)
(* is not positive.                                                        *)
(***************************************************************************)
EXTENDS Naturals, Sequences, FiniteSets

CONSTANTS
    Callers, \* coroutines that make requests
    Limits   \* the values the setting takes

ASSUME SlotsAssumption == IsFiniteSet(Callers) /\ Limits \subseteq Nat

VARIABLES
    max,     \* #max
    current, \* #current
    queue,   \* #queue: the callers whose acquire is pending, in order
    request  \* what each caller is doing

slots == <<max, current, queue, request>>

SlotsInit ==
    /\ max \in Limits /\ current = 0 /\ queue = <<>>
    /\ request = [c \in Callers |-> "none"]

-----------------------------------------------------------------------------
(* this.#current < this.#max *)
Room(n, limit) == limit = 0 \/ n < limit

(* The queue without its i-th waiter. *)
Without(i) == [j \in 1..(Len(queue) - 1) |-> IF j < i THEN queue[j] ELSE queue[j + 1]]

(* acquire: a slot at once, or a place in the queue. *)
Acquire(c) ==
    /\ request[c] = "none"
    /\ IF Room(current, max)
       THEN /\ current' = current + 1
            /\ request' = [request EXCEPT ![c] = "stream"]
            /\ UNCHANGED queue
       ELSE /\ queue' = Append(queue, c)
            /\ request' = [request EXCEPT ![c] = "wait"]
            /\ UNCHANGED current
    /\ UNCHANGED max

Splice_Never(i) == queue
(* onAbort: the waiter leaves the queue. *)
Splice(i) == Without(i)

(* A caller gives up while it waits. *)
Abort(c) ==
    \E i \in 1..Len(queue) :
        /\ queue[i] = c
        /\ queue' = Splice(i)
        /\ request' = [request EXCEPT ![c] = "none"]
        /\ UNCHANGED <<max, current>>

(* The slots in use after one was given back. *)
Freed == IF current > 0 THEN current - 1 ELSE 0

(* The stream has ended: release, which admits one waiter that fits.       *)
Release(c) ==
    /\ request[c] = "stream"
    /\ IF Room(Freed, max) /\ queue # <<>>
       THEN /\ current' = Freed + 1 /\ queue' = Tail(queue)
            /\ request' = [request EXCEPT ![c] = "none", ![Head(queue)] = "stream"]
       ELSE /\ current' = Freed
            /\ request' = [request EXCEPT ![c] = "none"]
            /\ UNCHANGED queue
    /\ UNCHANGED max

(* How many waiters the loop of resize admits under a new limit.           *)
Admitted(limit) ==
    IF limit = 0 \/ current + Len(queue) <= limit THEN Len(queue)
    ELSE IF current < limit THEN limit - current ELSE 0

(* resize: waiters that now fit are admitted, holders are left to drain.   *)
Resize(limit) ==
    LET n == Admitted(limit) IN
    /\ limit # max /\ max' = limit
    /\ current' = current + n
    /\ queue' = SubSeq(queue, n + 1, Len(queue))
    /\ request' = [c \in Callers |->
                     IF \E i \in 1..n : queue[i] = c THEN "stream" ELSE request[c]]

SlotsNext ==
    \/ \E c \in Callers : Acquire(c) \/ Abort(c) \/ Release(c)
    \/ \E limit \in Limits : Resize(limit)

SlotsSpec == SlotsInit /\ [][SlotsNext]_slots

-----------------------------------------------------------------------------
Holders == {c \in Callers : request[c] = "stream"}

SlotsTypeOK ==
    /\ max \in Limits /\ current \in Nat /\ queue \in Seq(Callers)
    /\ request \in [Callers -> {"none", "wait", "stream"}]

(* The counter is the number of requests in progress: no abort, resize or  *)
(* release ever leaks a slot or invents one.                               *)
SlotsCounted == current = Cardinality(Holders)

(* The queue holds each waiting caller once and nobody else: a slot is     *)
(* never handed to a caller that gave up.                                  *)
QueueIsWaiters ==
    /\ \A i \in 1..Len(queue) : request[queue[i]] = "wait"
    /\ \A i, j \in 1..Len(queue) : queue[i] = queue[j] => i = j
    /\ \A c \in Callers : request[c] = "wait" => \E i \in 1..Len(queue) : queue[i] = c

(* Nobody waits while a slot is free. *)
NoIdleSlot == queue = <<>> \/ ~Room(current, max)

(* A slot is never leaked, invented, handed to a caller that gave up, or   *)
(* left free while somebody waits: whatever aborts, ends or resizes.       *)
SlotsSafe == SlotsCounted /\ QueueIsWaiters /\ NoIdleSlot

(* No step takes the number of requests past the cap: they exceed it only  *)
(* while those begun under an earlier, higher limit drain.                 *)
CapRespected == [][current' > current => max' = 0 \/ current' <= max']_slots
=============================================================================
