------------------------------ MODULE WorkPool ------------------------------
(***************************************************************************)
(* One work pool: task/workpool.ts, with the part of the job manager it    *)
(* calls (async/job-manager.ts).                                           *)
(*                                                                         *)
(* Items are pushed, dispatched one after the other to an idle worker, a   *)
(* new one or a busy one, and run in batches, each a background job of its *)
(* own; an aggregate job waits for the pool to drain.  A worker is named   *)
(* by the item it was spawned for: an item that spawns one is running from *)
(* then on and never spawns another.                                       *)
(*                                                                         *)
(* Continuations of promises run before the next event: an event (a push,  *)
(* a cancellation, the end of a turn) waits until no continuation is due.  *)
(***************************************************************************)
EXTENDS Naturals, Sequences, FiniteSets

CONSTANTS
    MaxItems,   \* items are pushed in the order 1, 2, ... up to this bound
    Ceilings,   \* the values task.maxConcurrency takes, 0 for no limit
    MaxJobs,    \* the manager's limit on running jobs
    MaxOthers   \* bound on running jobs that are not the pool's

ASSUME PoolAssumption ==
    MaxItems \in Nat /\ Ceilings \subseteq Nat /\ MaxJobs \in Nat /\ MaxOthers \in Nat

Items == 1..MaxItems
Workers == Items
(* A turn gives its items one outcome, whichever of the three statuses it  *)
(* is: nothing in the pool depends on it.                                  *)
Over == {"settled", "failed", "cancelled"}

VARIABLES
    freshAgents, \* whether every item gets a worker of its own
    ceiling,     \* task.maxConcurrency now
    closed,      \* closed
    status,      \* status of each item, "new" before it is pushed
    chain,       \* items whose dispatch is chained, the head in progress
    spawning,    \* whether the head awaits the reservation of a worker's id
    freshQueue,  \* #freshQueue
    roster,      \* agents, in order
    state,       \* state of each worker, "none" while it is not in the roster
    work,        \* queue of each worker
    batch,       \* the items of the turn a worker is in, or was refused
    cursor,      \* rrCursor
    job,         \* job of each worker: "none", "running" or "cancelled"
    ending,      \* workers with a job whose run is over but not yet its status
    others,      \* running jobs that are not the pool's
    pool,        \* the aggregate job
    due,         \* whether the drain waiter has been resolved
    unreserved   \* ghost: the reservation of a worker's id has failed

settings == <<freshAgents, ceiling>>
items == <<status, chain, spawning, freshQueue, unreserved>>
workers == <<roster, state, work, batch, cursor>>
jobs == <<job, ending, others>>
aggregate == <<pool, due, closed>>
poolVars == <<settings, items, workers, jobs, aggregate>>

PoolInit ==
    /\ freshAgents \in BOOLEAN /\ ceiling \in Ceilings /\ closed = FALSE
    /\ status = [i \in Items |-> "new"]
    /\ chain = <<>> /\ spawning = FALSE /\ freshQueue = <<>> /\ unreserved = FALSE
    /\ roster = <<>> /\ cursor = 0
    /\ state = [w \in Workers |-> "none"]
    /\ work = [w \in Workers |-> <<>>] /\ batch = [w \in Workers |-> {}]
    /\ job = [w \in Workers |-> "none"] /\ ending = {} /\ others = 0
    /\ pool = "none" /\ due = FALSE

-----------------------------------------------------------------------------
(* No continuation is due: the next event may be handled. *)
Quiet == ending = {} /\ ~due /\ (chain = <<>> \/ spawning)

(* Jobs the manager counts against its limit: a cancelled one no longer,   *)
(* the queued aggregate never, one whose run has just returned still.      *)
Active == others + Cardinality({w \in Workers : job[w] = "running"}) + Cardinality(ending)

(* register throws at the limit, the same for a queued job. *)
MayRegister == Active < MaxJobs

Drained_NoRunning(st) == \A i \in Items : st[i] # "queued"
Drained(st) == \A i \in Items : st[i] \notin {"queued", "running"}

(* notifyDrained: the aggregate job waits for the first full drain.        *)
Notify == due' = (due \/ (pool \in {"waiting", "cancelled"} /\ Drained(status')))

ListItems(s) == {s[k] : k \in 1..Len(s)}

(* push: the items are queued, then the aggregate job is ensured, then     *)
(* they are dispatched; when the job is refused nothing is dispatched, and *)
(* the flag that it was started stays set.                                 *)
Push(n) ==
    LET first == Cardinality({i \in Items : status[i] # "new"}) + 1
        pushed == first..(first + n - 1)
    IN
    /\ Quiet /\ ~closed /\ pushed \subseteq Items
    /\ status' = [i \in Items |-> IF i \in pushed THEN "queued" ELSE status[i]]
    /\ pool' = IF pool # "none" THEN pool ELSE IF MayRegister THEN "waiting" ELSE "refused"
    /\ chain' = IF pool = "none" /\ ~MayRegister THEN chain
                ELSE chain \o [k \in 1..n |-> first + k - 1]
    /\ UNCHANGED <<settings, spawning, freshQueue, unreserved, workers, jobs, due, closed>>

(* drain and startTurn: all the worker's items become one batch and one    *)
(* job.  register throws after they were marked running.                   *)
StartTurn(w, taken) ==
    /\ status' = [i \in Items |-> IF i \in taken THEN "running" ELSE status[i]]
    /\ batch' = [batch EXCEPT ![w] = taken]
    /\ state' = [state EXCEPT ![w] = "running"]
    /\ job' = [job EXCEPT ![w] = IF MayRegister THEN "running" ELSE "none"]

Idle == {w \in Workers : state[w] = "idle"}
(* limit(), read anew for each dispatch *)
Capacity == ceiling = 0 \/ Len(roster) < ceiling

(* nextBusy: the first running worker at or after the cursor. *)
Slot(offset) == (cursor + offset) % Len(roster)
BusyAt(offset) == state[roster[Slot(offset) + 1]] = "running"
Busy == {o \in 0..(Len(roster) - 1) : BusyAt(o) /\ \A p \in 0..(o - 1) : ~BusyAt(p)}

(* dispatch, the item at the head of the chain.                            *)
Skip ==
    /\ closed \/ status[Head(chain)] # "queued"
    /\ chain' = Tail(chain)
    /\ UNCHANGED <<status, spawning, freshQueue, workers, jobs>>

Postpone ==
    /\ freshAgents /\ ~Capacity
    /\ chain' = Tail(chain) /\ freshQueue' = Append(freshQueue, Head(chain))
    /\ UNCHANGED <<status, spawning, workers, jobs>>

Reserve ==
    /\ Capacity \/ (~freshAgents /\ \A w \in Workers : state[w] # "running")
    /\ ~freshAgents => Idle = {}
    /\ spawning' = TRUE
    /\ UNCHANGED <<status, chain, freshQueue, workers, jobs>>

Assign ==
    /\ ~freshAgents
    /\ \E w \in Idle : StartTurn(w, {Head(chain)})
    /\ chain' = Tail(chain)
    /\ UNCHANGED <<spawning, freshQueue, roster, work, cursor, ending, others>>

Enqueue ==
    /\ ~freshAgents /\ Idle = {} /\ ~Capacity
    /\ \E o \in Busy :
         /\ work' = [work EXCEPT ![roster[Slot(o) + 1]] = Append(@, Head(chain))]
         /\ cursor' = (Slot(o) + 1) % Len(roster)
    /\ chain' = Tail(chain)
    /\ UNCHANGED <<status, spawning, freshQueue, roster, state, batch, jobs>>

Dispatch ==
    /\ chain # <<>> /\ ~spawning
    /\ \/ Skip
       \/ /\ ~closed /\ status[Head(chain)] = "queued"
          /\ Postpone \/ Reserve \/ Assign \/ Enqueue
    /\ UNCHANGED <<settings, unreserved, aggregate>>

StillWanted_Unchecked(i) == TRUE
(* spawn, after the reservation: this.closed || item.status !== "queued" *)
StillWanted(i) == ~closed /\ status[i] = "queued"

(* spawn: the id was reserved; the worker joins unless the item was dropped. *)
Reserved ==
    LET i == Head(chain) IN
    /\ spawning /\ ending = {} /\ ~due
    /\ spawning' = FALSE /\ chain' = Tail(chain)
    /\ IF StillWanted(i)
       THEN /\ roster' = Append(roster, i)
            /\ StartTurn(i, {i})
       ELSE UNCHANGED <<status, roster, state, batch, job>>
    /\ UNCHANGED <<settings, freshQueue, unreserved, work, cursor, ending, others, aggregate>>

(* The reservation failed: so does the item, if it is still queued. *)
ReserveFails ==
    LET i == Head(chain) IN
    /\ spawning /\ ending = {} /\ ~due
    /\ spawning' = FALSE /\ chain' = Tail(chain)
    /\ status' = [status EXCEPT ![i] = IF @ = "queued" THEN "failed" ELSE @]
    /\ unreserved' = TRUE /\ Notify
    /\ UNCHANGED <<settings, freshQueue, workers, jobs, pool, closed>>

-----------------------------------------------------------------------------
(* The item finishTurn takes from the queue of a pool with fresh agents.   *)
NextFresh == IF freshQueue = <<>> THEN <<>> ELSE <<Head(freshQueue)>>

(* The items of the turn get its outcome. *)
Settled(w) == [i \in Items |-> IF i \in batch[w] THEN "settled" ELSE status[i]]

(* The roster without a dead worker, spliced out at its index. *)
Dismissed(w) ==
    LET at == CHOOSE k \in 1..Len(roster) : roster[k] = w
    IN  [k \in 1..(Len(roster) - 1) |-> IF k < at THEN roster[k] ELSE roster[k + 1]]

(* A worker leaves the roster and `again` is chained for dispatch. *)
Leave(w, again) ==
    /\ status' = Settled(w) /\ chain' = chain \o again
    /\ roster' = Dismissed(w) /\ state' = [state EXCEPT ![w] = "none"]
    /\ work' = [work EXCEPT ![w] = <<>>] /\ batch' = [batch EXCEPT ![w] = {}]
    /\ job' = [job EXCEPT ![w] = "none"]

(* finishTurn with fresh agents: the worker leaves, one item takes its room. *)
FinishFresh(w) ==
    /\ freshAgents
    /\ Leave(w, NextFresh)
    /\ freshQueue' = IF freshQueue = <<>> THEN <<>> ELSE Tail(freshQueue)
    /\ UNCHANGED cursor

Stranded_Lost(w) == <<>>
(* What a dead worker had queued. *)
Stranded(w) == work[w]

(* finishTurn of a worker that is gone: what it had queued is dispatched.  *)
FinishDead(w) ==
    /\ ~freshAgents
    /\ Leave(w, Stranded(w))
    /\ UNCHANGED <<freshQueue, cursor>>

(* finishTurn of a worker that is idle or parked: it takes what it has     *)
(* queued as its next batch.  Its own job still counts when the next is    *)
(* registered.                                                             *)
FinishKept(w) ==
    LET taken == ListItems(work[w]) IN
    /\ ~freshAgents
    /\ status' = [i \in Items |-> IF i \in taken THEN "running" ELSE Settled(w)[i]]
    /\ batch' = [batch EXCEPT ![w] = taken]
    /\ state' = [state EXCEPT ![w] = IF taken = {} THEN "idle" ELSE "running"]
    /\ work' = [work EXCEPT ![w] = <<>>]
    /\ job' = [job EXCEPT ![w] = IF taken # {} /\ MayRegister THEN "running" ELSE "none"]
    /\ UNCHANGED <<chain, freshQueue, roster, cursor>>

(* settleTurn: a turn is over; a cancelled one may have completed already. *)
TurnEnds(w) ==
    /\ Quiet /\ job[w] # "none"
    /\ FinishFresh(w) \/ FinishDead(w) \/ FinishKept(w)
    /\ ending' = IF job[w] = "running" THEN {w} ELSE {}
    /\ Notify
    /\ UNCHANGED <<settings, spawning, unreserved, others, pool, closed>>

(* The manager's own continuation sets the status of the job. *)
JobSettles(w) ==
    /\ w \in ending /\ ending' = ending \ {w}
    /\ UNCHANGED <<settings, items, workers, job, others, aggregate>>

(* The aggregate job, after the drain: it waits for the promises of the    *)
(* batches, of which at most one has not settled, and closes the pool.     *)
PoolSettles ==
    /\ due /\ ending = {}
    /\ due' = FALSE /\ pool' = "done" /\ closed' = TRUE
    /\ UNCHANGED <<settings, items, workers, jobs>>

-----------------------------------------------------------------------------
(* close: everything not yet in a turn is dropped.                         *)
Drop ==
    /\ closed' = TRUE
    /\ status' = [i \in Items |-> IF status[i] = "queued" THEN "cancelled" ELSE status[i]]
    /\ work' = [w \in Workers |-> <<>>] /\ freshQueue' = <<>>
    /\ UNCHANGED <<settings, chain, spawning, unreserved, roster, state, batch, cursor>>

CloseNotifies_Never == UNCHANGED due
CloseNotifies == Notify

(* The pool is closed by its kernel or by the end of its owner's session.  *)
Close ==
    /\ Quiet /\ Drop /\ CloseNotifies
    /\ UNCHANGED <<jobs, pool>>

(* The aggregate job is cancelled: its listener closes the pool and        *)
(* cancels every batch.                                                    *)
CancelPool ==
    /\ Quiet /\ pool = "waiting" /\ pool' = "cancelled"
    /\ Drop /\ CloseNotifies
    /\ job' = [w \in Workers |-> IF job[w] = "running" THEN "cancelled" ELSE job[w]]
    /\ UNCHANGED <<ending, others>>

(* One batch is cancelled by its own id.                                   *)
CancelBatch(w) ==
    /\ Quiet /\ job[w] = "running"
    /\ job' = [job EXCEPT ![w] = "cancelled"]
    /\ UNCHANGED <<settings, items, workers, ending, others, aggregate>>

(* Jobs of the rest of the session come and go.                            *)
Elsewhere ==
    /\ Quiet
    /\ \/ MayRegister /\ others < MaxOthers /\ others' = others + 1
       \/ others > 0 /\ others' = others - 1
    /\ UNCHANGED <<settings, items, workers, job, ending, aggregate>>

(* The user changes task.maxConcurrency. *)
Reconfigure ==
    /\ Quiet /\ \E n \in Ceilings \ {ceiling} : ceiling' = n
    /\ UNCHANGED <<freshAgents, items, workers, jobs, aggregate>>

(* Steps that cancel no turn and end none. *)
PoolStep ==
    \/ \E n \in 1..MaxItems : Push(n)
    \/ Reserved \/ ReserveFails \/ Close \/ Elsewhere \/ Reconfigure

(* Continuations. *)
PoolContinues == Dispatch \/ PoolSettles \/ \E w \in Workers : JobSettles(w)

-----------------------------------------------------------------------------
(* The types, a state for the workers of the roster and no other, and      *)
(* never more of them than task.maxConcurrency has been.                   *)
PoolTypeOK ==
    /\ freshAgents \in BOOLEAN /\ closed \in BOOLEAN /\ due \in BOOLEAN /\ spawning \in BOOLEAN
    /\ status \in [Items -> {"new", "queued", "running"} \cup Over]
    /\ chain \in Seq(Items) /\ freshQueue \in Seq(Items) /\ roster \in Seq(Workers)
    /\ state \in [Workers -> {"none", "idle", "running"}]
    /\ work \in [Workers -> Seq(Items)] /\ batch \in [Workers -> SUBSET Items]
    /\ cursor \in Nat /\ others \in 0..MaxOthers /\ ending \subseteq Workers
    /\ job \in [Workers -> {"none", "running", "cancelled"}]
    /\ pool \in {"none", "refused", "waiting", "cancelled", "done"}
    /\ \A w \in Workers : state[w] # "none" <=> w \in ListItems(roster)
    /\ ceiling \in Ceilings /\ unreserved \in BOOLEAN
    /\ \E n \in Ceilings : n = 0 \/ Len(roster) <= n

(* Where an item waits: in the chain, in the queue for fresh agents or in  *)
(* the queue of a worker that is in a turn.                                *)
Places(i) ==
    {<<"chain", k>> : k \in {k \in 1..Len(chain) : chain[k] = i}}
    \cup {<<"fresh", k>> : k \in {k \in 1..Len(freshQueue) : freshQueue[k] = i}}
    \cup {<<"worker", w>> : w \in {w \in Workers : i \in ListItems(work[w]) /\ state[w] = "running"}}

(* A queued item waits in exactly one place from which a later step takes  *)
(* it, whatever worker dies, and with fresh agents only while a worker is  *)
(* there to free it, unless a reservation has failed: no item is lost or   *)
(* run twice.  The items of a push whose aggregate job was refused are     *)
(* nowhere.                                                                *)
QueuedOnce ==
    pool # "refused" => \A i \in Items : status[i] = "queued" =>
        /\ Cardinality(Places(i)) = 1
        /\ i \in ListItems(freshQueue) => roster # <<>> \/ chain # <<>> \/ unreserved

(* A pool settles only when nothing is queued or in a turn.                *)
DrainIsFull ==
    pool = "done" => closed /\ \A i \in Items : status[i] \in {"new"} \cup Over

(* An item that was dropped, or is over, never runs: not even when its     *)
(* worker's id was being reserved while the pool was closed.               *)
OverIsFinal == [][\A i \in Items : status[i] \in Over => status'[i] = status[i]]_poolVars

(* A worker that is running has a job that will end.                       *)
RunningHasJob == \A w \in Workers : state[w] = "running" => job[w] # "none"

(* Items that wait for fresh agents have a worker to free them, or an item *)
(* before them that is about to get one.                                   *)
FreshAreServed == freshQueue # <<>> => roster # <<>> \/ chain # <<>>

(* The aggregate job settles, unless a batch was refused by the manager or *)
(* the items that wait for fresh agents were deserted.                     *)
PoolEnds ==
    pool \in {"waiting", "cancelled"} ~> pool = "done" \/ ~RunningHasJob \/ ~FreshAreServed
=============================================================================
