----------------------------- MODULE EventQueue -----------------------------
(***************************************************************************)
(* The event queue of the triage bot: python/robomp/src/queue.py over the  *)
(* rows of db.py, slot_pool.py and the worker threads of worker.py.        *)
(*                                                                         *)
(* Rows survive the process, everything else is lost with it.  One event   *)
(* loop runs the dispatcher and a task per claimed event; statements       *)
(* between two awaits are one step.  Claims, requeues and the agent's turn *)
(* run on worker threads and interleave with the loop anywhere: cancelling *)
(* a task that awaits a thread leaves the thread running.                  *)
(***************************************************************************)
EXTENDS Naturals, Sequences, FiniteSets

CONSTANTS
    MaxEvents,  \* deliveries, in the order 1, 2, ... in which they are received
    Issues,     \* the numbers they may be about: issues, pull requests of others
    Pulls,      \* and pull requests of the bot, which belong to an issue
    Slots,      \* max_concurrency
    MaxRetries, \* event_max_retries
    MaxReplays, \* bound on replays of finished events
    MaxCancels, \* bound on cancellations by the operator
    MaxEnds     \* bound on crashes and shutdowns of the process

Events == 1..MaxEvents
Keys == Issues \cup Pulls

ASSUME QueueAssumption ==
    /\ Issues \cap Pulls = {}
    /\ MaxEvents \in Nat /\ Slots \in Nat \ {0} /\ MaxRetries \in Nat
    /\ {MaxReplays, MaxCancels, MaxEnds} \subseteq Nat

VARIABLES
    subject,     \* the number each delivery is about
    origin,      \* the number whose workspace belongs to a number: find_issue_by_pr
    key,         \* issue_key of each delivery, which it is queued under
    place,       \* the number whose workspace its task, or thread, has resolved to
    row,         \* state of each event's row, "absent" before it is received
    attempts,    \* attempts, counted up to MaxRetries + 1
    later,       \* rows whose available_at is in the future
    proc,        \* the process
    disp,        \* where the dispatcher is
    got,         \* the event it has claimed, 0 for none
    wakeup,      \* _wakeup
    run,         \* where the task of each event is
    line,        \* tasks that wait for a slot
    free,        \* slots in the pool
    inflight,    \* _inflight
    hooks,       \* events with a hook in _cancel_hooks
    cancelled,   \* _cancelled
    interrupted, \* _shutdown_cancelled
    loose,       \* events with a worker thread whose task is gone
    todo,        \* tasks stop has still to interrupt
    budget       \* replays, cancellations and ends that may still happen

routes == <<subject, origin, key>>
rows == <<routes, row, attempts, later>>
dispatcher == <<disp, got, wakeup>>
slotVars == <<line, free>>
marks == <<hooks, cancelled, interrupted>>
stopping == <<proc, todo>>
vars == <<rows, place, dispatcher, run, slotVars, inflight, marks, loose, stopping, budget>>

(* A fresh process has nothing in memory; __init__ *)
Fresh ==
    /\ disp' = "top" /\ got' = 0 /\ wakeup' = FALSE
    /\ run' = [e \in Events |-> "none"] /\ line' = <<>> /\ free' = Slots
    /\ inflight' = {} /\ hooks' = {} /\ cancelled' = {} /\ interrupted' = {}
    /\ loose' = {} /\ todo' = {} /\ place' = subject

(* Nothing is routed or resolved yet, and no pull request has an issue.    *)
Init ==
    /\ subject \in [Events -> Keys] /\ key = subject /\ place = subject
    /\ origin = [k \in Keys |-> k]
    /\ row = [e \in Events |-> "absent"] /\ attempts = [e \in Events |-> 0] /\ later = {}
    /\ proc = "up" /\ disp = "top" /\ got = 0 /\ wakeup = FALSE
    /\ run = [e \in Events |-> "none"] /\ line = <<>> /\ free = Slots
    /\ inflight = {} /\ hooks = {} /\ cancelled = {} /\ interrupted = {}
    /\ loose = {} /\ todo = {}
    /\ budget = [replays |-> MaxReplays, cancels |-> MaxCancels, ends |-> MaxEnds]

Spend(what) == budget[what] > 0 /\ budget' = [budget EXCEPT ![what] = @ - 1]

-----------------------------------------------------------------------------
(* The server's calls.                                                     *)

(* A webhook delivers the next event: route chooses its key, a number's    *)
(* own if it has no issue on record; record_event, then wake.              *)
Receive ==
    /\ proc = "up"
    /\ \E e \in Events :
         /\ row[e] = "absent" /\ \A f \in 1..(e - 1) : row[f] # "absent"
         /\ row' = [row EXCEPT ![e] = "queued"]
         /\ key' = [key EXCEPT ![e] = origin[subject[e]]]
    /\ wakeup' = TRUE
    /\ UNCHANGED <<subject, origin, place, attempts, later, disp, got, run, slotVars,
                   inflight, marks, loose, stopping, budget>>

(* A finished event is replayed.  The count of its attempts stays. *)
Replay(e) ==
    /\ proc = "up" /\ row[e] \in {"done", "failed"} /\ Spend("replays")
    /\ row' = [row EXCEPT ![e] = "queued"] /\ wakeup' = TRUE
    /\ UNCHANGED <<routes, place, attempts, later, disp, got, run, slotVars,
                   inflight, marks, loose, stopping>>

(* Fires an installed hook: the agent process is killed. *)
Fire(e) ==
    /\ hooks' = hooks \ {e}
    /\ run' = [run EXCEPT ![e] = "killed"]

(* cancel_event: the mark stays for a worker that has not armed yet.       *)
Cancel(e) ==
    /\ proc = "up" /\ row[e] = "running" /\ e \notin cancelled /\ Spend("cancels")
    /\ cancelled' = cancelled \cup {e}
    /\ IF e \in hooks THEN Fire(e) ELSE UNCHANGED <<hooks, run>>
    /\ UNCHANGED <<rows, place, dispatcher, slotVars, inflight, interrupted, loose,
                   stopping>>

-----------------------------------------------------------------------------
(* The dispatcher.  It holds _inflight_lock from here to the end of the nap. *)
Locked == disp \in {"select", "resume", "bounce", "nap"}
Releasing == {e \in Events : run[e] = "releasing"}

(* The lock is fair: a task that waits to release its issue goes first.    *)
Select ==
    /\ disp = "top" /\ Releasing = {}
    /\ disp' = "select"
    /\ UNCHANGED <<rows, place, got, wakeup, run, slotVars, inflight, marks, loose,
                   stopping, budget>>

(* claim_next_event, on a thread: rows that are due and whose issue has no *)
(* running row.                                                            *)
Due ==
    {e \in Events :
        /\ row[e] = "queued" /\ e \notin later
        /\ ~\E f \in Events : row[f] = "running" /\ key[f] = key[e]}
Oldest(s) == CHOOSE e \in s : \A f \in s : e <= f

ClaimRow(e) ==
    /\ row' = [row EXCEPT ![e] = "running"]
    /\ attempts' = [attempts EXCEPT ![e] = IF @ > MaxRetries THEN @ ELSE @ + 1]

Claim ==
    /\ disp = "select" /\ disp' = "resume"
    /\ IF Due = {} THEN got' = 0 /\ UNCHANGED <<row, attempts>>
       ELSE got' = Oldest(Due) /\ ClaimRow(Oldest(Due))
    /\ UNCHANGED <<routes, place, later, wakeup, run, slotVars, inflight, marks,
                   loose, stopping, budget>>

MayStart_Always(e) == TRUE
(* key in self._inflight: the row is back, its issue is not released yet.  *)
MayStart(e) == key[e] \notin inflight

(* The loop gets the claim; without one it forgets any wake-up and waits.  *)
Resume ==
    /\ disp = "resume"
    /\ IF got = 0
       THEN /\ disp' = "wait" /\ wakeup' = FALSE
            /\ UNCHANGED <<got, run, line, inflight>>
       ELSE IF MayStart(got)
       THEN /\ disp' = "top" /\ got' = 0
            /\ inflight' = inflight \cup {key[got]}
            /\ run' = [run EXCEPT ![got] = "slot"] /\ line' = Append(line, got)
            /\ UNCHANGED wakeup
       ELSE /\ disp' = "bounce"
            /\ UNCHANGED <<got, wakeup, run, line, inflight>>
    /\ UNCHANGED <<rows, place, free, marks, loose, stopping, budget>>

Bounced_Never(e) == row
(* requeue_event *)
Bounced(e) == [row EXCEPT ![e] = IF @ = "running" THEN "queued" ELSE @]

(* The event is put back, and the dispatcher sleeps. *)
Bounce ==
    /\ disp = "bounce"
    /\ row' = Bounced(got) /\ disp' = "nap" /\ got' = 0
    /\ UNCHANGED <<routes, place, attempts, later, wakeup, run, slotVars, inflight,
                   marks, loose, stopping, budget>>

NapEnds ==
    /\ disp = "nap" /\ disp' = "wait" /\ wakeup' = FALSE
    /\ UNCHANGED <<rows, place, got, run, slotVars, inflight, marks, loose, stopping, budget>>

Polls_Never == FALSE
(* wait_for(..., timeout=10.0) *)
Polls == TRUE

(* The wait ends with a wake-up or after ten seconds.                      *)
WaitEnds ==
    /\ disp = "wait" /\ (wakeup \/ Polls)
    /\ disp' = "top"
    /\ UNCHANGED <<rows, place, got, wakeup, run, slotVars, inflight, marks, loose,
                   stopping, budget>>

-----------------------------------------------------------------------------
(* The task of an event, and its worker thread.                            *)

(* set_issue_pr: the row of number i names pull request p, and no other.   *)
Owned(p, i) ==
    [k \in Keys |-> IF k = p THEN i
                    ELSE IF k \in Pulls /\ origin[k] = i THEN k ELSE origin[k]]

TakeSlot ==
    /\ line # <<>> /\ free > 0
    /\ line' = Tail(line) /\ free' = free - 1
    /\ run' = [run EXCEPT ![Head(line)] = "resolve"]
    /\ UNCHANGED <<rows, place, dispatcher, inflight, marks, loose, stopping, budget>>

(* The task finds out whose workspace it works in, with the records as     *)
(* they are now: a pull request without an issue may be found by its       *)
(* branch, which is then recorded; or there is nothing to do for it.       *)
Resolve(e) ==
    /\ run[e] = "resolve"
    /\ \E to \in {"prep", "ok", "error"} : run' = [run EXCEPT ![e] = to]
    /\ \/ place' = [place EXCEPT ![e] = origin[subject[e]]] /\ UNCHANGED origin
       \/ /\ subject[e] \in Pulls /\ origin[subject[e]] = subject[e]
          /\ \E i \in Issues : /\ place' = [place EXCEPT ![e] = i]
                              /\ origin' = Owned(subject[e], i)
    /\ UNCHANGED <<subject, key, row, attempts, later, dispatcher, slotVars, inflight,
                   marks, loose, stopping, budget>>

(* Fetching the issue and preparing the workspace; some events need no     *)
(* agent.                                                                  *)
Prepare(e) ==
    /\ run[e] = "prep"
    /\ \E to \in {"spawn", "ok", "error"} : run' = [run EXCEPT ![e] = to]
    /\ UNCHANGED <<rows, place, dispatcher, slotVars, inflight, marks, loose,
                   stopping, budget>>

(* _arm_cancel on the worker thread, once the agent process is up: first   *)
(* it looks for an earlier request, then it installs the hook.             *)
Spawned(e) ==
    /\ run[e] = "spawn"
    /\ run' = [run EXCEPT ![e] = IF e \in cancelled THEN "killed" ELSE "arming"]
    /\ UNCHANGED <<rows, place, dispatcher, slotVars, inflight, marks, loose,
                   stopping, budget>>

SpawnFails(e) ==
    /\ run[e] = "spawn"
    /\ run' = [run EXCEPT ![e] = "error"]
    /\ UNCHANGED <<rows, place, dispatcher, slotVars, inflight, marks, loose,
                   stopping, budget>>

Arm(e) ==
    /\ run[e] = "arming"
    /\ run' = [run EXCEPT ![e] = "armed"] /\ hooks' = hooks \cup {e}
    /\ UNCHANGED <<rows, place, dispatcher, slotVars, inflight, cancelled,
                   interrupted, loose, stopping, budget>>

(* The turn is over: it ended, failed, timed out or was killed.  A kill    *)
(* may come too late.                                                      *)
TurnEnds(e) ==
    /\ run[e] \in {"armed", "killed"} /\ hooks' = hooks \ {e}
    /\ \E to \in {"ok", "error"} : run' = [run EXCEPT ![e] = to]
    /\ UNCHANGED <<rows, place, dispatcher, slotVars, inflight, cancelled,
                   interrupted, loose, stopping, budget>>

(* gh_open_pr: the pull request, on GitHub since a while, is recorded.     *)
RecordPull(e) ==
    /\ run[e] \in {"armed", "killed"} \/ e \in loose
    /\ \E p \in Pulls : origin[p] # place[e] /\ origin' = Owned(p, place[e])
    /\ UNCHANGED <<subject, key, place, row, attempts, later, dispatcher, run, slotVars,
                   inflight, marks, loose, stopping, budget>>

(* What the task, or the thread without one, had resolved is forgotten.    *)
Leave(e) == place' = [place EXCEPT ![e] = subject[e]]

(* A thread without a task ends as well. *)
LooseEnds(e) ==
    /\ e \in loose /\ loose' = loose \ {e} /\ Leave(e)
    /\ UNCHANGED <<rows, dispatcher, run, slotVars, inflight, marks, stopping,
                   budget>>

(* The finally block of _run_event, up to its first await: the marks go    *)
(* and the slot is given back.                                             *)
Forget(e) ==
    /\ hooks' = hooks \ {e} /\ cancelled' = cancelled \ {e} /\ interrupted' = interrupted \ {e}
GiveBack == free' = free + 1

Excused_Never(e) == FALSE
(* row.delivery_id in self._shutdown_cancelled *)
Excused(e) == e \in interrupted

Retries(e) == attempts[e] <= MaxRetries

(* What becomes of the row of an event that raised. *)
Failed(e) ==
    IF Excused(e) THEN UNCHANGED <<row, later>>
    ELSE IF e \notin cancelled /\ Retries(e)
    THEN row' = [row EXCEPT ![e] = "queued"] /\ later' = later \cup {e}
    ELSE row' = [row EXCEPT ![e] = "failed"] /\ UNCHANGED later

(* The task gets the outcome of its thread and marks the row.              *)
Handle(e) ==
    /\ run[e] \in {"ok", "error"}
    /\ IF run[e] = "error" THEN Failed(e)
       ELSE /\ row' = [row EXCEPT ![e] = IF e \in cancelled THEN "failed" ELSE "done"]
            /\ UNCHANGED later
    /\ Forget(e) /\ GiveBack /\ Leave(e)
    /\ run' = [run EXCEPT ![e] = IF proc = "up" THEN "reclaim" ELSE "releasing"]
    /\ UNCHANGED <<routes, attempts, dispatcher, line, inflight, loose,
                   stopping, budget>>

(* The caches of the workspace are dropped before its issue is released.   *)
Reclaimed(e) ==
    /\ run[e] = "reclaim"
    /\ run' = [run EXCEPT ![e] = "releasing"]
    /\ UNCHANGED <<rows, place, dispatcher, slotVars, inflight, marks, loose,
                   stopping, budget>>

(* _release *)
Release(e) ==
    /\ run[e] = "releasing" /\ ~Locked
    /\ run' = [run EXCEPT ![e] = "none"] /\ inflight' = inflight \ {key[e]}
    /\ UNCHANGED <<rows, place, dispatcher, slotVars, marks, loose, stopping, budget>>

BackoffElapses(e) ==
    /\ e \in later /\ later' = later \ {e}
    /\ UNCHANGED <<routes, place, row, attempts, dispatcher, run, slotVars,
                   inflight, marks, loose, stopping, budget>>

-----------------------------------------------------------------------------
(* Shutdown, crash and restart.                                            *)
Tasks == {e \in Events : run[e] # "none"}

(* stop cancels the dispatcher first; a thread it awaited may still do     *)
(* what it was asked to.                                                   *)
Stop ==
    /\ proc = "up" /\ Spend("ends")
    /\ proc' = IF Tasks = {} THEN "stopped" ELSE "draining"
    /\ disp' = "off" /\ got' = 0 /\ wakeup' = TRUE
    /\ \/ UNCHANGED rows
       \/ disp = "select" /\ Due # {} /\ ClaimRow(Oldest(Due)) /\ UNCHANGED later
       \/ disp = "bounce" /\ row' = Bounced(got)
          /\ UNCHANGED <<attempts, later>>
    /\ UNCHANGED <<routes, place, run, slotVars, inflight, marks, loose, todo>>

(* The tasks have ended, or the time to drain them is over. *)
DrainEnds ==
    /\ proc = "draining"
    /\ proc' = IF Tasks = {} THEN "stopped" ELSE "interrupting"
    /\ todo' = Tasks
    /\ UNCHANGED <<rows, place, dispatcher, run, slotVars, inflight, marks, loose,
                   budget>>

(* The tasks that wait for a slot without e, spliced out at its place.     *)
Unlined(e) ==
    LET at == {k \in 1..Len(line) : line[k] = e} IN
    IF at = {} THEN line
    ELSE [k \in 1..(Len(line) - 1) |-> IF \E j \in at : j <= k THEN line[k + 1] ELSE line[k]]

(* A cancelled task unwinds at once, or drains its workspace thread first; *)
(* its row stays running.  The thread that runs the agent is left alone.   *)
CancelTask(e) ==
    /\ run' = [run EXCEPT ![e] = IF @ \in {"reclaim", "releasing"} THEN "none"
                                 ELSE IF @ = "prep" THEN "unwind" ELSE "releasing"]
    /\ line' = Unlined(e)
    /\ free' = IF run[e] \in {"resolve", "spawn", "arming", "killed", "ok", "error"}
                THEN free + 1 ELSE free
    /\ IF run[e] \in {"spawn", "arming", "killed"}
       THEN loose' = loose \cup {e} /\ UNCHANGED place
       ELSE /\ UNCHANGED loose
            /\ IF run[e] = "prep" THEN UNCHANGED place ELSE Leave(e)
    /\ IF run[e] = "prep"
       THEN interrupted' = interrupted \cup {e} /\ UNCHANGED <<hooks, cancelled>>
       ELSE Forget(e)

(* stop, for one task that did not drain: its hook is fired or, without a  *)
(* hook, the task itself is cancelled.                                     *)
Interrupt(e) ==
    /\ proc = "interrupting" /\ e \in todo /\ todo' = todo \ {e}
    /\ IF run[e] = "none" THEN UNCHANGED <<place, run, slotVars, marks, loose>>
       ELSE IF e \in hooks
       THEN /\ Fire(e) /\ interrupted' = interrupted \cup {e}
            /\ UNCHANGED <<place, slotVars, cancelled, loose>>
       ELSE CancelTask(e)
    /\ UNCHANGED <<rows, dispatcher, inflight, proc, budget>>

Unwound(e) ==
    /\ run[e] = "unwind"
    /\ Forget(e) /\ GiveBack /\ Leave(e) /\ run' = [run EXCEPT ![e] = "releasing"]
    /\ UNCHANGED <<rows, dispatcher, line, inflight, loose, stopping, budget>>

(* stop returns after a last wait, whatever still runs. *)
Stopped ==
    /\ proc = "interrupting" /\ todo = {} /\ proc' = "stopped"
    /\ UNCHANGED <<rows, place, dispatcher, run, slotVars, inflight, marks, loose,
                   todo, budget>>

(* The process ends: after stop, or by a crash at any moment. *)
Exit ==
    /\ proc = "stopped" /\ proc' = "down" /\ Fresh
    /\ UNCHANGED <<rows, budget>>

Crash ==
    /\ proc \notin {"down", "stopped"} /\ Spend("ends")
    /\ proc' = "down" /\ Fresh
    /\ UNCHANGED rows

(* reset_stuck_running *)
Recovered == {e \in Events : row[e] = "running"}

Start ==
    /\ proc = "down" /\ proc' = "up" /\ disp' = "top"
    /\ row' = [e \in Events |-> IF e \in Recovered THEN "queued" ELSE row[e]]
    /\ later' = later \ Recovered
    /\ UNCHANGED <<routes, place, attempts, got, wakeup, run, slotVars, inflight,
                   marks, loose, todo, budget>>

-----------------------------------------------------------------------------
Dispatcher ==
    /\ proc # "down"
    /\ Select \/ Claim \/ Resume \/ Bounce \/ NapEnds \/ WaitEnds

(* Steps of the task of an event and of its thread. *)
Task(e) ==
    \/ Resolve(e) \/ Prepare(e) \/ Spawned(e) \/ SpawnFails(e) \/ Arm(e) \/ TurnEnds(e)
    \/ LooseEnds(e) \/ Handle(e) \/ Reclaimed(e) \/ Release(e) \/ Unwound(e)

Shutdown == DrainEnds \/ Stopped \/ Exit \/ Start \/ \E e \in Events : Interrupt(e)

Next ==
    \/ Receive \/ Dispatcher \/ TakeSlot \/ Shutdown \/ Stop \/ Crash
    \/ \E e \in Events :
         Replay(e) \/ Cancel(e) \/ BackoffElapses(e) \/ RecordPull(e) \/ Task(e)

Spec == Init /\ [][Next]_vars

(* The loop and its threads go on, turns end at their hard timeout,        *)
(* backoffs elapse, and a process that is down is started again.           *)
Fairness ==
    /\ WF_vars(Dispatcher) /\ WF_vars(TakeSlot) /\ WF_vars(Shutdown)
    /\ \A e \in Events : WF_vars(Task(e)) /\ WF_vars(BackoffElapses(e))

FairSpec == Spec /\ Fairness

-----------------------------------------------------------------------------
Holding == {"resolve", "prep", "unwind", "spawn", "arming", "armed", "killed", "ok", "error"}

TypeOK ==
    /\ subject \in [Events -> Keys] /\ origin \in [Keys -> Keys]
    /\ key \in [Events -> Keys] /\ place \in [Events -> Keys]
    /\ row \in [Events -> {"absent", "queued", "running", "done", "failed"}]
    /\ attempts \in [Events -> 0..(MaxRetries + 1)] /\ later \subseteq Events
    /\ proc \in {"up", "draining", "interrupting", "stopped", "down"}
    /\ disp \in {"top", "select", "resume", "bounce", "nap", "wait", "off"}
    /\ got \in {0} \cup Events /\ wakeup \in BOOLEAN
    /\ run \in [Events -> {"none", "slot", "reclaim", "releasing"} \cup Holding]
    /\ line \in Seq(Events) /\ free \in 0..Slots
    /\ inflight \subseteq Keys
    /\ {hooks, cancelled, interrupted, loose, todo} \subseteq SUBSET Events

(* Every slot is either free or held by one task. *)
SlotsCounted == free + Cardinality({e \in Events : run[e] \in Holding}) = Slots

(* An event's task or thread may be at work. *)
Active(e) == run[e] \in Holding \cup {"reclaim"} \/ e \in loose

(* No two events queued under a key are at work at once: not while caches  *)
(* are reclaimed, and not when the second is a replay, or is claimed while *)
(* the run of the first is still unwinding.                                *)
OneRunPerKey ==
    \A e, f \in Events : e # f /\ Active(e) /\ Active(f) => key[e] # key[f]

(* The workspaces an event's task or thread may touch: the one it resolved *)
(* to and, when it reclaims caches, the one of its key.                    *)
InUse(e) ==
    {k \in Keys : \/ k = place[e] /\ (run[e] \in Holding \ {"resolve"} \/ e \in loose)
                  \/ k = key[e] /\ run[e] = "reclaim"}

(* The event is about a pull request of the bot, and was routed before the *)
(* record its task went by was made.                                       *)
Strayed(e) == subject[e] \in Pulls /\ place[e] # key[e]

(* Two events meet in a workspace only if one of them has strayed: that    *)
(* keys exclude each other is enough for all others.                       *)
OneUserUnlessStrayed ==
    \A e, f \in Events :
      e # f /\ InUse(e) \cap InUse(f) # {} => Strayed(e) \/ Strayed(f)

(* The queue is typed, holds as many slots as it has turns, runs one turn  *)
(* per key, and one per workspace as long as keys name workspaces.         *)
QueueInv == TypeOK /\ SlotsCounted /\ OneRunPerKey /\ OneUserUnlessStrayed

(* Workspaces as the comments on _reclaim_event_caches and route have it:  *)
(* the key in flight keeps every other event out of the workspace.         *)
OneUserPerWorkspace ==
    \A e, f \in Events : e # f => InUse(e) \cap InUse(f) = {}

(* While the process is up, a running row belongs to a task or is in the   *)
(* dispatcher's hands: none waits for the next restart to be found.        *)
RowHasRunner ==
    proc = "up" => \A e \in Events : row[e] = "running" =>
        run[e] \in {"slot"} \cup Holding \/ (disp \in {"resume", "bounce"} /\ got = e)

(* An event that the shutdown interrupted is not failed for it: only an    *)
(* operator's earlier cancellation can still do so.                        *)
InterruptedStays ==
    [][\A e \in Events : e \in interrupted /\ row'[e] = "failed" /\ row[e] # "failed"
         => e \in cancelled]_vars

(* Every event received is decided, over crashes, shutdowns, retries,      *)
(* bounces and wake-ups that are forgotten.                                *)
EveryEventDecided ==
    \A e \in Events : row[e] \in {"queued", "running"} ~> row[e] \in {"done", "failed"}

(* The agent of an event the operator cancelled is not left running.       *)
CancelReachesAgent == \A e \in Events : e \in cancelled => run[e] # "armed"

(* When stop has returned, no thread is left that can spawn an agent.      *)
NoneSpawnsAfterStop == proc = "stopped" => loose = {}
=============================================================================
