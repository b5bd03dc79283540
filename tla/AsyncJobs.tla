----------------------------- MODULE AsyncJobs ------------------------------
(***************************************************************************)
(* Background jobs of one agent and the way their results reach the model: *)
(* AsyncJobManager (async/job-manager.ts), the session's delivery sink and *)
(* yield queue (session/agent-session.ts, session/yield-queue.ts), the     *)
(* hub tool's wait, cancel and jobs operations (tools/hub) and the         *)
(* foreground wait of the bash tool (tools/bash.ts).                       *)
(*                                                                         *)
(* A result has several ways to the model: a delivery that the agent loop  *)
(* injects, a hub snapshot, a foreground wait.  Each way silences the      *)
(* others through sets of job ids, and ids are reused after a job's row    *)
(* is evicted.  What is followed is which job's result is where.           *)
(*                                                                         *)
(* A step is what runs between two awaits.  The manager is seen by one     *)
(* agent, whose sink is registered for as long as the session lives.       *)
(***************************************************************************)
EXTENDS Naturals, FiniteSets

CONSTANTS
    Jobs,         \* the jobs that may be registered, each at most once
    Ids,          \* job ids
    None,         \* no job, no id
    MaxRunning,   \* maxRunningJobs
    MaxResets,    \* bound on the session transitions considered
    MaxDiscards,  \* bound on the batches the agent loop discards
    PhotoFinish   \* a peer's message may end a hub wait as a watched job settles

ASSUME JobsAssumption ==
    /\ None \notin Jobs \cup Ids
    /\ IsFiniteSet(Jobs) /\ Ids # {}
    /\ MaxRunning \in Nat \ {0} /\ MaxResets \in Nat /\ MaxDiscards \in Nat
    /\ PhotoFinish \in BOOLEAN

VARIABLES
    rows,       \* #jobs: the job of each id
    id,         \* the id of each job
    status,     \* job.status; "completed" stands for "failed" as well
    live,       \* jobs whose promise has not settled
    timers,     \* #evictionTimers
    suppressed, \* #suppressedDeliveries
    watched,    \* #watchedJobs
    consumed,   \* #consumedJobResults
    place,      \* where the delivery of each job's result is
    stamp,      \* the epoch its sink call captured
    epoch,      \* #asyncDeliveryEpoch
    born,       \* the epoch each job was registered in
    fg,         \* jobs a bash call waits for in the foreground
    hub,        \* jobsToWatch of the hub wait in progress
    hubAt,      \* where that wait is
    seen,       \* jobs whose outcome the model was told
    discards,   \* batches discarded so far
    crossed     \* jobs whose use of an id met another use of it, see Lingers

table    == <<rows, id, status, live, timers>>
marks    == <<suppressed, watched, consumed>>
delivery == <<place, stamp>>
session  == <<epoch, born>>
tools    == <<fg, hub, hubAt>>
model    == <<seen, discards>>
vars     == <<table, marks, delivery, session, tools, model, crossed>>

(* A delivery is "queued" in #deliveries, in a "sink" call that formats    *)
(* it, an "entry" of the yield queue, or "held" by the agent loop between  *)
(* the poll for asides and the injection; "none" is not pending.           *)
Pending == {"queued", "sink", "entry", "held"}
DeliveryAt(l) == {j \in Jobs : place[j] = l}

Running(j) == status[j] = "running"
RowJobs    == {rows[i] : i \in Ids} \ {None}

Init ==
    /\ rows = [i \in Ids |-> None] /\ id = [j \in Jobs |-> None]
    /\ status = [j \in Jobs |-> "new"] /\ live = {} /\ timers = {}
    /\ suppressed = {} /\ watched = {} /\ consumed = {}
    /\ place = [j \in Jobs |-> "none"] /\ stamp = [j \in Jobs |-> 0]
    /\ epoch = 0 /\ born = [j \in Jobs |-> 0]
    /\ fg = {} /\ hub = {} /\ hubAt = "no"
    /\ seen = {} /\ discards = 0 /\ crossed = {}

-----------------------------------------------------------------------------
(* The manager's helpers.                                                  *)

(* isDeliverySuppressed. *)
Silenced(i) == i \in suppressed \cup watched

(* enqueueDelivery of job j: without a row the delivery has no owner, and  *)
(* no sink takes unowned deliveries.                                       *)
Enqueue(j) ==
    IF Silenced(id[j]) \/ rows[id[j]] = None THEN place
    ELSE [place EXCEPT ![j] = "queued"]

(* acknowledgeDeliveries of ids I drops their queued deliveries. *)
Acknowledge(I) ==
    /\ suppressed' = suppressed \cup I
    /\ place' = [j \in Jobs |->
         IF place[j] = "queued" /\ id[j] \in suppressed \cup I \cup watched
         THEN "none" ELSE place[j]]

(* consumeJobResult of ids I: those whose row has settled with a result. *)
Consume(I) ==
    consumed \cup {i \in I : /\ rows[i] # None /\ rows[i] \notin live
                             /\ ~Running(rows[i])}

(* The catch clause of deliverDelivery, for a delivery whose entry was     *)
(* rejected: back to the queue unless silenced or evicted.                 *)
Retried(j) == IF Silenced(id[j]) \/ rows[id[j]] = None THEN "none" ELSE "queued"

(* Tool calls and the injection of results exclude each other: the agent   *)
(* loop polls and injects between two batches of calls.                    *)
NoTools   == fg = {} /\ hub = {}
ToolsMayRun == DeliveryAt("held") = {}

-----------------------------------------------------------------------------
(* Registering, settling and evicting jobs.                                *)

(* resolveJobId: any id without a row, since callers may prefer one.       *)
FreeId(i) == rows[i] = None

(* What meets when an id has two uses is kept in crossed: a job that gets  *)
(* an id while the process or the wait of its last job, or a timer set by  *)
(* its end, lingers; one whose row is evicted before its delivery is over; *)
(* one whose result the return of another job's delivery marks consumed.   *)
Lingers(i)  == i \in timers \/ \E k \in live \cup fg : id[k] = i
Strayed(i)  == {j \in Jobs : id[j] = i /\ place[j] \in Pending}
Mistaken(J) == {rows[id[d]] : d \in J} \cap {j \in Jobs \ (J \cup seen) :
                  j \notin live /\ ~Running(j) /\ id[j] \notin consumed}

(* What the two ways to register have in common. *)
Added(j, i) ==
    /\ ToolsMayRun
    /\ status[j] = "new" /\ FreeId(i)
    /\ Cardinality({k \in RowJobs : Running(k)}) < MaxRunning
    /\ rows' = [rows EXCEPT ![i] = j] /\ id' = [id EXCEPT ![j] = i]
    /\ status' = [status EXCEPT ![j] = "running"] /\ live' = live \cup {j}
    /\ born' = [born EXCEPT ![j] = epoch]
    /\ consumed' = consumed \ {i}
    /\ crossed' = IF Lingers(i) THEN crossed \cup {j} ELSE crossed
    /\ UNCHANGED <<timers, watched, stamp, epoch, hub, hubAt, model>>

(* A job that starts in the background. *)
Register(j, i) ==
    /\ Added(j, i)
    /\ suppressed' = suppressed \ {i}
    /\ UNCHANGED <<place, fg>>

(* A bash call that waits for its job: the delivery is silenced up front. *)
RegisterForeground(j, i) ==
    /\ Added(j, i)
    /\ suppressed' = suppressed \cup {i}
    /\ place' = [k \in Jobs |->
                   IF place[k] = "queued" /\ id[k] = i THEN "none" ELSE place[k]]
    /\ fg' = fg \cup {j}

Settle_NoTimer(j) ==
    /\ j \in live /\ live' = live \ {j}
    /\ \/ /\ Running(j)
          /\ status' = [status EXCEPT ![j] = "completed"]
          /\ place' = Enqueue(j)
       \/ /\ ~Running(j)
          /\ UNCHANGED <<status, place>>
    /\ UNCHANGED <<rows, id, timers, marks, stamp, session, tools, model, crossed>>
(* The job's promise settles; a cancelled job stays cancelled. *)
Settle(j) ==
    /\ j \in live /\ live' = live \ {j}
    /\ \/ /\ Running(j)
          /\ status' = [status EXCEPT ![j] = "completed"]
          /\ place' = Enqueue(j)
       \/ /\ ~Running(j)
          /\ UNCHANGED <<status, place>>
    /\ timers' = timers \cup {id[j]}
    /\ UNCHANGED <<rows, id, marks, stamp, session, tools, model, crossed>>

(* cancel of the job in the row of id i. *)
Cancelled(i) ==
    IF rows[i] # None /\ Running(rows[i])
    THEN /\ status' = [status EXCEPT ![rows[i]] = "cancelled"]
         /\ timers' = timers \cup {i}
    ELSE UNCHANGED <<status, timers>>

(* A foreground or hub wait on the job of id i is about to return: it does *)
(* so in microtasks, which run before any timer.                           *)
Returning(i) ==
    \/ hubAt = "leaving"
    \/ i \in watched /\ rows[i] \notin live
    \/ \E j \in fg \ live : id[j] = i

(* The retention timer fires: evictJob.  A delivery may outlive the row.   *)
Evict(i) ==
    /\ i \in timers /\ ~Returning(i)
    /\ timers' = timers \ {i}
    /\ rows' = [rows EXCEPT ![i] = None]
    /\ suppressed' = suppressed \ {i} /\ watched' = watched \ {i}
    /\ consumed' = consumed \ {i}
    /\ crossed' = crossed \cup Strayed(i)
    /\ UNCHANGED <<id, status, live, delivery, session, tools, model>>

-----------------------------------------------------------------------------
(* A delivery's way to the model.                                          *)

(* runDeliveryLoop takes a delivery; the sink captures the epoch. *)
Deliver(j) ==
    /\ place[j] = "queued"
    /\ \/ /\ Silenced(id[j])
          /\ place' = [place EXCEPT ![j] = "none"] /\ UNCHANGED stamp
       \/ /\ ~Silenced(id[j])
          /\ place' = [place EXCEPT ![j] = "sink"]
          /\ stamp' = [stamp EXCEPT ![j] = epoch]
    /\ UNCHANGED <<table, marks, session, tools, model, crossed>>

(* The result is formatted: an entry of the yield queue, unless the        *)
(* session changed or the id was silenced meanwhile; then the sink returns *)
(* as if it had delivered.                                                 *)
Format(j) ==
    /\ place[j] = "sink"
    /\ \/ /\ stamp[j] = epoch /\ ~Silenced(id[j])
          /\ place' = [place EXCEPT ![j] = "entry"] /\ UNCHANGED <<consumed, crossed>>
       \/ /\ stamp[j] # epoch \/ Silenced(id[j])
          /\ place' = [place EXCEPT ![j] = "none"]
          /\ consumed' = Consume({id[j]})
          /\ crossed' = crossed \cup Mistaken({j})
    /\ UNCHANGED <<table, suppressed, watched, stamp, session, tools, model>>

Drain_NoStaleCheck ==
    /\ NoTools /\ ToolsMayRun /\ DeliveryAt("entry") # {}
    /\ place' = [j \in Jobs |-> IF place[j] = "entry" THEN "held" ELSE place[j]]
    /\ UNCHANGED <<table, marks, stamp, session, tools, model, crossed>>
(* The poll at a boundary, or the idle flush: entries that are not stale   *)
(* become one message; the sinks of the others fail.                       *)
Drain ==
    /\ NoTools /\ ToolsMayRun /\ DeliveryAt("entry") # {}
    /\ place' = [j \in Jobs |->
         IF place[j] # "entry" THEN place[j]
         ELSE IF stamp[j] = epoch /\ ~Silenced(id[j]) THEN "held"
         ELSE Retried(j)]
    /\ UNCHANGED <<table, marks, stamp, session, tools, model, crossed>>

(* The message is inserted; each sink returns. *)
Commit ==
    LET H == DeliveryAt("held")
    IN /\ H # {}
       /\ place' = [j \in Jobs |-> IF j \in H THEN "none" ELSE place[j]]
       /\ consumed' = Consume({id[j] : j \in H})
       /\ seen' = seen \cup H
       /\ crossed' = crossed \cup Mistaken(H)
       /\ UNCHANGED <<table, suppressed, watched, stamp, session, tools, discards>>

Discard_NoRetry ==
    LET H == DeliveryAt("held")
    IN /\ H # {} /\ discards < MaxDiscards
       /\ discards' = discards + 1
       /\ place' = [j \in Jobs |-> IF j \in H THEN "none" ELSE place[j]]
       /\ UNCHANGED <<table, marks, stamp, session, tools, seen, crossed>>
(* The run ends before the insertion: each sink fails. *)
Discard ==
    LET H == DeliveryAt("held")
    IN /\ H # {} /\ discards < MaxDiscards
       /\ discards' = discards + 1
       /\ place' = [j \in Jobs |-> IF j \in H THEN Retried(j) ELSE place[j]]
       /\ UNCHANGED <<table, marks, stamp, session, tools, seen, crossed>>

-----------------------------------------------------------------------------
(* The foreground wait of a bash call.                                     *)

(* The command ends: its output is the tool result. *)
FgReturns(j) ==
    /\ j \in fg \ live
    /\ fg' = fg \ {j} /\ seen' = seen \cup {j}
    /\ UNCHANGED <<table, marks, delivery, session, hub, hubAt, discards, crossed>>

(* The call is aborted: the job is cancelled. *)
FgAborts(j) ==
    /\ j \in fg \cap live
    /\ fg' = fg \ {j} /\ Cancelled(id[j])
    /\ UNCHANGED <<rows, id, live, marks, delivery, session, hub, hubAt, model, crossed>>

FgBackgrounds_NoResume(j) ==
    /\ j \in fg \cap live
    /\ fg' = fg \ {j}
    /\ UNCHANGED <<table, marks, delivery, session, hub, hubAt, model, crossed>>
(* The threshold passes or a steer arrives: resumeDeliveries. *)
FgBackgrounds(j) ==
    LET i == id[j]
        k == rows[i]
        pending == \E d \in Jobs : id[d] = i /\ place[d] \in Pending
    IN /\ j \in fg \cap live
       /\ fg' = fg \ {j}
       /\ suppressed' = suppressed \ {i}
       /\ place' = IF /\ i \in suppressed \ watched /\ k # None
                      /\ status[k] = "completed" /\ ~pending
                   THEN [place EXCEPT ![k] = "queued"] ELSE place
       /\ UNCHANGED <<table, watched, consumed, stamp, session, hub, hubAt, model, crossed>>

-----------------------------------------------------------------------------
(* The hub tool.                                                           *)

(* buildJobResult over the jobs K: the results of those that have settled  *)
(* and are not consumed are shown, and their deliveries silenced.          *)
Answer(K) ==
    LET over == {k \in K : ~Running(k)}
    IN /\ seen' = seen \cup {k \in over : k \notin live /\ id[k] \notin consumed}
       /\ Acknowledge({id[k] : k \in over})
       /\ consumed' = Consume({id[k] : k \in over})

(* A wait watches the running ones of the jobs it is asked about. *)
HubWait(J) ==
    /\ ToolsMayRun /\ hub = {}
    /\ J \subseteq RowJobs /\ \E j \in J : Running(j)
    /\ hub' = J /\ hubAt' = "racing"
    /\ watched' = watched \cup {id[j] : j \in {k \in J : Running(k)}}
    /\ UNCHANGED <<table, suppressed, consumed, delivery, session, fg, model, crossed>>

(* A watched job settled, the window elapsed or the call was aborted:      *)
(* unwatchJobs, and then the bus waiter is awaited.                        *)
HubUnwatch ==
    /\ hubAt = "racing" /\ hubAt' = "leaving"
    /\ watched' = watched \ {id[j] : j \in hub}
    /\ UNCHANGED <<table, suppressed, consumed, delivery, session, fg, hub, model, crossed>>

(* The answer shows the rows, or the jobs themselves if they were evicted. *)
HubAnswer ==
    /\ hubAt = "leaving" /\ hub' = {} /\ hubAt' = "no"
    /\ Answer({IF rows[id[j]] = None THEN j ELSE rows[id[j]] : j \in hub})
    /\ UNCHANGED <<table, watched, stamp, session, fg, discards, crossed>>

(* A peer's message wins the race: the answer is the message alone. *)
HubMessage ==
    /\ hubAt = "racing" /\ hub' = {} /\ hubAt' = "no"
    /\ PhotoFinish \/ \A i \in watched : rows[i] \in live
    /\ watched' = watched \ {id[j] : j \in hub}
    /\ UNCHANGED <<table, suppressed, consumed, delivery, session, fg, model, crossed>>

(* The jobs operation, or a wait on settled jobs. *)
Snapshot(J) ==
    /\ ToolsMayRun
    /\ J # {} /\ J \subseteq RowJobs
    /\ Answer(J)
    /\ UNCHANGED <<table, watched, stamp, session, tools, discards, crossed>>

(* The cancel operation on a running job; its answer silences the id. *)
HubCancel(i) ==
    /\ ToolsMayRun
    /\ rows[i] # None /\ Running(rows[i])
    /\ Cancelled(i) /\ Acknowledge({i})
    /\ UNCHANGED <<rows, id, live, watched, consumed, stamp, session, tools, model, crossed>>

-----------------------------------------------------------------------------
(* A session transition: cancelOwnAsyncJobs, after the run was aborted.    *)

(* Running jobs are cancelled, the rows and the queued deliveries of       *)
(* completed ones dropped, and the entries of the yield queue rejected.    *)
Reset ==
    LET gone == {i \in Ids : rows[i] # None /\ status[rows[i]] = "completed"}
    IN /\ epoch < MaxResets /\ NoTools /\ ToolsMayRun
       /\ epoch' = epoch + 1
       /\ status' = [j \in Jobs |->
            IF j \in RowJobs /\ Running(j) THEN "cancelled" ELSE status[j]]
       /\ timers' = (timers \ gone)
                      \cup {i \in Ids : rows[i] # None /\ Running(rows[i])}
       /\ rows' = [i \in Ids |-> IF i \in gone THEN None ELSE rows[i]]
       /\ suppressed' = suppressed \ gone /\ watched' = watched \ gone
       /\ consumed' = consumed \ gone
       /\ place' = [j \in Jobs |->
            IF place[j] \in {"queued", "entry"} /\ id[j] \in gone THEN "none"
            ELSE IF place[j] = "entry" THEN Retried(j) ELSE place[j]]
       /\ UNCHANGED <<id, live, stamp, born, tools, model, crossed>>

Next ==
    \/ \E j \in Jobs, i \in Ids : Register(j, i) \/ RegisterForeground(j, i)
    \/ \E j \in Jobs : Settle(j) \/ Deliver(j) \/ Format(j)
    \/ Drain \/ Commit \/ Discard
    \/ \E j \in Jobs : FgReturns(j) \/ FgAborts(j) \/ FgBackgrounds(j)
    \/ \E J \in SUBSET Jobs : HubWait(J) \/ Snapshot(J)
    \/ HubUnwatch \/ HubAnswer \/ HubMessage
    \/ \E i \in Ids : HubCancel(i) \/ Evict(i)
    \/ Reset

Spec == Init /\ [][Next]_vars

(* Sinks, timers and waits make progress, the agent loop polls at every    *)
(* boundary and settles what it holds.  Jobs may run for ever.             *)
Fairness ==
    /\ \A j \in Jobs : WF_vars(Deliver(j)) /\ WF_vars(Format(j))
    /\ SF_vars(Drain) /\ WF_vars(Commit)
    /\ \A j \in Jobs : WF_vars(FgReturns(j) \/ FgBackgrounds(j) \/ FgAborts(j))
    /\ WF_vars(HubUnwatch \/ HubMessage) /\ WF_vars(HubAnswer)

FairSpec == Spec /\ Fairness

-----------------------------------------------------------------------------
(* Properties.                                                             *)

(* The types, and what a waiting hub call is. *)
TypeOK ==
    /\ rows \in [Ids -> Jobs \cup {None}] /\ id \in [Jobs -> Ids \cup {None}]
    /\ status \in [Jobs -> {"new", "running", "completed", "cancelled"}]
    /\ live \subseteq Jobs
    /\ {timers, suppressed, watched, consumed} \subseteq SUBSET Ids
    /\ place \in [Jobs -> Pending \cup {"none"}]
    /\ stamp \in [Jobs -> 0..MaxResets] /\ born \in [Jobs -> 0..MaxResets]
    /\ epoch \in 0..MaxResets /\ discards \in 0..MaxDiscards
    /\ fg \subseteq Jobs /\ hub \subseteq Jobs /\ seen \subseteq Jobs /\ crossed \subseteq Jobs
    /\ hubAt \in {"no", "racing", "leaving"} /\ (hub = {} <=> hubAt = "no")
    /\ \A j \in Jobs : id[j] = None <=> status[j] = "new"
    /\ \A j \in Jobs : status[j] = "new" => j \notin live \cup fg \cup hub
    /\ \A j \in Jobs : place[j] \in Pending => status[j] # "new"

(* A job that completed in this session and that the model was not told    *)
(* of is on its way to the model: its delivery is pending or a tool call   *)
(* that will show it is waiting.  Every way that silences another one must *)
(* lead to the model itself, whatever lingers of earlier uses of its id.   *)
ResultNotLost ==
    \A j \in Jobs \ crossed :
        status[j] = "completed" /\ born[j] = epoch /\ j \notin seen =>
            place[j] \in Pending \/ j \in fg \cup hub

(* The agent loop never holds a result the model already has: a snapshot,  *)
(* a foreground wait and a delivery of one result exclude each other,      *)
(* wherever the delivery is when the snapshot is taken.                    *)
NoReplay == \A j \in DeliveryAt("held") \ crossed : j \notin seen

(* A result of a replaced session is never injected into the transcript of *)
(* the next one, not even while it is being formatted during the change    *)
(* and its id is given to a job of the next session.                       *)
OwnSession == \A j \in DeliveryAt("held") \ crossed : born[j] = epoch

(* A running job keeps its row: it can be listed, waited for and cancelled *)
(* under its id, whatever deliveries of earlier jobs of the id do.         *)
RunningHasRow == \A j \in Jobs \ crossed : Running(j) => rows[id[j]] = j

(* An id speaks of one job: a running job keeps its row, and what is       *)
(* injected was neither seen before nor produced in another session.  The  *)
(* jobs in crossed, which an overlap of two uses of an id has reached, are *)
(* excepted: the code protects the others by rows, marks and epochs.       *)
IdsMatch == RunningHasRow /\ NoReplay /\ OwnSession

(* The row of a job that is not running has a retention timer: rows and    *)
(* results are not kept for ever.                                          *)
RowsExpire == \A i \in Ids : rows[i] # None /\ ~Running(rows[i]) => i \in timers

(* A job that completes is made known to the model, or its session ends.   *)
EventuallyKnown ==
    \A j \in Jobs :
        status[j] = "completed" ~> (j \in seen \cup crossed \/ born[j] # epoch)
=============================================================================
