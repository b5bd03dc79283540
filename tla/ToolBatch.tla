----------------------------- MODULE ToolBatch -----------------------------
(***************************************************************************)
(* One assistant turn's batch of tool calls: executeToolCalls in           *)
(* packages/agent/src/agent-loop.ts, with the steering queue of            *)
(* packages/agent/src/agent.ts that may interrupt it and the process-wide  *)
(* gate of packages/agent/src/pause.ts that may park it.                   *)
(*                                                                         *)
(* Calls are numbered in the order the assistant emitted them.  Every      *)
(* promise continuation is an action; what the code does between two       *)
(* awaits is one step.  Three kinds of process interleave: the calls       *)
(* themselves, the steering watcher, and the timer that polls peer         *)
(* interrupts; the host steers, retracts, pauses, resumes and aborts at    *)
(* any moment.                                                             *)
(***************************************************************************)
EXTENDS Integers

CONSTANTS
    N,            \* number of tool calls in the batch
    Batches,      \* the batches considered: functions from Calls to Kinds
    MaxSteers,    \* bound on the steering queue's length
    Immediate,    \* interruptMode # "wait"
    EventDriven,  \* the host provides waitForSteeringMessages
    Hook,         \* the host provides afterToolCall
    HasIrc,       \* the host provides hasIrcInterrupts, and peers use it
    CanPause,     \* somebody uses the pause gate
    PeekMayFail   \* the host's hasSteeringMessages may throw

Calls == 1..N

(* What the prepare phase may record for a call: arguments that validate,  *)
(* arguments that do not (a missing tool included), or a veto or an        *)
(* exception of the beforeToolCall hook.                                   *)
Preparations == {"ok", "invalid", "refused"}

(* What scheduling and dispatch know of a call: its concurrency mode,      *)
(* whether it is a pure wait that a message may cut short, and its         *)
(* preparation.                                                            *)
Kinds == [exclusive : BOOLEAN, interruptible : BOOLEAN, prepared : Preparations]

ASSUME BatchAssumption ==
    /\ N \in Nat \ {0}
    /\ Batches \subseteq [Calls -> Kinds]
    /\ MaxSteers \in Nat
    /\ {Immediate, EventDriven, Hook, HasIrc, CanPause, PeekMayFail} \subseteq BOOLEAN

VARIABLES
    kind,         \* the batch: Calls -> Kinds, fixed when it starts
    pc,           \* where each call's runTool stands
    invoked,      \* executionStarted: tool.execute was called
    completed,    \* completedToolExecution: tool.execute returned a value
    isError,      \* the error flag of the result under construction
    result,       \* what the emitted tool result says ("none": not emitted)
    answers,      \* results emitted for each call (emittedToolResults)
    extAborted,   \* the run's own AbortSignal
    steerAborted, \* steeringAbortController
    ircAborted,   \* ircAbortController
    triggered,    \* interruptState.triggered
    peek,         \* per checker, the interrupt check it is in the middle of
    watch,        \* the event-driven watcher's loop
    woken,        \* the watcher's steering waiter has been resolved
    batch,        \* the batch as executeToolCalls' body sees it
    steers,       \* length of the host's steering queue
    irc,          \* a peer interrupt is pending in the session
    paused        \* the pause gate is engaged

callVars  == <<pc, invoked, completed, isError, result, answers>>
interrupt == <<steerAborted, ircAborted, triggered>>
watchVars == <<peek, watch, woken>>
host      == <<extAborted, steers, irc, paused>>
vars      == <<kind, callVars, interrupt, watchVars, batch, host>>

(* The processes that look for interrupts: each call after it finishes,    *)
(* the watcher and the poll timer.                                         *)
Watcher  == 0
Timer    == -1
Checkers == Calls \cup {Watcher, Timer}

PcStates == {"waiting", "parked", "running", "hook", "settling", "checking",
             "done", "failed", "cut"}
(* "invalid", "error" and "ok" carry what really happened; "aborted" and   *)
(* "synthetic" claim the tool never ran, "interrupted" that it was cut     *)
(* short while running.                                                    *)
Results    == {"none", "invalid", "aborted", "synthetic", "interrupted", "error", "ok"}
PeekStates == {"idle", "ask", "steer", "quiet", "irc"}

Init ==
    /\ kind \in Batches
    /\ pc = [c \in Calls |-> "waiting"]
    /\ invoked = [c \in Calls |-> FALSE]
    /\ completed = [c \in Calls |-> FALSE]
    /\ isError = [c \in Calls |-> FALSE]
    /\ result = [c \in Calls |-> "none"]
    /\ answers = [c \in Calls |-> 0]
    /\ extAborted \in BOOLEAN
    /\ steerAborted = FALSE
    /\ ircAborted = FALSE
    /\ triggered = FALSE
    /\ peek = [a \in Checkers |-> "idle"]
    /\ watch = IF Immediate /\ EventDriven THEN "top" ELSE "gone"
    /\ woken = FALSE
    /\ batch = "running"
    /\ steers \in 0..MaxSteers
    /\ irc = FALSE
    /\ paused \in {CanPause, FALSE}

-----------------------------------------------------------------------------
(* Scheduling: start = exclusive ? Promise.all([lastExclusive,             *)
(* ...sharedTasks]) : lastExclusive.                                       *)

Conflict(i, j) == kind[i].exclusive \/ kind[j].exclusive

Deps_ForgetsShared(j) ==
    {i \in 1..(j-1) : /\ kind[i].exclusive
                      /\ \A k \in (i+1)..(j-1) : ~kind[k].exclusive}
(* The tasks a call's start promise waits for: those it conflicts with,    *)
(* back to the last exclusive call before it.                              *)
Deps(j) ==
    {i \in 1..(j-1) : /\ Conflict(i, j)
                      /\ \A k \in (i+1)..(j-1) : ~kind[k].exclusive}

Ready(c) == pc[c] = "waiting" /\ \A d \in Deps(c) : pc[d] = "done"

(* The signal a call observes: interruptible calls see all three           *)
(* controllers, the others only the run's own.                             *)
OwnAborted_EverySignal(c) == extAborted \/ steerAborted \/ ircAborted
OwnAborted(c) ==
    extAborted \/ (kind[c].interruptible /\ (steerAborted \/ ircAborted))

(* emitToolResult *)
Emit(c, r) ==
    /\ result' = [result EXCEPT ![c] = r]
    /\ answers' = [answers EXCEPT ![c] = @ + 1]

Goto(c, l) == pc' = [pc EXCEPT ![c] = l]

-----------------------------------------------------------------------------
(* A call's run: runTool.                                                  *)

(* A rejected dependency rejects the start promise: the call never runs.   *)
Cut(c) ==
    /\ pc[c] = "waiting"
    /\ \E d \in Deps(c) : pc[d] \in {"failed", "cut"}
    /\ Goto(c, "cut")
    /\ UNCHANGED <<kind, invoked, completed, isError, result, answers,
                   interrupt, watchVars, batch, host>>

(* A pending interrupt preempts a wait that has not started.  No result    *)
(* is emitted here: the sweep after the batch owes it one.                 *)
Preempted_Any(c) == triggered
Preempted(c) == triggered /\ kind[c].interruptible

Preempt(c) ==
    /\ Ready(c)
    /\ Preempted(c)
    /\ Goto(c, "done")
    /\ UNCHANGED <<kind, invoked, completed, isError, result, answers,
                   interrupt, watchVars, batch, host>>

Park(c) ==
    /\ Ready(c)
    /\ ~Preempted(c)
    /\ paused
    /\ Goto(c, "parked")
    /\ UNCHANGED <<kind, invoked, completed, isError, result, answers,
                   interrupt, watchVars, batch, host>>

(* Where execution stands once the tool has settled: afterToolCall runs    *)
(* unless the signal fired before the tool produced anything.              *)
AfterExecution(c, didComplete) ==
    IF Hook /\ (~OwnAborted(c) \/ didComplete) THEN "hook" ELSE "settling"

StopsShort_Never(c) == FALSE
(* record.signal.aborted, checked again after the gate. *)
StopsShort(c) == OwnAborted(c)

(* From the pause gate to the call of tool.execute, in one tick.           *)
Dispatch(c) ==
    \/ /\ kind[c].prepared = "invalid"
       /\ Goto(c, "done")
       /\ Emit(c, "invalid")
       /\ UNCHANGED <<invoked, completed, isError>>
    \/ /\ kind[c].prepared # "invalid"
       /\ StopsShort(c)
       /\ Goto(c, "done")
       /\ Emit(c, "aborted")
       /\ UNCHANGED <<invoked, completed, isError>>
    \/ /\ kind[c].prepared = "refused"
       /\ ~StopsShort(c)
       /\ Goto(c, AfterExecution(c, FALSE))
       /\ isError' = [isError EXCEPT ![c] = TRUE]
       /\ UNCHANGED <<invoked, completed, result, answers>>
    \/ /\ kind[c].prepared = "ok"
       /\ ~StopsShort(c)
       /\ Goto(c, "running")
       /\ invoked' = [invoked EXCEPT ![c] = TRUE]
       /\ UNCHANGED <<completed, isError, result, answers>>

Start(c) ==
    /\ Ready(c)
    /\ ~Preempted(c)
    /\ ~paused
    /\ Dispatch(c)
    /\ UNCHANGED <<kind, interrupt, watchVars, batch, host>>

(* waitUntilResumed returns when the gate is open, or for this call alone  *)
(* when its own signal fires.                                              *)
Unparked_GateOnly(c) == ~paused
Unparked(c) == ~paused \/ OwnAborted(c)

Unpark(c) ==
    /\ pc[c] = "parked"
    /\ Unparked(c)
    /\ Dispatch(c)
    /\ UNCHANGED <<kind, interrupt, watchVars, batch, host>>

(* tool.execute resolves, with a good or an error result.                  *)
Return(c) ==
    /\ pc[c] = "running"
    /\ completed' = [completed EXCEPT ![c] = TRUE]
    /\ \E bad \in BOOLEAN : isError' = [isError EXCEPT ![c] = bad]
    /\ Goto(c, AfterExecution(c, TRUE))
    /\ UNCHANGED <<kind, invoked, result, answers, interrupt, watchVars, batch, host>>

(* tool.execute rejects: its own failure, or its answer to the signal.     *)
Throw(c) ==
    /\ pc[c] = "running"
    /\ isError' = [isError EXCEPT ![c] = TRUE]
    /\ Goto(c, AfterExecution(c, FALSE))
    /\ UNCHANGED <<kind, invoked, completed, result, answers, interrupt,
                   watchVars, batch, host>>

(* afterToolCall returns; it may override the error flag, and a hook that  *)
(* throws sets it.                                                         *)
HookReturns(c) ==
    /\ pc[c] = "hook"
    /\ \E bad \in BOOLEAN : isError' = [isError EXCEPT ![c] = bad]
    /\ Goto(c, "settling")
    /\ UNCHANGED <<kind, invoked, completed, result, answers, interrupt,
                   watchVars, batch, host>>

Verdict_SkipsFinished(c) ==
    IF triggered /\ OwnAborted(c) /\ isError[c]
    THEN IF invoked[c] THEN "interrupted" ELSE "synthetic"
    ELSE IF isError[c] THEN "error" ELSE "ok"
(* A result is replaced by a skip only when an interrupt is pending, the   *)
(* call's own signal fired and the tool produced nothing.                  *)
Verdict(c) ==
    IF triggered /\ OwnAborted(c) /\ isError[c] /\ ~completed[c]
    THEN IF invoked[c] THEN "interrupted" ELSE "synthetic"
    ELSE IF isError[c] THEN "error" ELSE "ok"

(* The result is emitted and, in the same tick, checkSteering begins.      *)
Settle(c) ==
    /\ pc[c] = "settling"
    /\ Emit(c, Verdict(c))
    /\ IF ~Immediate \/ extAborted
       THEN Goto(c, "done") /\ UNCHANGED peek
       ELSE Goto(c, "checking") /\ peek' = [peek EXCEPT ![c] = "ask"]
    /\ UNCHANGED <<kind, invoked, completed, isError, interrupt, watch, woken, batch, host>>

-----------------------------------------------------------------------------
(* Looking for interrupts: checkSteering and checkIrcInterrupts, run by    *)
(* checker a.  Each awaits the host between reading a queue and acting on  *)
(* what it read.                                                           *)

(* A checker's check is over: a call's task settles with it, the watcher   *)
(* goes on to wait or leaves.                                              *)
CheckEnds(a, ok) ==
    /\ peek' = [peek EXCEPT ![a] = "idle"]
    /\ pc' = IF a \in Calls
             THEN [pc EXCEPT ![a] = IF ok THEN "done" ELSE "failed"]
             ELSE pc
    /\ watch' = IF a = Watcher /\ watch = "checking"
                THEN IF ok THEN "checked" ELSE "gone"
                ELSE watch

PeekSteering(a) ==
    /\ peek[a] = "ask"
    /\ peek' = [peek EXCEPT ![a] = IF steers > 0 THEN "steer" ELSE "quiet"]
    /\ UNCHANGED <<kind, callVars, interrupt, watch, woken, batch, host>>

PeekFails(a) ==
    /\ PeekMayFail
    /\ peek[a] = "ask"
    /\ CheckEnds(a, FALSE)
    /\ UNCHANGED <<kind, invoked, completed, isError, result, answers,
                   interrupt, woken, batch, host>>

ActOnSteering(a) ==
    /\ peek[a] = "steer"
    /\ steerAborted' = TRUE
    /\ triggered' = TRUE
    /\ CheckEnds(a, TRUE)
    /\ UNCHANGED <<kind, invoked, completed, isError, result, answers,
                   ircAborted, woken, batch, host>>

PeekIrc(a) ==
    /\ peek[a] = "quiet"
    /\ IF ~extAborted /\ ~triggered /\ irc
       THEN /\ peek' = [peek EXCEPT ![a] = "irc"]
            /\ UNCHANGED <<pc, watch>>
       ELSE CheckEnds(a, TRUE)
    /\ UNCHANGED <<kind, invoked, completed, isError, result, answers,
                   interrupt, woken, batch, host>>

ActOnIrc(a) ==
    /\ peek[a] = "irc"
    /\ ircAborted' = TRUE
    /\ triggered' = TRUE
    /\ CheckEnds(a, TRUE)
    /\ UNCHANGED <<kind, invoked, completed, isError, result, answers,
                   steerAborted, woken, batch, host>>

Check(a) == PeekSteering(a) \/ PeekFails(a) \/ ActOnSteering(a) \/ PeekIrc(a) \/ ActOnIrc(a)

(* The interval timer.  With the event-driven watcher it polls only the    *)
(* peer queue.                                                             *)
TimerFires ==
    /\ batch = "running"
    /\ Immediate
    /\ ~EventDriven \/ HasIrc
    /\ peek[Timer] = "idle"
    /\ ~extAborted
    /\ peek' = [peek EXCEPT ![Timer] = IF EventDriven THEN "quiet" ELSE "ask"]
    /\ UNCHANGED <<kind, callVars, interrupt, watch, woken, batch, host>>

-----------------------------------------------------------------------------
(* The event-driven watcher.                                               *)

(* steeringWatchSignal: the run's signal, or the batch having settled.     *)
WatchAborted == extAborted \/ batch # "running"

(* waitForSteeringMessages is called before the queue is checked; it       *)
(* resolves at once when a message is already queued.                      *)
WatchSubscribes ==
    /\ watch = "top"
    /\ ~WatchAborted
    /\ watch' = "checking"
    /\ woken' = (steers > 0)
    /\ peek' = [peek EXCEPT ![Watcher] = "ask"]
    /\ UNCHANGED <<kind, callVars, interrupt, batch, host>>

WatchSleeps ==
    /\ watch = "checked"
    /\ ~WatchAborted
    /\ watch' = IF triggered THEN "gone" ELSE "waiting"
    /\ UNCHANGED <<kind, callVars, interrupt, peek, woken, batch, host>>

WatchWakes ==
    /\ watch = "waiting"
    /\ woken
    /\ watch' = "top"
    /\ UNCHANGED <<kind, callVars, interrupt, peek, woken, batch, host>>

(* Every wait of the watcher races the abort; a check still in flight is   *)
(* abandoned, not cancelled.                                               *)
WatchLeaves ==
    /\ watch # "gone"
    /\ WatchAborted
    /\ watch' = "gone"
    /\ UNCHANGED <<kind, callVars, interrupt, peek, woken, batch, host>>

-----------------------------------------------------------------------------
(* The end of the batch: Promise.allSettled, the watcher's teardown, and   *)
(* the sweep that answers every call still without a result.               *)

TasksOver_FirstFailure ==
    \/ \A c \in Calls : pc[c] \in {"done", "failed", "cut"}
    \/ \E c \in Calls : pc[c] \in {"failed", "cut"}
TasksOver == \A c \in Calls : pc[c] \in {"done", "failed", "cut"}

AllSettled ==
    /\ batch = "running"
    /\ TasksOver
    /\ batch' = "settled"
    /\ UNCHANGED <<kind, callVars, interrupt, watchVars, host>>

Unanswered == {c \in Calls : result[c] = "none"}

Sweep ==
    /\ batch = "settled"
    /\ watch = "gone"
    /\ batch' = "returned"
    /\ result' = [c \in Calls |-> IF c \in Unanswered THEN "synthetic" ELSE result[c]]
    /\ answers' = [c \in Calls |-> IF c \in Unanswered THEN answers[c] + 1 ELSE answers[c]]
    /\ UNCHANGED <<kind, pc, invoked, completed, isError, interrupt, watchVars, host>>

-----------------------------------------------------------------------------
(* The host.                                                               *)

Notify_Lost == woken' = woken
(* notifySteeringWaiters *)
Notify == woken' = TRUE

Steer ==
    /\ batch = "running"
    /\ steers < MaxSteers
    /\ steers' = steers + 1
    /\ Notify
    /\ UNCHANGED <<kind, callVars, interrupt, peek, watch, batch, extAborted, irc, paused>>

(* popLastSteer wakes nobody, clearSteeringQueue does. *)
PopLastSteer ==
    /\ batch = "running"
    /\ steers > 0
    /\ steers' = steers - 1
    /\ UNCHANGED <<kind, callVars, interrupt, watchVars, batch, extAborted, irc, paused>>

ClearSteering ==
    /\ batch = "running"
    /\ steers > 0
    /\ steers' = 0
    /\ Notify
    /\ UNCHANGED <<kind, callVars, interrupt, peek, watch, batch, extAborted, irc, paused>>

PeerInterrupts ==
    /\ HasIrc
    /\ batch = "running"
    /\ ~irc
    /\ irc' = TRUE
    /\ UNCHANGED <<kind, callVars, interrupt, watchVars, batch, extAborted, steers, paused>>

Pause ==
    /\ CanPause
    /\ batch = "running"
    /\ ~paused
    /\ paused' = TRUE
    /\ UNCHANGED <<kind, callVars, interrupt, watchVars, batch, extAborted, steers, irc>>

Resume ==
    /\ paused
    /\ paused' = FALSE
    /\ UNCHANGED <<kind, callVars, interrupt, watchVars, batch, extAborted, steers, irc>>

Abort ==
    /\ batch # "returned"
    /\ ~extAborted
    /\ extAborted' = TRUE
    /\ UNCHANGED <<kind, callVars, interrupt, watchVars, batch, steers, irc, paused>>

-----------------------------------------------------------------------------
RunTool(c) ==
    \/ Cut(c) \/ Preempt(c) \/ Park(c) \/ Start(c) \/ Unpark(c)
    \/ Return(c) \/ Throw(c) \/ HookReturns(c) \/ Settle(c)

Watch == WatchSubscribes \/ WatchSleeps \/ WatchWakes \/ WatchLeaves

Host == Steer \/ PopLastSteer \/ ClearSteering \/ PeerInterrupts \/ Pause \/ Resume \/ Abort

(* Nothing more happens to the batch once it has returned. *)
Returned == batch = "returned" /\ UNCHANGED vars

Next ==
    \/ \E c \in Calls : RunTool(c)
    \/ \E a \in Checkers : Check(a)
    \/ TimerFires
    \/ Watch
    \/ AllSettled
    \/ Sweep
    \/ Host
    \/ Returned

Spec == Init /\ [][Next]_vars

(* Continuations whose promise has resolved run; interval timers fire.     *)
(* A tool is trusted to settle only once its own signal has fired, an      *)
(* afterToolCall hook and the host's queue peeks always.                   *)
Continues(c) ==
    \/ Cut(c) \/ Preempt(c) \/ Park(c) \/ Start(c) \/ Unpark(c)
    \/ HookReturns(c) \/ Settle(c)

Fairness ==
    /\ \A c \in Calls : /\ WF_vars(Continues(c))
                        /\ WF_vars(OwnAborted(c) /\ (Return(c) \/ Throw(c)))
    /\ \A a \in Checkers : WF_vars(Check(a))
    /\ WF_vars(TimerFires)
    /\ WF_vars(Watch)
    /\ WF_vars(AllSettled \/ Sweep)

FairSpec == Spec /\ Fairness

-----------------------------------------------------------------------------
(* Every variable has its type. *)
TypeOK ==
    /\ kind \in [Calls -> Kinds]
    /\ pc \in [Calls -> PcStates]
    /\ invoked \in [Calls -> BOOLEAN]
    /\ completed \in [Calls -> BOOLEAN]
    /\ isError \in [Calls -> BOOLEAN]
    /\ result \in [Calls -> Results]
    /\ answers \in [Calls -> Nat]
    /\ extAborted \in BOOLEAN
    /\ steerAborted \in BOOLEAN
    /\ ircAborted \in BOOLEAN
    /\ triggered \in BOOLEAN
    /\ peek \in [Checkers -> PeekStates]
    /\ watch \in {"top", "checking", "checked", "waiting", "gone"}
    /\ woken \in BOOLEAN
    /\ batch \in {"running", "settled", "returned"}
    /\ steers \in 0..MaxSteers
    /\ irc \in BOOLEAN
    /\ paused \in BOOLEAN

(* The call's turn came: its runTool has begun. *)
Begun(c) == pc[c] \notin {"waiting", "cut"}

(* Two calls of which one is exclusive never overlap and keep the order    *)
(* the assistant gave them, across any number of shared calls in between:  *)
(* the later one begins only when the earlier one is over, interrupt check *)
(* included (lastExclusive and sharedTasks carry this between calls).      *)
SerialOrder ==
    \A i, j \in Calls : i < j /\ Conflict(i, j) /\ Begun(j) => pc[i] = "done"

(* When the batch returns every call has exactly one result, whatever was  *)
(* skipped, cut, interrupted or aborted on the way: a provider rejects a   *)
(* history in which a tool call has no result or two.                      *)
EveryCallAnsweredOnce ==
    batch = "returned" =>
        \A c \in Calls : answers[c] = 1 /\ result[c] # "none"

HonestResult(c) ==
    /\ completed[c] /\ result[c] # "none" => result[c] \in {"ok", "error"}
    /\ result[c] \in {"invalid", "aborted", "synthetic"} => ~invoked[c]
    /\ result[c] = "interrupted" => invoked[c]

(* A result tells the model the truth about side effects: a tool that ran  *)
(* to completion is never reported as skipped (#4752), a result that says  *)
(* the tool was not executed is only given to one that never was, and      *)
(* "interrupted" only to one that was running.                             *)
HonestResults == \A c \in Calls : HonestResult(c)

(* Queued messages never cost a non-interruptible call its execution       *)
(* (#10439, #7493, #10645): unless the run itself was aborted or a host    *)
(* callback failed, every such call with valid arguments has run when the  *)
(* batch returns, and none was told it was skipped.                        *)
SteeringSparesForeground ==
    \A c \in Calls :
        /\ batch = "returned" /\ ~extAborted
        /\ \A d \in Calls : pc[d] = "done"
        /\ ~kind[c].interruptible
        => /\ kind[c].prepared = "ok" => invoked[c]
           /\ result[c] \notin {"aborted", "synthetic", "interrupted"}

(* Once an interrupt is recorded no wait that can yield to it starts, not  *)
(* even one released from the pause gate.                                  *)
InterruptStopsWaits ==
    [][\A c \in Calls :
        triggered /\ kind[c].interruptible /\ ~invoked[c] => ~invoked'[c]]_vars

(* While the gate is engaged no tool starts, although an abort may release *)
(* a parked call without opening the gate.                                 *)
PauseHoldsTools ==
    [][\A c \in Calls : paused /\ ~invoked[c] => ~invoked'[c]]_vars

(* No call acts on what it saw before it parked at the gate: neither an    *)
(* interrupt recorded meanwhile nor a pause still in force lets it start.  *)
NoStaleStart == InterruptStopsWaits /\ PauseHoldsTools

(* What the comment on Agent.steer says of a queued message: it "skips     *)
(* remaining tools", so that once it is noticed no further call starts.    *)
(* The code skips only interruptible waits.                                *)
SteerSkipsRemainingTools ==
    [][\A c \in Calls : triggered /\ ~invoked[c] => ~invoked'[c]]_vars

(* No lost wake-up: a message that stays queued cuts every interruptible   *)
(* tool that is running short, however its arrival interleaves with the    *)
(* watcher's subscription.                                                 *)
SteerUnblocksWaits ==
    \A c \in Calls :
        steers > 0 /\ pc[c] = "running" /\ kind[c].interruptible
            ~> pc[c] # "running" \/ steers = 0

(* An aborted run always unwinds, a paused process included.               *)
AbortUnwinds == extAborted ~> batch = "returned"

-----------------------------------------------------------------------------
(* The batch implements the contract of BatchContract. *)

Life(c) ==
    CASE completed[c]                                        -> "ran"
      [] invoked[c] /\ ~completed[c] /\ pc[c] = "running"    -> "running"
      [] invoked[c] /\ ~completed[c] /\ pc[c] # "running"    -> "broken"
      [] ~invoked[c] /\ pc[c] \in {"waiting", "parked"}      -> "pending"
      [] OTHER                                               -> "forgone"

Told(c) ==
    CASE result[c] \in {"ok", "error", "invalid"} -> "outcome"
      [] result[c] = "interrupted"                -> "cutShort"
      [] result[c] \in {"aborted", "synthetic"}   -> "notRun"
      [] OTHER                                    -> "nothing"

Contract == INSTANCE BatchContract WITH
    exclusive <- [c \in Calls |-> kind[c].exclusive],
    life      <- [c \in Calls |-> Life(c)],
    told      <- [c \in Calls |-> Told(c)],
    returned  <- batch = "returned"

(* Every behaviour of the batch is one the contract allows: interrupts,    *)
(* aborts, failed checks and the final sweep never run a call out of turn, *)
(* answer it falsely, answer it twice or let it run after the return.      *)
ImplementsContract == Contract!Spec

-----------------------------------------------------------------------------
(* The inductive invariant behind the safety properties.                   *)

(* The task's promise has settled. *)
Over(c) == pc[c] \in {"done", "failed", "cut"}

(* Each call's flags agree with the place its runTool has reached. *)
CallInv(c) ==
    /\ answers[c] = IF result[c] = "none" THEN 0 ELSE 1
    /\ pc[c] \in {"waiting", "parked", "running", "hook", "settling"} => result[c] = "none"
    /\ pc[c] = "cut" /\ batch # "returned" => result[c] = "none"
    /\ pc[c] \in {"waiting", "parked", "cut"} => ~invoked[c]
    /\ pc[c] = "running" => invoked[c] /\ ~completed[c]
    /\ completed[c] => invoked[c]
    /\ invoked[c] /\ pc[c] \in {"checking", "done", "failed"} => result[c] # "none"
    /\ batch # "running" => Over(c)
    /\ batch = "returned" => result[c] # "none"
    /\ peek[c] # "idle" <=> pc[c] = "checking"

(* A call that has begun found every task it waits for fulfilled. *)
StartedInTurn ==
    \A j \in Calls : Begun(j) => \A d \in Deps(j) : pc[d] = "done"

(* A recorded interrupt has aborted the waits' signal. *)
TriggerAborts == triggered => steerAborted \/ ircAborted

(* As long as the run is not aborted, a foreground call that got its turn  *)
(* runs, and is told what became of it.                                    *)
ForegroundInv(c) ==
    ~kind[c].interruptible /\ Begun(c) /\ pc[c] # "parked" =>
        /\ pc[c] \in {"checking", "done", "failed"} => result[c] # "none"
        /\ ~extAborted => /\ kind[c].prepared = "ok" => invoked[c]
                          /\ result[c] \notin {"aborted", "synthetic", "interrupted"}

IInv ==
    /\ TypeOK
    /\ \A c \in Calls : CallInv(c) /\ ForegroundInv(c) /\ HonestResult(c)
    /\ StartedInTurn
    /\ SerialOrder
    /\ TriggerAborts
=============================================================================
