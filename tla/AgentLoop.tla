----------------------------- MODULE AgentLoop -----------------------------
(***************************************************************************)
(* The agent loop: runLoopBody in packages/agent/src/agent-loop.ts and the *)
(* part of packages/agent/src/agent.ts that starts it (prompt, continue,   *)
(* #runLoop) and owns the queues it drains.                                *)
(*                                                                         *)
(* What is followed is every message somebody queues for the model: a      *)
(* steering message, a follow-up, an aside.  The loop takes messages out   *)
(* of their queues at a few boundaries, keeps them in local variables      *)
(* across awaits, commits them to the context before a model call, and may *)
(* end at many points in between: an abort, the deadline, a terminal tool  *)
(* result, a host callback that throws, a gate that stops the run.         *)
(*                                                                         *)
(* A step is what the code does between two awaits.  Tool batches are a    *)
(* single step here; module ToolBatch is about them.                       *)
(***************************************************************************)
EXTENDS Integers

CONSTANTS
    Steers, FollowUps, Asides, \* messages, numbered in the order they are queued
    SteerOne, FollowOne,       \* the queue's mode is "one-at-a-time", not "all"
    HasDeadline,               \* the agent has a deadline
    HasGate,                   \* the host has a beforeModelCall gate
    HostMayFail,               \* host callbacks and the provider may throw
    ThunksMayFail,             \* an aside's thunk may throw
    Replays,                   \* the session may resume unpaired tool calls
    Leaks,                     \* replies may leak Harmony protocol text
    MaxAborts                  \* bound on the aborts considered

Queued == Steers \cup FollowUps   \* what the agent's own queues hold
Messages == Queued \cup Asides

ASSUME LoopAssumption ==
    /\ Messages \subseteq Nat
    /\ Steers \cap FollowUps = {} /\ Queued \cap Asides = {}
    /\ {SteerOne, FollowOne, HasDeadline, HasGate, HostMayFail, ThunksMayFail,
        Replays, Leaks} \subseteq BOOLEAN
    /\ MaxAborts \in Nat

VARIABLES
    pc,       \* the await the loop is at
    hooked,   \* the dequeue it awaits is running the host's dequeue hooks
    place,    \* where each message is
    more,     \* hasMoreToolCalls
    turnOpen, \* turnOpen
    retries,  \* harmonyRetryAttempt
    emitted,  \* messages whose message_start and message_end were pushed
    toEmit,   \* messagesToEmit, turnMessages: events still to be pushed
    aborted,  \* why the run's signal is aborted, "no" if it is not
    late,     \* Date.now() >= deadline
    aborts,   \* user aborts so far
    outcome   \* how the last run ended

events  == <<emitted, toEmit>>
signals == <<aborted, late, aborts>>
vars    == <<pc, hooked, place, more, turnOpen, retries, events, signals, outcome>>

(* A message is "unsent" until it is queued; "held" and "pending" are the  *)
(* loop's locals; "context" is committed and "answered" has been part of a *)
(* completed model call.  It leaves for good when the host takes it back   *)
(* ("retracted"), its producer drops it ("dropped"), its producer is told  *)
(* it was not inserted ("discarded"), or nobody is told ("lost").          *)
Places == {"unsent", "queued", "held", "pending", "context", "answered",
           "retracted", "dropped", "discarded", "lost"}

At(Q, l) == {m \in Q : place[m] = l}
Move(pl, S, l) == [m \in Messages |-> IF m \in S THEN l ELSE pl[m]]

Aborted == aborted # "no"

MaxRetries == 2   \* abort_retry attempts of runLoopBody

Init ==
    /\ pc = "idle" /\ hooked = FALSE
    /\ place = [m \in Messages |-> "unsent"]
    /\ more = FALSE /\ turnOpen = FALSE /\ retries = 0
    /\ emitted = {} /\ toEmit = {}
    /\ aborted = "no" /\ late = FALSE /\ aborts = 0
    /\ outcome = "none"

-----------------------------------------------------------------------------
(* Leaving and continuing.                                                 *)

Finish_NoDiscard(pl, em, how) ==
    /\ pc' = "idle" /\ hooked' = FALSE /\ more' = FALSE
    /\ place' = [m \in Messages |->
                   IF pl[m] \in {"held", "pending"} THEN "lost" ELSE pl[m]]
    /\ emitted' = em /\ toEmit' = {}
    /\ aborted' = "no" /\ outcome' = how
    /\ UNCHANGED <<late, aborts>>
(* The run ends: the finally block discards the asides among the pending   *)
(* messages; other messages in the loop's hands are gone.                  *)
Finish(pl, em, how) ==
    /\ pc' = "idle" /\ hooked' = FALSE /\ more' = FALSE
    /\ place' = [m \in Messages |->
                   IF pl[m] = "pending" /\ m \in Asides THEN "discarded"
                   ELSE IF pl[m] \in {"held", "pending"} THEN "lost" ELSE pl[m]]
    /\ emitted' = em /\ toEmit' = {}
    /\ aborted' = "no" /\ outcome' = how
    /\ UNCHANGED <<late, aborts>>

(* An exception: Agent.#runLoop closes the turn unless the run is aborted. *)
Threw(em) == HostMayFail /\ Finish(place, em, "threw")

(* Back to the loop heads with pending messages in pl and hasMoreToolCalls *)
(* as given: stop at the deadline, take another turn, or ask to yield.     *)
Loop(pl, m) ==
    LET again == m \/ \E x \in Messages : pl[x] = "pending"
    IN \/ /\ late
          /\ Finish(pl, IF again THEN emitted \cup toEmit ELSE emitted, "deadline")
       \/ /\ ~late
          /\ pc' = IF again THEN "yield" ELSE "beforeYield"
          /\ place' = pl /\ more' = m /\ hooked' = FALSE
          /\ UNCHANGED <<events, signals, outcome>>

-----------------------------------------------------------------------------
(* Dequeueing.                                                             *)

(* #dequeueSteeringMessagesAfterHooks and its sibling: an aborted run does *)
(* not ask; hooks run only for a queue that is not empty.                  *)
Ask(Q, at) ==
    /\ pc' = at
    /\ hooked' = (~Aborted /\ At(Q, "queued") # {})

Batch_Newest(Q, one) ==
    {m \in At(Q, "queued") : one => \A n \in At(Q, "queued") : n <= m}
(* #dequeueSteeringMessages: the oldest message, or all of them.           *)
Batch(Q, one) ==
    {m \in At(Q, "queued") : one => \A n \in At(Q, "queued") : m <= n}

Answer_NoRecheck(Q, one) == IF hooked THEN Batch(Q, one) ELSE {}
(* What the dequeue yields once the hooks are through: nothing if the run  *)
(* was aborted meanwhile.                                                  *)
Answer(Q, one) == IF hooked /\ ~Aborted THEN Batch(Q, one) ELSE {}

HookFails == hooked /\ HostMayFail

-----------------------------------------------------------------------------
(* Starting a run.                                                         *)

(* runLoopBody up to its first await; the messages that open the run are   *)
(* committed when it is called.                                            *)
Launch(opening, skip, at) ==
    LET pl == Move(place, opening, "context")
    IN /\ turnOpen' = FALSE /\ retries' = 0
       /\ \/ late /\ Finish(pl, emitted \cup opening, "deadline")
          \/ /\ ~late
             /\ pc' = at
             /\ hooked' = (~skip /\ ~Aborted /\ At(Steers, "queued") # {})
             /\ place' = pl /\ more' = FALSE
             /\ toEmit' = opening
             /\ UNCHANGED <<emitted, signals, outcome>>

(* Agent.prompt with a message of its own *)
Prompt == pc = "idle" /\ Launch({}, FALSE, "poll")

(* Agent.continue, by the kind of message the transcript ends with.        *)
ContinueOpen == pc = "idle" /\ Launch({}, FALSE, "poll")

ContinueReplay == pc = "idle" /\ Replays /\ Launch({}, FALSE, "tailPoll")

(* The deadline is part of the signal that guards the dequeue.             *)
ContinueAssistant ==
    /\ pc = "idle"
    /\ pc' = "contSteer"
    /\ hooked' = (~late /\ At(Steers, "queued") # {})
    /\ aborted' = IF late THEN "deadline" ELSE "no"
    /\ UNCHANGED <<place, more, turnOpen, retries, events, late, aborts, outcome>>

ContSteer_FollowUpsOnly ==
    /\ pc = "contSteer"
    /\ Ask(FollowUps, "contFollow")
    /\ UNCHANGED <<place, more, turnOpen, retries, events, signals, outcome>>
ContSteer ==
    /\ pc = "contSteer"
    /\ LET got == Answer(Steers, SteerOne)
       IN \/ got # {} /\ Launch(got, TRUE, "poll")
          \/ /\ got = {}
             /\ Ask(FollowUps, "contFollow")
             /\ UNCHANGED <<place, more, turnOpen, retries, events, signals, outcome>>

ContFollow ==
    /\ pc = "contFollow"
    /\ LET got == Answer(FollowUps, FollowOne)
       IN \/ got # {} /\ Launch(got, FALSE, "poll")
          \/ /\ got = {}
             /\ Finish(place, emitted, "threw")
             /\ UNCHANGED <<turnOpen, retries>>

(* A dequeue hook throws before the run has started.                       *)
ContHookFails ==
    /\ pc \in {"contSteer", "contFollow"} /\ HookFails
    /\ Finish(place, emitted, "threw")
    /\ UNCHANGED <<turnOpen, retries>>

(* The initial steering poll.                                              *)
Poll ==
    /\ pc \in {"poll", "tailPoll"}
    /\ LET pl == Move(place, Answer(Steers, SteerOne), "pending")
       IN \/ HookFails /\ Threw(emitted \cup toEmit) /\ turnOpen' = Aborted
          \/ pc = "poll" /\ Loop(pl, TRUE) /\ UNCHANGED turnOpen
          \/ /\ pc = "tailPoll"
             /\ pc' = "tail" /\ turnOpen' = TRUE
             /\ place' = pl /\ hooked' = FALSE
             /\ emitted' = emitted \cup toEmit /\ toEmit' = {}
             /\ UNCHANGED <<more, signals, outcome>>
    /\ UNCHANGED retries

(* The resumed tool calls have run; steering stays parked.                 *)
Tail ==
    /\ pc = "tail"
    /\ pc' = "tailEnd" /\ turnOpen' = FALSE
    /\ UNCHANGED <<hooked, place, more, retries, events, signals, outcome>>

TailEnd ==
    /\ pc = "tailEnd"
    /\ \/ Threw(emitted)
       \/ aborted = "terminal" /\ Finish(place, emitted, "terminal")
       \/ aborted # "terminal" /\ Loop(place, TRUE)
    /\ UNCHANGED <<turnOpen, retries>>

-----------------------------------------------------------------------------
(* A turn.                                                                 *)

Commit_ForgetsEvents ==
    /\ pc = "yield"
    /\ pc' = "prepare"
    /\ place' = Move(place, At(Messages, "pending"), "context")
    /\ UNCHANGED <<hooked, more, turnOpen, retries, events, signals, outcome>>
(* yieldIfDue and the pause gate are over: pending messages enter the      *)
(* context.                                                                *)
Commit ==
    /\ pc = "yield"
    /\ pc' = "prepare"
    /\ place' = Move(place, At(Messages, "pending"), "context")
    /\ toEmit' = toEmit \cup At(Messages, "pending")
    /\ UNCHANGED <<hooked, more, turnOpen, retries, emitted, signals, outcome>>

PrepareFails ==
    /\ pc = "prepare"
    /\ Threw(IF turnOpen THEN emitted ELSE emitted \cup toEmit)
    /\ turnOpen' = Aborted
    /\ UNCHANGED retries

(* beforeModelCall stops the run, or the run was aborted under it.         *)
GateStops ==
    /\ pc = "prepare" /\ HasGate
    /\ Finish(place, emitted \cup toEmit, "gate")
    /\ turnOpen' = FALSE
    /\ UNCHANGED retries

OpenTurn ==
    /\ pc = "prepare" /\ ~(HasGate /\ Aborted)
    /\ pc' = "calling" /\ turnOpen' = TRUE
    /\ emitted' = IF turnOpen THEN emitted ELSE emitted \cup toEmit
    /\ toEmit' = {}
    /\ UNCHANGED <<hooked, place, more, retries, signals, outcome>>

(* A reply that ends the run: stopReason "aborted" or "error".             *)
ReplyFails ==
    /\ pc = "model" \/ (pc = "calling" /\ Aborted)
    /\ Finish(place, emitted, "failed")
    /\ turnOpen' = FALSE
    /\ UNCHANGED retries

CallThrows ==
    /\ pc \in {"calling", "model"}
    /\ Threw(emitted)
    /\ turnOpen' = Aborted
    /\ UNCHANGED retries

OpenStream ==
    /\ pc = "calling" /\ ~Aborted
    /\ pc' = "model"
    /\ UNCHANGED <<hooked, place, more, turnOpen, retries, events, signals, outcome>>

(* A reply whose tool calls are run *)
ReplyWithTools ==
    /\ pc = "model" /\ ~late
    /\ pc' = "tools" /\ more' = TRUE /\ retries' = 0
    /\ place' = Move(place, At(Messages, "context"), "answered")
    /\ UNCHANGED <<hooked, turnOpen, events, signals, outcome>>

(* A reply that runs none: plain text, calls past the deadline, calls cut  *)
(* by the length limit, a detour from a soft-required tool, a paused turn. *)
(* The last three ask for another sample.                                  *)
ReplyWithout(resample) ==
    /\ pc = "model"
    /\ pc' = "turnEnd" /\ turnOpen' = FALSE
    /\ more' = resample /\ retries' = 0
    /\ place' = Move(place, At(Messages, "context"), "answered")
    /\ UNCHANGED <<hooked, events, signals, outcome>>

(* A leaked reply is thrown away and the loop continues, with the turn     *)
(* left open.                                                              *)
Leak ==
    /\ pc = "model" /\ Leaks /\ retries < MaxRetries
    /\ retries' = retries + 1
    /\ Loop(place, more)
    /\ UNCHANGED turnOpen

LeakPersists ==
    /\ pc = "model" /\ Leaks /\ retries = MaxRetries
    /\ Finish(place, emitted, "threw")
    /\ turnOpen' = Aborted
    /\ UNCHANGED retries

(* The tool batch has settled.                                             *)
ToolsSettle ==
    /\ pc = "tools"
    /\ pc' = "turnEnd" /\ turnOpen' = FALSE
    /\ more' = (aborted # "terminal")
    /\ UNCHANGED <<hooked, place, retries, events, signals, outcome>>

(* emitTurnEnd is over.                                                    *)
TurnEnd ==
    /\ pc = "turnEnd"
    /\ \/ Threw(emitted)
       \/ late /\ Finish(place, emitted, "deadline")
       \/ /\ ~late
          /\ Ask(Steers, "boundary")
          /\ UNCHANGED <<place, more, events, signals, outcome>>
    /\ UNCHANGED <<turnOpen, retries>>

Boundary_InjectsAtStop ==
    /\ pc = "boundary"
    /\ LET got == Answer(Steers, SteerOne)
       IN \/ HookFails /\ Threw(emitted)
          \/ more /\ Aborted /\ Loop(Move(place, got, "pending"), more)
          \/ /\ more /\ ~Aborted
             /\ pc' = "asides" /\ hooked' = FALSE
             /\ place' = Move(place, got, "held")
             /\ UNCHANGED <<more, events, signals, outcome>>
          \/ ~more /\ Loop(Move(place, got, "context"), more)
    /\ UNCHANGED <<turnOpen, retries>>
(* The steering dequeue between turns: mid-work, asides are polled next.   *)
Boundary ==
    /\ pc = "boundary"
    /\ LET got == Answer(Steers, SteerOne)
       IN \/ HookFails /\ Threw(emitted)
          \/ more /\ Aborted /\ Loop(Move(place, got, "pending"), more)
          \/ /\ more /\ ~Aborted
             /\ pc' = "asides" /\ hooked' = FALSE
             /\ place' = Move(place, got, "held")
             /\ UNCHANGED <<more, events, signals, outcome>>
          \/ ~more /\ Loop(Move(place, got, "pending"), more)
    /\ UNCHANGED <<turnOpen, retries>>

(* resolveAsides: each thunk yields its message or drops it.               *)
Resolved(kept, l) ==
    LET all == At(Asides, "queued")
    IN Move(Move(place, all \ kept, "dropped"), kept, l)

(* The drained entry bad throws: what was resolved before it is discarded, *)
(* and nobody is told of it and of the entries after it, drained as well.  *)
BrokenAt(kept, bad) ==
    Move(Resolved(kept, "discarded"), {m \in At(Asides, "queued") : bad <= m}, "lost")

(* The poll for asides rejects, or one of the entries it drained throws.   *)
AsidesFail(kept) ==
    /\ pc \in {"asides", "lateAsides"}
    /\ kept \subseteq At(Asides, "queued")
    /\ \/ Threw(emitted)
       \/ /\ ThunksMayFail
          /\ \E bad \in At(Asides, "queued") :
               (\A m \in kept : m < bad) /\ Finish(BrokenAt(kept, bad), emitted, "threw")
    /\ UNCHANGED <<turnOpen, retries>>

AsidesResolve(kept) ==
    /\ pc = "asides"
    /\ kept \subseteq At(Asides, "queued")
    /\ Loop(Move(Resolved(kept, "pending"), At(Messages, "held"), "pending"), more)
    /\ UNCHANGED <<turnOpen, retries>>

-----------------------------------------------------------------------------
(* The agent would stop.                                                   *)

BeforeYield ==
    /\ pc = "beforeYield"
    /\ \/ Threw(emitted)
       \/ late /\ Finish(place, emitted, "deadline")
       \/ /\ ~late
          /\ Ask(Steers, "late")
          /\ UNCHANGED <<place, more, events, signals, outcome>>
    /\ UNCHANGED <<turnOpen, retries>>

LateSteering ==
    /\ pc = "late"
    /\ \/ HookFails /\ Threw(emitted)
       \/ /\ place' = Move(place, Answer(Steers, SteerOne), "held")
          /\ IF Aborted THEN Ask(FollowUps, "follow")
             ELSE pc' = "lateAsides" /\ hooked' = FALSE
          /\ UNCHANGED <<more, events, signals, outcome>>
    /\ UNCHANGED <<turnOpen, retries>>

LateAsides(kept) ==
    /\ pc = "lateAsides"
    /\ kept \subseteq At(Asides, "queued")
    /\ place' = Resolved(kept, "held")
    /\ Ask(FollowUps, "follow")
    /\ UNCHANGED <<more, turnOpen, retries, events, signals, outcome>>

Follow_Overwrites ==
    /\ pc = "follow"
    /\ LET got == Answer(FollowUps, FollowOne)
       IN \/ HookFails /\ Threw(emitted)
          \/ got # {} /\ Loop(Move(place, got, "pending"), TRUE)
          \/ got = {} /\ At(Messages, "held") # {}
             /\ Loop(Move(place, At(Messages, "held"), "pending"), TRUE)
          \/ got = {} /\ At(Messages, "held") = {} /\ Finish(place, emitted, "end")
    /\ UNCHANGED <<turnOpen, retries>>
(* Follow-ups join what the two polls before took; with nothing at all the *)
(* run ends by itself.                                                     *)
Follow ==
    /\ pc = "follow"
    /\ LET got == Answer(FollowUps, FollowOne) \cup At(Messages, "held")
       IN \/ HookFails /\ Threw(emitted)
          \/ got # {} /\ Loop(Move(place, got, "pending"), TRUE)
          \/ got = {} /\ Finish(place, emitted, "end")
    /\ UNCHANGED <<turnOpen, retries>>

-----------------------------------------------------------------------------
(* The host.                                                               *)

hostFrame == UNCHANGED <<pc, hooked, more, turnOpen, retries, events, outcome>>

(* steer, followUp, an aside's producer: messages of a kind are queued in  *)
(* the order of their numbers.                                             *)
Send ==
    \E Q \in {Steers, FollowUps, Asides} :
      \E m \in At(Q, "unsent") :
        /\ \A n \in At(Q, "unsent") : m <= n
        /\ place' = [place EXCEPT ![m] = "queued"]
        /\ hostFrame /\ UNCHANGED signals

(* popLastSteer, popLastFollowUp *)
Retract ==
    \E Q \in {Steers, FollowUps} :
      \E m \in At(Q, "queued") :
        /\ \A n \in At(Q, "queued") : n <= m
        /\ place' = [place EXCEPT ![m] = "retracted"]
        /\ hostFrame /\ UNCHANGED signals

(* clearAllQueues *)
Clear ==
    /\ At(Queued, "queued") # {}
    /\ place' = Move(place, At(Queued, "queued"), "retracted")
    /\ hostFrame /\ UNCHANGED signals

(* Agent.abort by the user; the first reason stays.                        *)
Abort ==
    /\ pc # "idle" /\ ~Aborted /\ aborts < MaxAborts
    /\ aborted' = "user" /\ aborts' = aborts + 1
    /\ hostFrame /\ UNCHANGED <<place, late>>

(* The session aborts the run on a terminal tool result.                   *)
TerminalResult ==
    /\ pc \in {"tail", "tools"} /\ ~Aborted
    /\ aborted' = "terminal"
    /\ hostFrame /\ UNCHANGED <<place, late, aborts>>

Clock ==
    /\ HasDeadline /\ ~late
    /\ late' = TRUE
    /\ hostFrame /\ UNCHANGED <<place, aborted, aborts>>

DeadlineTimer ==
    /\ late /\ pc # "idle" /\ ~Aborted
    /\ aborted' = "deadline"
    /\ hostFrame /\ UNCHANGED <<place, late, aborts>>

-----------------------------------------------------------------------------
AsideStep == \E kept \in SUBSET Asides :
                AsidesFail(kept) \/ AsidesResolve(kept) \/ LateAsides(kept)

Continue == ContinueOpen \/ ContinueReplay \/ ContinueAssistant

LoopStep ==
    \/ ContSteer \/ ContFollow \/ ContHookFails
    \/ Poll \/ Tail \/ TailEnd
    \/ Commit \/ PrepareFails \/ GateStops \/ OpenTurn
    \/ OpenStream \/ ReplyFails \/ CallThrows
    \/ ReplyWithTools \/ (\E r \in BOOLEAN : ReplyWithout(r)) \/ Leak \/ LeakPersists
    \/ ToolsSettle \/ TurnEnd \/ Boundary \/ AsideStep
    \/ BeforeYield \/ LateSteering \/ Follow

Host == Send \/ Retract \/ Clear \/ Abort \/ TerminalResult \/ Clock \/ DeadlineTimer

Next == Prompt \/ Continue \/ LoopStep \/ Host

Spec == Init /\ [][Next]_vars

(* Tools, the provider and host callbacks return; the session resumes a    *)
(* stopped agent that has queued messages                                  *)
(* (#drainStrandedQueuedMessages).                                         *)
Fairness == WF_vars(LoopStep) /\ WF_vars(At(Steers, "queued") # {} /\ Continue)

FairSpec == Spec /\ Fairness

-----------------------------------------------------------------------------
(* Properties.                                                             *)

TypeOK ==
    /\ pc \in {"idle", "contSteer", "contFollow", "poll", "tailPoll", "tail",
               "tailEnd", "yield", "prepare", "calling", "model", "tools",
               "turnEnd", "boundary", "asides", "beforeYield", "late",
               "lateAsides", "follow"}
    /\ place \in [Messages -> Places]
    /\ {hooked, more, turnOpen, late} \subseteq BOOLEAN
    /\ retries \in 0..MaxRetries
    /\ emitted \subseteq Messages /\ toEmit \subseteq Messages
    /\ aborted \in {"no", "user", "deadline", "terminal"}
    /\ aborts \in 0..MaxAborts
    /\ outcome \in {"none", "end", "deadline", "terminal", "gate", "failed", "threw"}

(* Messages of a queue reach the loop in the order they were queued, over  *)
(* retractions, one-at-a-time dequeues and runs.                           *)
QueueOrder ==
    \A Q \in {Steers, FollowUps} : \A i, j \in Q :
      i < j /\ place[j] \in {"held", "pending", "context", "answered", "lost"}
        => place[i] # "queued"

(* An aborted run takes nothing more out of the steering and follow-up     *)
(* queues, even when the abort lands while a dequeue awaits its hooks:     *)
(* only the host takes messages back.                                      *)
AbortKeepsQueue ==
    [][Aborted => \A m \in At(Queued, "queued") :
                     place'[m] \in {"queued", "retracted"}]_vars

(* Messages the loop has dequeued are lost only when the deadline, a       *)
(* terminal result of resumed tools or an exception ends the run; no       *)
(* abort, gate or failed model call loses one.                             *)
LossNeedsCause ==
    [][\A m \in Messages :
         place[m] # "lost" /\ place'[m] = "lost"
           => late \/ outcome' \in {"terminal", "threw"}]_vars

(* A drained aside is committed, dropped by its own thunk, or its producer *)
(* is told it was discarded (ASIDE_MESSAGE_DISCARD), however the run ends; *)
(* the exceptions are a thunk of the same drain that throws, and a         *)
(* follow-up poll after the drain whose hooks throw.                       *)
AsideSettled ==
    [][\A a \in Asides :
         place[a] # "lost" /\ place'[a] = "lost"
           => /\ outcome' = "threw"
              /\ \/ place[a] = "queued" /\ pc \in {"asides", "lateAsides"}
                 \/ place[a] = "held" /\ pc = "follow" /\ hooked]_vars

(* ASIDE_MESSAGE_DISCARD as its comment has it: every aside that was       *)
(* drained and not inserted is reported.                                   *)
EveryAsideSettled == \A a \in Asides : place[a] # "lost"

(* A run that ends by itself has sampled the model after every message it  *)
(* committed: none sits in the context unanswered.                         *)
EndMeansAnswered ==
    pc = "idle" /\ outcome = "end" => At(Messages, "context") = {}

(* What the model has seen is in the transcript: a committed message's     *)
(* events are pushed before the model call opens, so its answer never      *)
(* refers to a message the session does not record.                        *)
SeenIsRecorded ==
    \A m \in Messages :
      /\ place[m] = "answered" => m \in emitted
      /\ place[m] = "context" => m \in emitted \cup toEmit

(* Steering dequeued at a boundary is injected: the loop never ends with a *)
(* dequeued steering message that is not in the context.                   *)
DequeuedIsInjected == \A m \in Steers : place[m] # "lost"

(* A queued steering message leaves the queue, whatever the run is doing,  *)
(* unless the agent's deadline passes.                                     *)
SteerDelivered ==
    \A m \in Steers : place[m] = "queued" ~> place[m] # "queued" \/ late

-----------------------------------------------------------------------------
(* The inductive invariant.                                                *)

AfterReply == {"tools", "turnEnd", "boundary", "asides", "beforeYield",
               "late", "lateAsides", "follow"}
BeforeCall == {"poll", "tailPoll", "yield", "prepare"}

(* The loop has messages in its hands only where it is about to inject     *)
(* them, or while resumed tools run.                                       *)
HandInv ==
    /\ At(Messages, "held") # {} => pc \in {"asides", "lateAsides", "follow"}
    /\ At(Messages, "pending") # {} => pc \in {"tail", "tailEnd", "yield"}

(* The queues: what is unsent is younger than what was sent, what is       *)
(* queued is younger than what the loop took.                              *)
OrderInv ==
    \A Q \in {Steers, FollowUps} : \A i, j \in Q :
      i < j => /\ place[i] = "unsent" => place[j] = "unsent"
               /\ place[i] = "queued" => place[j] \in {"unsent", "queued", "retracted"}

(* Between a reply and the next commit nothing in the context is           *)
(* unanswered.                                                             *)
AnsweredInv == pc \in AfterReply => At(Messages, "context") = {}

(* Before a model call no turn is open; events still to be pushed exist    *)
(* only there.                                                             *)
RecordInv ==
    /\ pc \in BeforeCall \cup AfterReply \cup {"tailEnd"} => (turnOpen => pc = "tools")
    /\ toEmit # {} => pc \in BeforeCall

IInv ==
    /\ TypeOK /\ HandInv /\ OrderInv
    /\ ~Leaks => AnsweredInv /\ EndMeansAnswered /\ RecordInv /\ SeenIsRecorded
=============================================================================
