--------------------------- MODULE AgentLoopProofs --------------------------
(***************************************************************************)
(* Proofs about AgentLoop.  Every invariant speaks of the place of each    *)
(* message, so the proofs rest on a few facts about the helpers that       *)
(* compute places; then each action is one step.                           *)
(***************************************************************************)
EXTENDS AgentLoop, TLAPS

Functions == [Messages -> Places]

LEMMA MoveType ==
    ASSUME NEW pl \in Functions, NEW S, NEW l \in Places
    PROVE  Move(pl, S, l) \in Functions
  BY DEF Move, Functions

LEMMA FinishType ==
    ASSUME TypeOK, NEW pl \in Functions, NEW em \in SUBSET Messages,
           NEW how \in {"none", "end", "deadline", "terminal", "gate", "failed", "threw"},
           Finish(pl, em, how), turnOpen' \in BOOLEAN, retries' \in 0..MaxRetries
    PROVE  TypeOK'
  BY DEF TypeOK, Finish, Functions, Places

LEMMA LoopType ==
    ASSUME TypeOK, NEW pl \in Functions, NEW m \in BOOLEAN,
           Loop(pl, m), turnOpen' \in BOOLEAN, retries' \in 0..MaxRetries
    PROVE  TypeOK'
  <1>1. CASE late
    <2>1. PICK em \in SUBSET Messages : Finish(pl, em, "deadline")
      BY <1>1 DEF Loop, TypeOK
    <2> QED BY <2>1, FinishType
  <1>2. CASE ~late
    BY <1>2 DEF Loop, TypeOK, Functions, events, signals
  <1> QED BY <1>1, <1>2

LEMMA LaunchType ==
    ASSUME TypeOK, NEW S \in SUBSET Messages, NEW skip \in BOOLEAN,
           NEW at \in {"poll", "tailPoll"}, Launch(S, skip, at)
    PROVE  TypeOK'
  <1> DEFINE pl == Move(place, S, "context")
  <1>1. pl \in Functions
    BY MoveType DEF TypeOK, Functions, Places
  <1>2. turnOpen' \in BOOLEAN /\ retries' \in 0..MaxRetries
    <2>1. turnOpen' = FALSE /\ retries' = 0 BY DEF Launch
    <2>2. turnOpen' \in BOOLEAN BY <2>1
    <2>3. 0 \in 0..MaxRetries BY DEF MaxRetries
    <2> QED BY <2>1, <2>2, <2>3
  <1>3. CASE late
    <2>1. Finish(pl, emitted \cup S, "deadline") BY <1>3 DEF Launch
    <2>2. emitted \cup S \in SUBSET Messages BY DEF TypeOK
    <2> QED BY <1>1, <1>2, <2>1, <2>2, FinishType
  <1>4. CASE ~late
    BY <1>1, <1>2, <1>4 DEF Launch, TypeOK, Functions, Aborted, signals
  <1> QED BY <1>3, <1>4

LEMMA AnswerType ==
    ASSUME NEW Q \in SUBSET Messages, NEW one
    PROVE  Answer(Q, one) \in SUBSET Q
  BY DEF Answer, Batch, At

LEMMA ThrewType ==
    ASSUME TypeOK, NEW em \in SUBSET Messages, Threw(em),
           turnOpen' \in BOOLEAN, retries' \in 0..MaxRetries
    PROVE  TypeOK'
  <1>1. place \in Functions BY DEF TypeOK, Functions
  <1>2. Finish(place, em, "threw") BY DEF Threw
  <1> QED BY <1>1, <1>2, FinishType

(* Starting a run.                                                         *)
LEMMA StartType ==
    ASSUME TypeOK,
           Prompt \/ Continue \/ ContSteer \/ ContFollow \/ ContHookFails
    PROVE  TypeOK'
  <1>0. place \in Functions /\ emitted \in SUBSET Messages
        /\ turnOpen \in BOOLEAN /\ retries \in 0..MaxRetries
    BY DEF TypeOK, Functions
  <1>1. CASE Prompt \/ ContinueOpen \/ ContinueReplay
    BY <1>1, LaunchType DEF Prompt, ContinueOpen, ContinueReplay
  <1>2. CASE ContinueAssistant
    BY <1>2 DEF ContinueAssistant, TypeOK, events
  <1>3. CASE ContSteer
    <2> DEFINE got == Answer(Steers, SteerOne)
    <2>1. CASE Launch(got, TRUE, "poll")
      <3>1. got \in SUBSET Messages BY AnswerType DEF Messages, Queued
      <3> QED BY <2>1, <3>1, LaunchType
    <2>2. CASE ~Launch(got, TRUE, "poll")
      BY <1>3, <2>2 DEF ContSteer, Ask, Aborted, TypeOK, events, signals
    <2> QED BY <2>1, <2>2
  <1>4. CASE ContFollow
    <2> DEFINE got == Answer(FollowUps, FollowOne)
    <2>1. CASE Launch(got, FALSE, "poll")
      <3>1. got \in SUBSET Messages BY AnswerType DEF Messages, Queued
      <3> QED BY <2>1, <3>1, LaunchType
    <2>2. CASE ~Launch(got, FALSE, "poll")
      <3>1. Finish(place, emitted, "threw") /\ turnOpen' = turnOpen /\ retries' = retries
        BY <1>4, <2>2 DEF ContFollow
      <3> QED BY <1>0, <3>1, FinishType
    <2> QED BY <2>1, <2>2
  <1>5. CASE ContHookFails
    <2>1. Finish(place, emitted, "threw") /\ turnOpen' = turnOpen /\ retries' = retries
      BY <1>5 DEF ContHookFails
    <2> QED BY <1>0, <2>1, FinishType
  <1> QED BY <1>1, <1>2, <1>3, <1>4, <1>5 DEF Continue

(* Steps that end at the loop head or in Finish, after computing places.   *)
LEMMA LoopStepType ==
    ASSUME TypeOK,
           Poll \/ TailEnd \/ Leak \/ TurnEnd \/ Boundary \/ BeforeYield
             \/ LateSteering \/ Follow
    PROVE  TypeOK'
  <1>0. place \in Functions /\ emitted \in SUBSET Messages /\ toEmit \in SUBSET Messages
        /\ turnOpen \in BOOLEAN /\ retries \in 0..MaxRetries /\ more \in BOOLEAN
    BY DEF TypeOK, Functions
  <1>1. CASE Poll
    <2> DEFINE pl == Move(place, Answer(Steers, SteerOne), "pending")
    <2>1. pl \in Functions BY <1>0, MoveType DEF Places
    <2>2. retries' \in 0..MaxRetries BY <1>0, <1>1 DEF Poll
    <2>3. CASE Threw(emitted \cup toEmit) /\ turnOpen' = Aborted
      <3>1. emitted \cup toEmit \in SUBSET Messages BY <1>0
      <3>2. turnOpen' \in BOOLEAN BY <2>3 DEF Aborted
      <3> QED BY <2>2, <2>3, <3>1, <3>2, ThrewType
    <2>4. CASE Loop(pl, TRUE) /\ turnOpen' = turnOpen
      BY <1>0, <2>1, <2>2, <2>4, LoopType
    <2>5. CASE ~(Threw(emitted \cup toEmit) /\ turnOpen' = Aborted)
               /\ ~(Loop(pl, TRUE) /\ turnOpen' = turnOpen)
      BY <1>0, <1>1, <2>1, <2>2, <2>5 DEF Poll, TypeOK, Functions, signals
    <2> QED BY <2>3, <2>4, <2>5
  <1>2. CASE TailEnd
    <2>1. turnOpen' = turnOpen /\ retries' = retries BY <1>2 DEF TailEnd
    <2>2. CASE Threw(emitted) BY <1>0, <2>1, <2>2, ThrewType
    <2>3. CASE Finish(place, emitted, "terminal") BY <1>0, <2>1, <2>3, FinishType
    <2>4. CASE Loop(place, TRUE) BY <1>0, <2>1, <2>4, LoopType
    <2> QED BY <1>2, <2>2, <2>3, <2>4 DEF TailEnd
  <1>3. CASE Leak
    <2>1. turnOpen' = turnOpen /\ Loop(place, more)
          /\ retries < MaxRetries /\ retries' = retries + 1
      BY <1>3 DEF Leak
    <2>2. retries' \in 0..MaxRetries BY <1>0, <2>1 DEF MaxRetries
    <2> QED BY <1>0, <2>1, <2>2, LoopType
  <1>4. CASE TurnEnd \/ BeforeYield
    <2>1. turnOpen' = turnOpen /\ retries' = retries BY <1>4 DEF TurnEnd, BeforeYield
    <2>2. CASE Threw(emitted) BY <1>0, <2>1, <2>2, ThrewType
    <2>3. CASE Finish(place, emitted, "deadline") BY <1>0, <2>1, <2>3, FinishType
    <2>4. CASE ~Threw(emitted) /\ ~Finish(place, emitted, "deadline")
      BY <1>4, <2>1, <2>4 DEF TurnEnd, BeforeYield, Ask, Aborted, TypeOK, events, signals
    <2> QED BY <2>2, <2>3, <2>4
  <1>5. CASE Boundary
    <2> DEFINE got == Answer(Steers, SteerOne)
    <2>1. turnOpen' = turnOpen /\ retries' = retries BY <1>5 DEF Boundary
    <2>2. Move(place, got, "pending") \in Functions /\ Move(place, got, "held") \in Functions
      BY <1>0, MoveType DEF Places
    <2>3. CASE Threw(emitted) BY <1>0, <2>1, <2>3, ThrewType
    <2>4. CASE Loop(Move(place, got, "pending"), more) BY <1>0, <2>1, <2>2, <2>4, LoopType
    <2>5. CASE ~Threw(emitted) /\ ~Loop(Move(place, got, "pending"), more)
      BY <1>5, <2>1, <2>2, <2>5 DEF Boundary, TypeOK, Functions, events, signals
    <2> QED BY <2>3, <2>4, <2>5
  <1>6. CASE LateSteering
    <2>1. turnOpen' = turnOpen /\ retries' = retries BY <1>6 DEF LateSteering
    <2>2. Move(place, Answer(Steers, SteerOne), "held") \in Functions
      BY <1>0, MoveType DEF Places
    <2>3. CASE Threw(emitted) BY <1>0, <2>1, <2>3, ThrewType
    <2>4. CASE ~Threw(emitted)
      BY <1>6, <2>1, <2>2, <2>4
      DEF LateSteering, Ask, Aborted, TypeOK, Functions, events, signals
    <2> QED BY <2>3, <2>4
  <1>7. CASE Follow
    <2> DEFINE got == Answer(FollowUps, FollowOne) \cup At(Messages, "held")
    <2>1. turnOpen' = turnOpen /\ retries' = retries BY <1>7 DEF Follow
    <2>2. Move(place, got, "pending") \in Functions BY <1>0, MoveType DEF Places
    <2>3. CASE Threw(emitted) BY <1>0, <2>1, <2>3, ThrewType
    <2>4. CASE Loop(Move(place, got, "pending"), TRUE) BY <1>0, <2>1, <2>2, <2>4, LoopType
    <2>5. CASE Finish(place, emitted, "end") BY <1>0, <2>1, <2>5, FinishType
    <2> QED BY <1>7, <2>3, <2>4, <2>5 DEF Follow
  <1> QED BY <1>1, <1>2, <1>3, <1>4, <1>5, <1>6, <1>7

LEMMA ResolvedType ==
    ASSUME TypeOK, NEW kept \in SUBSET At(Asides, "queued"), NEW l \in Places
    PROVE  Resolved(kept, l) \in Functions
  BY MoveType DEF Resolved, TypeOK, Functions, Places

(* The asides that are kept are among the queued ones.                     *)
LEMMA AsideStepCases ==
    ASSUME AsideStep
    PROVE  \E kept \in SUBSET At(Asides, "queued") :
             AsidesFail(kept) \/ AsidesResolve(kept) \/ LateAsides(kept)
  BY DEF AsideStep, AsidesFail, AsidesResolve, LateAsides

LEMMA AsideStepType ==
    ASSUME TypeOK, AsideStep
    PROVE  TypeOK'
  <1>0. place \in Functions /\ emitted \in SUBSET Messages
        /\ turnOpen \in BOOLEAN /\ retries \in 0..MaxRetries /\ more \in BOOLEAN
    BY DEF TypeOK, Functions
  <1>1. PICK kept \in SUBSET At(Asides, "queued") :
           AsidesFail(kept) \/ AsidesResolve(kept) \/ LateAsides(kept)
    BY AsideStepCases
  <1>2. turnOpen' = turnOpen /\ retries' = retries
    BY <1>1 DEF AsidesFail, AsidesResolve, LateAsides
  <1>3. \A l \in {"discarded", "pending", "held"} : Resolved(kept, l) \in Functions
    BY ResolvedType DEF Places
  <1>4. CASE AsidesFail(kept)
    <2>1. \A bad : BrokenAt(kept, bad) \in Functions
      BY <1>3, MoveType DEF BrokenAt, Places
    <2> QED BY <1>0, <1>2, <1>4, <2>1, FinishType DEF AsidesFail, Threw
  <1>5. CASE AsidesResolve(kept)
    <2>1. Move(Resolved(kept, "pending"), At(Messages, "held"), "pending") \in Functions
      BY <1>3, MoveType DEF Places
    <2> QED BY <1>0, <1>2, <1>5, <2>1, LoopType DEF AsidesResolve
  <1>6. CASE LateAsides(kept)
    BY <1>2, <1>3, <1>6 DEF LateAsides, Ask, Aborted, TypeOK, Functions, events, signals
  <1> QED BY <1>1, <1>4, <1>5, <1>6

(* The steps of a turn and the host's.                                     *)
LEMMA TurnType ==
    ASSUME TypeOK,
           Tail \/ Commit \/ PrepareFails \/ GateStops \/ OpenTurn \/ OpenStream
             \/ ReplyFails \/ CallThrows \/ ReplyWithTools
             \/ (\E r \in BOOLEAN : ReplyWithout(r)) \/ LeakPersists \/ ToolsSettle
    PROVE  TypeOK'
  <1>0. place \in Functions /\ emitted \in SUBSET Messages /\ toEmit \in SUBSET Messages
        /\ turnOpen \in BOOLEAN /\ retries \in 0..MaxRetries /\ more \in BOOLEAN
    BY DEF TypeOK, Functions
  <1>1. CASE Tail \/ OpenStream \/ ToolsSettle
    BY <1>1 DEF Tail, OpenStream, ToolsSettle, TypeOK, events, signals
  <1>2. CASE Commit
    <2>1. Move(place, At(Messages, "pending"), "context") \in Functions
      BY <1>0, MoveType DEF Places
    <2> QED BY <1>2, <2>1 DEF Commit, At, TypeOK, Functions, signals
  <1>3. CASE OpenTurn
    BY <1>3 DEF OpenTurn, TypeOK, signals
  <1>4. CASE ReplyWithTools \/ (\E r \in BOOLEAN : ReplyWithout(r))
    <2>1. Move(place, At(Messages, "context"), "answered") \in Functions
      BY <1>0, MoveType DEF Places
    <2>2. 0 \in 0..MaxRetries BY DEF MaxRetries
    <2> QED BY <1>4, <2>1, <2>2
         DEF ReplyWithTools, ReplyWithout, TypeOK, Functions, events, signals
  <1>5. CASE PrepareFails \/ CallThrows
    <2>1. PICK em \in SUBSET Messages : Threw(em)
      BY <1>0, <1>5 DEF PrepareFails, CallThrows
    <2>2. turnOpen' = Aborted /\ retries' = retries
      BY <1>5 DEF PrepareFails, CallThrows
    <2>3. turnOpen' \in BOOLEAN BY <2>2 DEF Aborted
    <2> QED BY <1>0, <2>1, <2>2, <2>3, ThrewType
  <1>6. CASE GateStops \/ ReplyFails \/ LeakPersists
    <2>1. retries' = retries /\ (turnOpen' = FALSE \/ turnOpen' = Aborted)
      BY <1>6 DEF GateStops, ReplyFails, LeakPersists
    <2>2. turnOpen' \in BOOLEAN BY <2>1 DEF Aborted
    <2>3. emitted \cup toEmit \in SUBSET Messages BY <1>0
    <2>4. \/ Finish(place, emitted \cup toEmit, "gate")
          \/ Finish(place, emitted, "failed")
          \/ Finish(place, emitted, "threw")
      BY <1>6 DEF GateStops, ReplyFails, LeakPersists
    <2> QED BY <1>0, <2>1, <2>2, <2>3, <2>4, FinishType
  <1> QED BY <1>1, <1>2, <1>3, <1>4, <1>5, <1>6

LEMMA HostType ==
    ASSUME TypeOK, Host
    PROVE  TypeOK'
  <1>1. CASE Send \/ Retract
    BY <1>1 DEF Send, Retract, At, Places, Messages, Queued, hostFrame, TypeOK, events, signals
  <1>2. CASE Clear
    <2>1. Move(place, At(Queued, "queued"), "retracted") \in Functions
      BY MoveType DEF TypeOK, Functions, Places
    <2> QED BY <1>2, <2>1 DEF Clear, hostFrame, TypeOK, Functions, events, signals
  <1>3. CASE Abort
    BY <1>3, LoopAssumption DEF Abort, hostFrame, TypeOK, events
  <1>4. CASE TerminalResult \/ Clock \/ DeadlineTimer
    BY <1>4 DEF TerminalResult, Clock, DeadlineTimer, hostFrame, TypeOK, events
  <1> QED BY <1>1, <1>2, <1>3, <1>4 DEF Host

(* Every variable keeps its type.                                          *)
THEOREM TypeCorrect == Spec => []TypeOK
  <1>1. Init => TypeOK
    <2>1. 0 \in 0..MaxRetries /\ 0 \in 0..MaxAborts
      BY LoopAssumption DEF MaxRetries
    <2> QED BY <2>1 DEF Init, TypeOK, Places
  <1>2. TypeOK /\ [Next]_vars => TypeOK'
    <2> SUFFICES ASSUME TypeOK, [Next]_vars PROVE TypeOK'
      OBVIOUS
    <2>1. CASE UNCHANGED vars
      BY <2>1 DEF TypeOK, vars, events, signals
    <2>2. CASE LoopStep
      BY <2>2, StartType, LoopStepType, AsideStepType, TurnType DEF LoopStep
    <2>3. CASE Prompt \/ Continue
      BY <2>3, StartType
    <2>4. CASE Host
      BY <2>4, HostType
    <2> QED BY <2>1, <2>2, <2>3, <2>4 DEF Next
  <1> QED BY <1>1, <1>2, PTL DEF Spec


-----------------------------------------------------------------------------
(***************************************************************************)
(* The safety properties.  First the queues: no step but the host's        *)
(* retractions and the two dequeues touches what they hold.  Then the      *)
(* messages in the loop's hands, and what the model has seen.              *)
(***************************************************************************)

(* What a step may do to the queue Q: pl is where the messages are after   *)
(* it.                                                                     *)
KeepsQueue(Q, pl) ==
    \A m \in Q :
      /\ place[m] = "unsent" =>
           \/ pl[m] = "unsent"
           \/ pl[m] = "queued" /\ \A n \in Q : n < m => pl[n] # "unsent"
      /\ place[m] = "queued" =>
           \/ pl[m] \in {"queued", "retracted"}
           \/ pl[m] # "unsent" /\ ~Aborted /\ \A n \in Q : n < m => pl[n] # "queued"
      /\ place[m] = "retracted" => pl[m] = "retracted"
      /\ place[m] \notin {"unsent", "queued"} => pl[m] \notin {"unsent", "queued"}

Untouched(Q, pl) ==
    \A m \in Q : IF place[m] \in {"unsent", "queued", "retracted"} THEN pl[m] = place[m]
                 ELSE pl[m] \notin {"unsent", "queued", "retracted"}

LEMMA UntouchedKeeps ==
    ASSUME NEW Q, NEW pl, Untouched(Q, pl), OrderInv, Q \in {Steers, FollowUps},
           Q \subseteq Nat
    PROVE  KeepsQueue(Q, pl)
  BY DEF Untouched, KeepsQueue, OrderInv

(* Finish and Loop only move messages the loop has taken.                  *)
LEMMA FinishKeeps ==
    ASSUME NEW Q \in SUBSET Queued, NEW pl, NEW em, NEW how, Finish(pl, em, how),
           KeepsQueue(Q, pl)
    PROVE  KeepsQueue(Q, place')
  <1>1. \A m \in Q : place'[m] = IF pl[m] = "pending" /\ m \in Asides THEN "discarded"
                                 ELSE IF pl[m] \in {"held", "pending"} THEN "lost" ELSE pl[m]
    BY DEF Finish, Messages
  <1>2. \A m \in Q : m \notin Asides
    BY LoopAssumption
  <1> QED BY <1>1, <1>2 DEF KeepsQueue

LEMMA LoopKeeps ==
    ASSUME NEW Q \in SUBSET Queued, NEW pl, NEW m, Loop(pl, m), KeepsQueue(Q, pl)
    PROVE  KeepsQueue(Q, place')
  <1>1. CASE place' = pl BY <1>1
  <1>2. CASE place' # pl
    <2>1. PICK em : Finish(pl, em, "deadline") BY <1>2 DEF Loop
    <2> QED BY <2>1, FinishKeeps
  <1> QED BY <1>1, <1>2

(* A dequeue takes the oldest messages, and none for an aborted run.       *)
LEMMA AnswerKeeps ==
    ASSUME TypeOK, NEW P \in {Steers, FollowUps}, NEW Q \in {Steers, FollowUps}, NEW one \in BOOLEAN,
           NEW l \in {"held", "pending", "context"}, OrderInv
    PROVE  KeepsQueue(Q, Move(place, Answer(P, one), l))
  <1>1. \A m \in Q : m \in Messages /\ m \in Nat
    BY LoopAssumption DEF Messages, Queued
  <1>2. CASE P = Q
    <2> SUFFICES ASSUME NEW m \in Q
                 PROVE  KeepsQueue(Q, Move(place, Answer(Q, one), l))!(m)
      BY <1>2 DEF KeepsQueue
    <2> QED BY <1>1 DEF Move, Answer, Batch, At, OrderInv
  <1>3. CASE P # Q
    <2>1. \A m \in Q : m \notin P
      BY <1>3, LoopAssumption
    <2> QED BY <1>1, <2>1 DEF KeepsQueue, Move, Answer, Batch, At, OrderInv
  <1> QED BY <1>2, <1>3

LEMMA SameKeeps ==
    ASSUME NEW Q \in {Steers, FollowUps}, OrderInv
    PROVE  KeepsQueue(Q, place)
  <1>1. Q \subseteq Nat BY LoopAssumption DEF Messages, Queued
  <1> QED BY <1>1, UntouchedKeeps DEF Untouched

(* Moving messages that are in no queue leaves the queues alone.           *)
LEMMA MoveKeeps ==
    ASSUME TypeOK, OrderInv, NEW Q \in {Steers, FollowUps}, NEW S,
           \A m \in S \cap Q : place[m] \notin {"unsent", "queued", "retracted"},
           NEW l \in Places \ {"unsent", "queued", "retracted"}
    PROVE  KeepsQueue(Q, Move(place, S, l))
  <1>1. Q \subseteq Nat /\ Q \subseteq Messages
    BY LoopAssumption DEF Messages, Queued
  <1>2. Untouched(Q, Move(place, S, l))
    BY <1>1 DEF Untouched, Move
  <1> QED BY <1>1, <1>2, UntouchedKeeps

LEMMA StartKeeps ==
    ASSUME TypeOK, OrderInv, NEW Q \in {Steers, FollowUps},
           Prompt \/ Continue \/ ContSteer \/ ContFollow \/ ContHookFails
    PROVE  KeepsQueue(Q, place')
  <1>0. Q \in SUBSET Queued /\ {SteerOne, FollowOne} \subseteq BOOLEAN
    BY LoopAssumption DEF Queued
  <1>1. ASSUME NEW S, NEW skip, NEW at, Launch(S, skip, at),
               KeepsQueue(Q, Move(place, S, "context"))
        PROVE  KeepsQueue(Q, place')
    <2>1. CASE place' = Move(place, S, "context") BY <1>1, <2>1
    <2>2. CASE place' # Move(place, S, "context")
      <3>1. Finish(Move(place, S, "context"), emitted \cup S, "deadline")
        BY <1>1, <2>2 DEF Launch
      <3> QED BY <1>0, <1>1, <3>1, FinishKeeps
    <2> QED BY <2>1, <2>2
  <1>2. CASE Prompt \/ ContinueOpen \/ ContinueReplay
    <2>1. KeepsQueue(Q, Move(place, {}, "context"))
      BY MoveKeeps DEF Places
    <2> QED BY <1>1, <1>2, <2>1 DEF Prompt, ContinueOpen, ContinueReplay
  <1>3. CASE ContinueAssistant
    BY <1>3, SameKeeps DEF ContinueAssistant
  <1>4. CASE ContSteer
    <2>1. KeepsQueue(Q, Move(place, Answer(Steers, SteerOne), "context"))
      BY <1>0, AnswerKeeps
    <2> QED BY <1>1, <1>4, <2>1, SameKeeps DEF ContSteer
  <1>5. CASE ContFollow
    <2>1. KeepsQueue(Q, Move(place, Answer(FollowUps, FollowOne), "context"))
      BY <1>0, AnswerKeeps
    <2> QED BY <1>0, <1>1, <1>5, <2>1, SameKeeps, FinishKeeps DEF ContFollow
  <1>6. CASE ContHookFails
    BY <1>0, <1>6, SameKeeps, FinishKeeps DEF ContHookFails
  <1> QED BY <1>2, <1>3, <1>4, <1>5, <1>6 DEF Continue

LEMMA LoopStepKeeps ==
    ASSUME TypeOK, OrderInv, NEW Q \in {Steers, FollowUps},
           Poll \/ TailEnd \/ Leak \/ TurnEnd \/ Boundary \/ BeforeYield
             \/ LateSteering \/ Follow
    PROVE  KeepsQueue(Q, place')
  <1>0. Q \in SUBSET Queued /\ {SteerOne, FollowOne} \subseteq BOOLEAN
    BY LoopAssumption DEF Queued
  <1>1. KeepsQueue(Q, place) BY SameKeeps
  <1>2. \A l \in {"held", "pending"} : KeepsQueue(Q, Move(place, Answer(Steers, SteerOne), l))
    BY <1>0, AnswerKeeps
  <1>3. \A em : Threw(em) => KeepsQueue(Q, place')
    BY <1>0, <1>1, FinishKeeps DEF Threw
  <1>4. CASE Poll
    BY <1>0, <1>2, <1>3, <1>4, LoopKeeps DEF Poll
  <1>5. CASE TailEnd \/ Leak
    BY <1>0, <1>1, <1>3, <1>5, LoopKeeps, FinishKeeps DEF TailEnd, Leak
  <1>6. CASE TurnEnd \/ BeforeYield
    BY <1>0, <1>1, <1>3, <1>6, FinishKeeps DEF TurnEnd, BeforeYield
  <1>7. CASE Boundary
    BY <1>0, <1>2, <1>3, <1>7, LoopKeeps DEF Boundary
  <1>8. CASE LateSteering
    BY <1>2, <1>3, <1>8 DEF LateSteering
  <1>9. CASE Follow
    <2> DEFINE got == Answer(FollowUps, FollowOne) \cup At(Messages, "held")
    <2>1. KeepsQueue(Q, Move(place, Answer(FollowUps, FollowOne), "pending"))
      BY <1>0, AnswerKeeps
    <2>2. \A m \in Q : Move(place, got, "pending")[m] =
                        IF place[m] = "held" THEN "pending"
                        ELSE Move(place, Answer(FollowUps, FollowOne), "pending")[m]
      BY <1>0 DEF Move, At, Messages
    <2>3. KeepsQueue(Q, Move(place, got, "pending"))
      BY <2>1, <2>2 DEF KeepsQueue
    <2> QED BY <1>0, <1>1, <1>3, <1>9, <2>3, LoopKeeps, FinishKeeps DEF Follow
  <1> QED BY <1>4, <1>5, <1>6, <1>7, <1>8, <1>9

LEMMA AsideStepKeeps ==
    ASSUME TypeOK, OrderInv, NEW Q \in {Steers, FollowUps}, AsideStep
    PROVE  KeepsQueue(Q, place')
  <1>0. Q \in SUBSET Queued /\ Q \subseteq Nat /\ Q \subseteq Messages /\ Q \cap Asides = {}
    BY LoopAssumption DEF Messages, Queued
  <1>1. PICK kept \in SUBSET At(Asides, "queued") :
           AsidesFail(kept) \/ AsidesResolve(kept) \/ LateAsides(kept)
    BY AsideStepCases
  <1>2. \A l : \A m \in Q : Resolved(kept, l)[m] = place[m]
    BY <1>0 DEF Resolved, Move, At
  <1>3. \A l : KeepsQueue(Q, Resolved(kept, l))
    <2> TAKE l
    <2>1. Untouched(Q, Resolved(kept, l)) BY <1>2 DEF Untouched
    <2> QED BY <1>0, <2>1, UntouchedKeeps
  <1>4. KeepsQueue(Q, Move(Resolved(kept, "pending"), At(Messages, "held"), "pending"))
    <2>1. Untouched(Q, Move(Resolved(kept, "pending"), At(Messages, "held"), "pending"))
      BY <1>0, <1>2 DEF Untouched, Move, At
    <2> QED BY <1>0, <2>1, UntouchedKeeps
  <1>5. CASE AsidesFail(kept)
    <2>1. \A bad : KeepsQueue(Q, BrokenAt(kept, bad))
      <3> TAKE bad
      <3>1. Untouched(Q, BrokenAt(kept, bad)) BY <1>0, <1>2 DEF Untouched, BrokenAt, Move, At
      <3> QED BY <1>0, <3>1, UntouchedKeeps
    <2>2. KeepsQueue(Q, place) BY SameKeeps
    <2> QED BY <1>0, <1>5, <2>1, <2>2, FinishKeeps DEF AsidesFail, Threw
  <1>6. CASE AsidesResolve(kept)
    BY <1>0, <1>4, <1>6, LoopKeeps DEF AsidesResolve
  <1>7. CASE LateAsides(kept)
    BY <1>3, <1>7 DEF LateAsides
  <1> QED BY <1>1, <1>5, <1>6, <1>7

LEMMA TurnKeeps ==
    ASSUME TypeOK, OrderInv, NEW Q \in {Steers, FollowUps},
           Tail \/ Commit \/ PrepareFails \/ GateStops \/ OpenTurn \/ OpenStream
             \/ ReplyFails \/ CallThrows \/ ReplyWithTools
             \/ (\E r \in BOOLEAN : ReplyWithout(r)) \/ LeakPersists \/ ToolsSettle
    PROVE  KeepsQueue(Q, place')
  <1>0. Q \in SUBSET Queued BY DEF Queued
  <1>1. KeepsQueue(Q, place) BY SameKeeps
  <1>2. KeepsQueue(Q, Move(place, At(Messages, "pending"), "context"))
    BY MoveKeeps DEF At, Places
  <1>3. KeepsQueue(Q, Move(place, At(Messages, "context"), "answered"))
    BY MoveKeeps DEF At, Places
  <1>4. CASE place' = place BY <1>1, <1>4
  <1>5. CASE Commit BY <1>2, <1>5 DEF Commit
  <1>6. CASE ReplyWithTools \/ (\E r \in BOOLEAN : ReplyWithout(r))
    BY <1>3, <1>6 DEF ReplyWithTools, ReplyWithout
  <1>7. CASE PrepareFails \/ GateStops \/ ReplyFails \/ CallThrows \/ LeakPersists
    <2>1. PICK em, how : Finish(place, em, how)
      BY <1>7 DEF PrepareFails, GateStops, ReplyFails, CallThrows, LeakPersists, Threw
    <2> QED BY <1>0, <1>1, <2>1, FinishKeeps
  <1> QED BY <1>4, <1>5, <1>6, <1>7 DEF Tail, OpenTurn, OpenStream, ToolsSettle

LEMMA HostKeeps ==
    ASSUME TypeOK, OrderInv, NEW Q \in {Steers, FollowUps}, Host
    PROVE  KeepsQueue(Q, place')
  <1>0. /\ Q \subseteq Nat /\ Q \subseteq Messages /\ Q \subseteq Queued /\ Q \cap Asides = {}
        /\ \A P \in {Steers, FollowUps} : P # Q => P \cap Q = {}
    BY LoopAssumption DEF Messages, Queued
  <1>1. CASE Send
    <2>a. PICK P \in {Steers, FollowUps, Asides} : \E m \in At(P, "unsent") :
             /\ \A n \in At(P, "unsent") : m <= n
             /\ place' = [place EXCEPT ![m] = "queued"]
      BY <1>1 DEF Send
    <2>1. PICK m \in At(P, "unsent") :
             /\ \A n \in At(P, "unsent") : m <= n
             /\ place' = [place EXCEPT ![m] = "queued"]
      BY <2>a
    <2>2. CASE m \in Q
      <3>1. P = Q BY <1>0, <2>1, <2>2 DEF At
      <3> QED BY <1>0, <2>1, <2>2, <3>1 DEF KeepsQueue, At, OrderInv, TypeOK
    <2>3. CASE m \notin Q
      <3>1. \A n \in Q : place'[n] = place[n] BY <1>0, <2>1, <2>3 DEF TypeOK
      <3> QED BY <1>0, <3>1, UntouchedKeeps DEF Untouched
    <2> QED BY <2>2, <2>3
  <1>2. CASE Retract
    <2>a. PICK P \in {Steers, FollowUps} : \E m \in At(P, "queued") :
             place' = [place EXCEPT ![m] = "retracted"]
      BY <1>2 DEF Retract
    <2>1. PICK m \in At(P, "queued") : place' = [place EXCEPT ![m] = "retracted"]
      BY <2>a
    <2>2. \A n \in Q : place'[n] = IF n = m THEN "retracted" ELSE place[n]
      BY <1>0, <2>1 DEF TypeOK
    <2>3. place[m] = "queued" BY <2>1 DEF At
    <2> QED BY <1>0, <2>2, <2>3 DEF KeepsQueue
  <1>3. CASE Clear
    <2>1. \A n \in Q : place'[n] = IF place[n] = "queued" THEN "retracted" ELSE place[n]
      BY <1>0, <1>3 DEF Clear, Move, At
    <2> QED BY <1>0, <2>1 DEF KeepsQueue
  <1>4. CASE place' = place BY <1>4, SameKeeps
  <1> QED BY <1>1, <1>2, <1>3, <1>4 DEF Host, Abort, TerminalResult, Clock, DeadlineTimer

LEMMA StepKeeps ==
    ASSUME TypeOK, OrderInv, [Next]_vars, NEW Q \in {Steers, FollowUps}
    PROVE  KeepsQueue(Q, place')
  <1>1. CASE LoopStep
    BY <1>1, StartKeeps, LoopStepKeeps, AsideStepKeeps, TurnKeeps DEF LoopStep
  <1>2. CASE Prompt \/ Continue BY <1>2, StartKeeps
  <1>3. CASE Host BY <1>3, HostKeeps
  <1>4. CASE UNCHANGED vars BY <1>4, SameKeeps DEF vars
  <1> QED BY <1>1, <1>2, <1>3, <1>4 DEF Next

LEMMA OrderStep ==
    ASSUME TypeOK, OrderInv, [Next]_vars
    PROVE  OrderInv'
  <1> SUFFICES ASSUME NEW Q \in {Steers, FollowUps}, NEW i \in Q, NEW j \in Q, i < j
               PROVE  /\ place'[i] = "unsent" => place'[j] = "unsent"
                      /\ place'[i] = "queued" => place'[j] \in {"unsent", "queued", "retracted"}
    BY DEF OrderInv
  <1>1. KeepsQueue(Q, place') BY StepKeeps
  <1>2. /\ place[i] = "unsent" => place[j] = "unsent"
        /\ place[i] = "queued" => place[j] \in {"unsent", "queued", "retracted"}
    BY DEF OrderInv
  <1>3. ASSUME place'[i] = "unsent" PROVE place'[j] = "unsent"
    BY <1>1, <1>2, <1>3 DEF KeepsQueue
  <1>4. ASSUME place'[i] = "queued" PROVE place'[j] \in {"unsent", "queued", "retracted"}
    BY <1>1, <1>2, <1>4 DEF KeepsQueue
  <1> QED BY <1>3, <1>4

THEOREM OrderInvariant == Spec => [](TypeOK /\ OrderInv)
  <1>1. Init => OrderInv
    BY LoopAssumption DEF Init, OrderInv, Messages, Queued
  <1>2. TypeOK /\ OrderInv /\ [Next]_vars => OrderInv'
    BY OrderStep
  <1> QED BY <1>1, <1>2, TypeCorrect, PTL DEF Spec

(* Messages of a queue reach the loop in the order they were queued.       *)
THEOREM QueueOrderCorrect == Spec => []QueueOrder
  <1>1. TypeOK /\ OrderInv => QueueOrder
    BY DEF OrderInv, QueueOrder
  <1> QED BY <1>1, OrderInvariant, PTL

(* An aborted run takes nothing more out of the queues.                    *)
THEOREM AbortKeepsQueueCorrect == Spec => AbortKeepsQueue
  <1>1. TypeOK /\ OrderInv /\ [Next]_vars
          => [Aborted => \A m \in At(Queued, "queued") :
                            place'[m] \in {"queued", "retracted"}]_vars
    <2> SUFFICES ASSUME TypeOK, OrderInv, [Next]_vars, Aborted,
                        NEW m \in At(Queued, "queued")
                 PROVE  place'[m] \in {"queued", "retracted"}
      OBVIOUS
    <2>1. PICK Q \in {Steers, FollowUps} : m \in Q
      BY DEF At, Queued
    <2>2. KeepsQueue(Q, place') BY StepKeeps
    <2> QED BY <2>1, <2>2 DEF KeepsQueue, At
  <1> QED BY <1>1, OrderInvariant, PTL DEF Spec, AbortKeepsQueue

-----------------------------------------------------------------------------
(* Messages in the loop's hands.                                           *)

LEMMA FinishHand ==
    ASSUME NEW pl, NEW em, NEW how, Finish(pl, em, how)
    PROVE  HandInv'
  BY DEF Finish, HandInv, At

LEMMA LoopHand ==
    ASSUME NEW pl, NEW m, Loop(pl, m), \A x \in Messages : pl[x] # "held"
    PROVE  HandInv'
  <1>1. CASE late BY <1>1, FinishHand DEF Loop
  <1>2. CASE ~late BY <1>2 DEF Loop, HandInv, At
  <1> QED BY <1>1, <1>2

LEMMA StartHand ==
    ASSUME HandInv,
           Prompt \/ Continue \/ ContSteer \/ ContFollow \/ ContHookFails
    PROVE  HandInv'
  <1>1. ASSUME NEW S, NEW skip, NEW at, Launch(S, skip, at),
               pc \in {"idle", "contSteer", "contFollow"}
        PROVE  HandInv'
    <2>1. CASE late BY <1>1, <2>1, FinishHand DEF Launch
    <2>2. CASE ~late BY <1>1, <2>2 DEF Launch, HandInv, At, Move
    <2> QED BY <2>1, <2>2
  <1>2. CASE Prompt \/ ContinueOpen \/ ContinueReplay
    BY <1>1, <1>2 DEF Prompt, ContinueOpen, ContinueReplay
  <1>3. CASE ContinueAssistant
    BY <1>3 DEF ContinueAssistant, HandInv, At
  <1>4. CASE ContSteer
    <2>1. CASE Launch(Answer(Steers, SteerOne), TRUE, "poll")
      BY <1>1, <1>4, <2>1 DEF ContSteer
    <2>2. CASE ~Launch(Answer(Steers, SteerOne), TRUE, "poll")
      BY <1>4, <2>2 DEF ContSteer, Ask, HandInv, At
    <2> QED BY <2>1, <2>2
  <1>5. CASE ContFollow \/ ContHookFails
    BY <1>1, <1>5, FinishHand DEF ContFollow, ContHookFails
  <1> QED BY <1>2, <1>3, <1>4, <1>5 DEF Continue

LEMMA LoopStepHand ==
    ASSUME HandInv,
           Poll \/ TailEnd \/ Leak \/ TurnEnd \/ Boundary \/ BeforeYield
             \/ LateSteering \/ Follow
    PROVE  HandInv'
  <1>1. \A em : Threw(em) => HandInv' BY FinishHand DEF Threw
  <1>2. CASE Poll
    <2> DEFINE pl == Move(place, Answer(Steers, SteerOne), "pending")
    <2>1. \A x \in Messages : pl[x] # "held"
      BY <1>2 DEF Poll, HandInv, At, Move
    <2>2. CASE Loop(pl, TRUE) BY <2>1, <2>2, LoopHand
    <2>3. CASE pc' = "tail" /\ place' = pl BY <2>1, <2>3 DEF HandInv, At
    <2> QED BY <1>1, <1>2, <2>2, <2>3 DEF Poll
  <1>3. CASE TailEnd \/ Leak
    <2>1. \A x \in Messages : place[x] # "held"
      BY <1>3 DEF TailEnd, Leak, HandInv, At
    <2> QED BY <1>1, <1>3, <2>1, LoopHand, FinishHand DEF TailEnd, Leak
  <1>4. CASE TurnEnd \/ BeforeYield
    <2>1. CASE Finish(place, emitted, "deadline") BY <2>1, FinishHand
    <2>2. CASE place' = place /\ pc \in {"turnEnd", "beforeYield"}
      BY <2>2 DEF HandInv, At
    <2> QED BY <1>1, <1>4, <2>1, <2>2 DEF TurnEnd, BeforeYield
  <1>5. CASE Boundary
    <2> DEFINE got == Answer(Steers, SteerOne)
    <2>1. \A x \in Messages : place[x] \notin {"held", "pending"}
      BY <1>5 DEF Boundary, HandInv, At
    <2>2. \A x \in Messages : Move(place, got, "pending")[x] # "held"
      BY <2>1 DEF Move
    <2>3. CASE Loop(Move(place, got, "pending"), more) BY <2>2, <2>3, LoopHand
    <2>4. CASE pc' = "asides" /\ place' = Move(place, got, "held")
      BY <2>1, <2>4 DEF HandInv, At, Move
    <2> QED BY <1>1, <1>5, <2>3, <2>4 DEF Boundary
  <1>6. CASE LateSteering
    <2>1. \A x \in Messages : place[x] \notin {"held", "pending"}
      BY <1>6 DEF LateSteering, HandInv, At
    <2>2. CASE place' = Move(place, Answer(Steers, SteerOne), "held")
               /\ pc' \in {"lateAsides", "follow"}
      BY <2>1, <2>2 DEF HandInv, At, Move
    <2> QED BY <1>1, <1>6, <2>2 DEF LateSteering, Ask
  <1>7. CASE Follow
    <2> DEFINE got == Answer(FollowUps, FollowOne) \cup At(Messages, "held")
    <2>1. \A x \in Messages : Move(place, got, "pending")[x] # "held"
      BY DEF Move, At
    <2>2. CASE Loop(Move(place, got, "pending"), TRUE) BY <2>1, <2>2, LoopHand
    <2> QED BY <1>1, <1>7, <2>2, FinishHand DEF Follow
  <1> QED BY <1>2, <1>3, <1>4, <1>5, <1>6, <1>7

LEMMA OtherStepHand ==
    ASSUME TypeOK, HandInv,
           \/ AsideStep
           \/ Tail \/ Commit \/ PrepareFails \/ GateStops \/ OpenTurn \/ OpenStream
             \/ ReplyFails \/ CallThrows \/ ReplyWithTools
             \/ (\E r \in BOOLEAN : ReplyWithout(r)) \/ LeakPersists \/ ToolsSettle
    PROVE  HandInv'
  <1>1. CASE AsideStep
    <2>1. PICK kept \in SUBSET At(Asides, "queued") :
             AsidesFail(kept) \/ AsidesResolve(kept) \/ LateAsides(kept)
      BY <1>1, AsideStepCases
    <2>2. CASE AsidesFail(kept) BY <2>2, FinishHand DEF AsidesFail, Threw
    <2>3. CASE AsidesResolve(kept)
      <3> DEFINE pl == Move(Resolved(kept, "pending"), At(Messages, "held"), "pending")
      <3>1. \A x \in Messages : pl[x] # "held" BY DEF Resolved, Move, At
      <3> QED BY <2>3, <3>1, LoopHand DEF AsidesResolve
    <2>4. CASE LateAsides(kept)
      <3>1. \A x \in Messages : place[x] # "pending"
        BY <2>4 DEF LateAsides, HandInv, At
      <3>2. \A x \in Messages : place'[x] # "pending"
        BY <2>4, <3>1 DEF LateAsides, Resolved, Move
      <3> QED BY <2>4, <3>2 DEF LateAsides, Ask, HandInv, At
    <2> QED BY <2>1, <2>2, <2>3, <2>4
  <1>2. CASE Commit BY <1>2 DEF Commit, HandInv, At, Move
  <1>3. CASE Tail \/ OpenTurn \/ OpenStream \/ ToolsSettle
    BY <1>3 DEF Tail, OpenTurn, OpenStream, ToolsSettle, HandInv, At
  <1>4. CASE ReplyWithTools \/ (\E r \in BOOLEAN : ReplyWithout(r))
    BY <1>4 DEF ReplyWithTools, ReplyWithout, HandInv, At, Move
  <1>5. CASE PrepareFails \/ GateStops \/ ReplyFails \/ CallThrows \/ LeakPersists
    BY <1>5, FinishHand DEF PrepareFails, GateStops, ReplyFails, CallThrows, LeakPersists, Threw
  <1> QED BY <1>1, <1>2, <1>3, <1>4, <1>5

LEMMA HostHand ==
    ASSUME TypeOK, HandInv, Host
    PROVE  HandInv'
  <1>1. pc' = pc BY DEF Host, Send, Retract, Clear, Abort, TerminalResult, Clock,
                        DeadlineTimer, hostFrame
  <1>2. \A x \in Messages : place'[x] \in {"held", "pending"} => place'[x] = place[x]
    BY DEF Host, Send, Retract, Clear, Abort, TerminalResult, Clock, DeadlineTimer,
           At, Move, TypeOK
  <1> QED BY <1>1, <1>2 DEF HandInv, At

LEMMA HandStep ==
    ASSUME TypeOK, HandInv, [Next]_vars
    PROVE  HandInv'
  <1>1. CASE LoopStep
    BY <1>1, StartHand, LoopStepHand, OtherStepHand DEF LoopStep
  <1>2. CASE Prompt \/ Continue BY <1>2, StartHand
  <1>3. CASE Host BY <1>3, HostHand
  <1>4. CASE UNCHANGED vars BY <1>4 DEF vars, HandInv, At
  <1> QED BY <1>1, <1>2, <1>3, <1>4 DEF Next

THEOREM HandInvariant == Spec => [](TypeOK /\ HandInv)
  <1>1. Init => HandInv
    BY DEF Init, HandInv, At
  <1>2. TypeOK /\ HandInv /\ [Next]_vars => HandInv'
    BY HandStep
  <1> QED BY <1>1, <1>2, TypeCorrect, PTL DEF Spec

(* A message becomes lost only when a run ends, with the reason the        *)
(* property names.                                                         *)
LEMMA LossStep ==
    ASSUME TypeOK, HandInv, [Next]_vars, NEW m \in Messages,
           place[m] # "lost", place'[m] = "lost"
    PROVE  late \/ outcome' \in {"terminal", "threw"}
  <1>1. \A pl, em, how : Finish(pl, em, how) =>
           /\ outcome' = how
           /\ pl[m] \in {"held", "pending", "lost"}
    BY DEF Finish
  <1>2. \A pl, n : Loop(pl, n) => late \/ place' = pl
    BY DEF Loop
  <1>3. CASE Prompt \/ Continue \/ ContSteer \/ ContFollow \/ ContHookFails
    <2>1. \A S, skip, at : Launch(S, skip, at) => late
      BY DEF Launch, Move
    <2> QED BY <1>1, <1>3, <2>1
         DEF Continue, Prompt, ContinueOpen, ContinueReplay, ContinueAssistant, ContSteer,
             ContFollow, ContHookFails
  <1>4. CASE Poll \/ TailEnd \/ Leak \/ TurnEnd \/ Boundary \/ BeforeYield \/ LateSteering
    BY <1>1, <1>2, <1>4
    DEF Poll, TailEnd, Leak, TurnEnd, Boundary, BeforeYield, LateSteering, Threw, Move
  <1>5. CASE Follow
    <2>1. CASE Finish(place, emitted, "end") /\ At(Messages, "held") = {} /\ pc = "follow"
      BY <1>1, <2>1 DEF HandInv, At
    <2> QED BY <1>1, <1>2, <1>5, <2>1 DEF Follow, Threw, Move
  <1>6. CASE AsideStep
    <2>1. PICK kept \in SUBSET At(Asides, "queued") :
             AsidesFail(kept) \/ AsidesResolve(kept) \/ LateAsides(kept)
      BY <1>6, AsideStepCases
    <2>2. CASE AsidesFail(kept) BY <1>1, <2>2 DEF AsidesFail, Threw
    <2>3. CASE AsidesResolve(kept) \/ LateAsides(kept)
      BY <1>1, <1>2, <2>3 DEF AsidesResolve, LateAsides, Resolved, Move
    <2> QED BY <2>1, <2>2, <2>3
  <1>7. CASE Commit \/ ReplyWithTools \/ (\E r \in BOOLEAN : ReplyWithout(r))
    BY <1>7 DEF Commit, ReplyWithTools, ReplyWithout, Move
  <1>8. CASE PrepareFails \/ GateStops \/ ReplyFails \/ CallThrows \/ LeakPersists
    <2>1. place[m] \notin {"held", "pending"}
      BY <1>8 DEF PrepareFails, GateStops, ReplyFails, CallThrows, LeakPersists, HandInv, At
    <2>2. PICK em, how : Finish(place, em, how)
      BY <1>8 DEF PrepareFails, GateStops, ReplyFails, CallThrows, LeakPersists, Threw
    <2> QED BY <1>1, <2>1, <2>2
  <1>9. CASE Host
    BY <1>9 DEF Host, Send, Retract, Clear, Abort, TerminalResult, Clock, DeadlineTimer,
                Move, TypeOK
  <1>10. CASE place' = place BY <1>10
  <1> QED BY <1>3, <1>4, <1>5, <1>6, <1>7, <1>8, <1>9, <1>10
       DEF Next, LoopStep, vars, Tail, OpenTurn, OpenStream, ToolsSettle

(* No abort, gate or failed model call loses a message.                    *)
THEOREM LossCorrect == Spec => LossNeedsCause
  <1>1. TypeOK /\ HandInv /\ [Next]_vars
          => [\A m \in Messages : place[m] # "lost" /\ place'[m] = "lost"
                => late \/ outcome' \in {"terminal", "threw"}]_vars
    BY LossStep
  <1> QED BY <1>1, HandInvariant, PTL DEF Spec, LossNeedsCause

-----------------------------------------------------------------------------
(* What the model has seen.  Without leaked replies the loop head is       *)
(* reached with hasMoreToolCalls false only after a reply.                 *)

Answered == AnsweredInv /\ EndMeansAnswered

LEMMA FinishAnswered ==
    ASSUME NEW pl, NEW em, NEW how, Finish(pl, em, how),
           how = "end" => \A x \in Messages : pl[x] # "context"
    PROVE  Answered'
  BY DEF Finish, Answered, AnsweredInv, EndMeansAnswered, AfterReply, At

LEMMA LoopAnswered ==
    ASSUME NEW pl, NEW m \in BOOLEAN, Loop(pl, m),
           m \/ \A x \in Messages : pl[x] # "context"
    PROVE  Answered'
  <1>1. CASE late BY <1>1, FinishAnswered DEF Loop
  <1>2. CASE ~late /\ pc' = "yield"
    BY <1>2 DEF Answered, AnsweredInv, EndMeansAnswered, AfterReply
  <1>3. CASE ~late /\ pc' # "yield"
    BY <1>3 DEF Loop, Answered, AnsweredInv, EndMeansAnswered, AfterReply, At
  <1> QED BY <1>1, <1>2, <1>3

(* A step that neither leaves the run nor commits anything, and reaches a  *)
(* point after a reply only from another one.                              *)
LEMMA QuietAnswered ==
    ASSUME Answered, pc' # "idle",
           pc' \in AfterReply => pc \in AfterReply,
           \A x \in Messages : place'[x] = "context" => place[x] = "context"
    PROVE  Answered'
  BY DEF Answered, AnsweredInv, EndMeansAnswered, At

LEMMA StartAnswered ==
    ASSUME Answered,
           Prompt \/ Continue \/ ContSteer \/ ContFollow \/ ContHookFails
    PROVE  Answered'
  <1>1. ASSUME NEW S, NEW skip, NEW at \in {"poll", "tailPoll"}, Launch(S, skip, at)
        PROVE  Answered'
    <2>1. CASE late BY <1>1, <2>1, FinishAnswered DEF Launch
    <2>2. CASE ~late
      BY <1>1, <2>2 DEF Launch, Answered, AnsweredInv, EndMeansAnswered, AfterReply
    <2> QED BY <2>1, <2>2
  <1>2. CASE Prompt \/ ContinueOpen \/ ContinueReplay
    BY <1>1, <1>2 DEF Prompt, ContinueOpen, ContinueReplay
  <1>3. CASE ContinueAssistant
    BY <1>3 DEF ContinueAssistant, Answered, AnsweredInv, EndMeansAnswered, AfterReply
  <1>4. CASE ContSteer
    <2>1. CASE Launch(Answer(Steers, SteerOne), TRUE, "poll") BY <1>1, <2>1
    <2>2. CASE ~Launch(Answer(Steers, SteerOne), TRUE, "poll")
      BY <1>4, <2>2
      DEF ContSteer, Ask, Answered, AnsweredInv, EndMeansAnswered, AfterReply
    <2> QED BY <2>1, <2>2
  <1>5. CASE ContFollow \/ ContHookFails
    BY <1>1, <1>5, FinishAnswered DEF ContFollow, ContHookFails
  <1> QED BY <1>2, <1>3, <1>4, <1>5 DEF Continue

LEMMA LoopStepAnswered ==
    ASSUME TypeOK, Answered,
           Poll \/ TailEnd \/ TurnEnd \/ Boundary \/ BeforeYield \/ LateSteering \/ Follow
    PROVE  Answered'
  <1>0. more \in BOOLEAN BY DEF TypeOK
  <1>1. \A em : Threw(em) => Answered' BY FinishAnswered DEF Threw
  <1>2. CASE Poll
    <2>1. CASE pc' = "tail"
      BY <2>1 DEF Answered, AnsweredInv, EndMeansAnswered, AfterReply
    <2> QED BY <1>1, <1>2, <2>1, LoopAnswered DEF Poll
  <1>3. CASE TailEnd
    BY <1>1, <1>3, LoopAnswered, FinishAnswered DEF TailEnd
  <1>4. CASE TurnEnd \/ BeforeYield
    <2>1. CASE Finish(place, emitted, "deadline") BY <2>1, FinishAnswered
    <2>2. CASE place' = place /\ pc \in {"turnEnd", "beforeYield"} /\ pc' # "idle"
      BY <2>2, QuietAnswered DEF AfterReply
    <2> QED BY <1>1, <1>4, <2>1, <2>2 DEF TurnEnd, BeforeYield, Ask
  <1>5. CASE Boundary
    <2> DEFINE got == Answer(Steers, SteerOne)
    <2>1. \A x \in Messages : place[x] # "context"
      BY <1>5 DEF Boundary, Answered, AnsweredInv, AfterReply, At
    <2>2. \A x \in Messages : Move(place, got, "pending")[x] # "context"
      BY <2>1 DEF Move
    <2>3. CASE Loop(Move(place, got, "pending"), more)
      BY <1>0, <2>2, <2>3, LoopAnswered
    <2>4. CASE pc' = "asides" /\ place' = Move(place, got, "held")
      BY <2>1, <2>4 DEF Answered, AnsweredInv, EndMeansAnswered, At, Move
    <2> QED BY <1>1, <1>5, <2>3, <2>4 DEF Boundary
  <1>6. CASE LateSteering
    <2>1. CASE /\ place' = Move(place, Answer(Steers, SteerOne), "held")
               /\ pc = "late" /\ pc' \in {"lateAsides", "follow"}
      BY <2>1, QuietAnswered DEF Move, AfterReply
    <2> QED BY <1>1, <1>6, <2>1 DEF LateSteering, Ask
  <1>7. CASE Follow
    <2>1. \A x \in Messages : place[x] # "context"
      BY <1>7 DEF Follow, Answered, AnsweredInv, AfterReply, At
    <2> QED BY <1>1, <1>7, <2>1, LoopAnswered, FinishAnswered DEF Follow
  <1> QED BY <1>2, <1>3, <1>4, <1>5, <1>6, <1>7

LEMMA OtherStepAnswered ==
    ASSUME TypeOK, Answered,
           \/ AsideStep
           \/ Tail \/ Commit \/ PrepareFails \/ GateStops \/ OpenTurn \/ OpenStream
             \/ ReplyFails \/ CallThrows \/ ReplyWithTools
             \/ (\E r \in BOOLEAN : ReplyWithout(r)) \/ LeakPersists \/ ToolsSettle
    PROVE  Answered'
  <1>0. more \in BOOLEAN BY DEF TypeOK
  <1>1. CASE AsideStep
    <2>1. PICK kept \in SUBSET At(Asides, "queued") :
             AsidesFail(kept) \/ AsidesResolve(kept) \/ LateAsides(kept)
      BY <1>1, AsideStepCases
    <2>2. CASE AsidesFail(kept) BY <2>2, FinishAnswered DEF AsidesFail, Threw
    <2>3. CASE AsidesResolve(kept)
      <3> DEFINE pl == Move(Resolved(kept, "pending"), At(Messages, "held"), "pending")
      <3>1. \A x \in Messages : pl[x] # "context"
        BY <2>3 DEF AsidesResolve, Answered, AnsweredInv, AfterReply, Resolved, Move, At
      <3> QED BY <1>0, <2>3, <3>1, LoopAnswered DEF AsidesResolve
    <2>4. CASE LateAsides(kept)
      BY <2>4, QuietAnswered DEF LateAsides, Ask, Resolved, Move, AfterReply
    <2> QED BY <2>1, <2>2, <2>3, <2>4
  <1>2. CASE Commit \/ Tail \/ OpenTurn \/ OpenStream
    BY <1>2 DEF Commit, Tail, OpenTurn, OpenStream, Answered, AnsweredInv,
                EndMeansAnswered, AfterReply
  <1>3. CASE ToolsSettle
    BY <1>3, QuietAnswered DEF ToolsSettle, AfterReply
  <1>4. CASE ReplyWithTools \/ (\E r \in BOOLEAN : ReplyWithout(r))
    BY <1>4 DEF ReplyWithTools, ReplyWithout, Answered, AnsweredInv, EndMeansAnswered, At, Move
  <1>5. CASE PrepareFails \/ GateStops \/ ReplyFails \/ CallThrows \/ LeakPersists
    BY <1>5, FinishAnswered
    DEF PrepareFails, GateStops, ReplyFails, CallThrows, LeakPersists, Threw
  <1> QED BY <1>1, <1>2, <1>3, <1>4, <1>5

LEMMA HostAnswered ==
    ASSUME TypeOK, Answered, Host
    PROVE  Answered'
  <1>1. pc' = pc /\ outcome' = outcome
    BY DEF Host, Send, Retract, Clear, Abort, TerminalResult, Clock, DeadlineTimer, hostFrame
  <1>2. \A x \in Messages : place'[x] = "context" => place[x] = "context"
    BY DEF Host, Send, Retract, Clear, Abort, TerminalResult, Clock, DeadlineTimer,
           At, Move, TypeOK
  <1> QED BY <1>1, <1>2 DEF Answered, AnsweredInv, EndMeansAnswered, At

(* A run that ends by itself leaves no committed message unanswered, when  *)
(* the model in use cannot leak.                                           *)
THEOREM AnsweredCorrect ==
    ASSUME ~Leaks
    PROVE  Spec => []EndMeansAnswered
  <1>1. Init => Answered
    BY DEF Init, Answered, AnsweredInv, EndMeansAnswered, AfterReply, At
  <1>2. TypeOK /\ Answered /\ [Next]_vars => Answered'
    <2> SUFFICES ASSUME TypeOK, Answered, [Next]_vars PROVE Answered'
      OBVIOUS
    <2>1. CASE LoopStep
      BY <2>1, StartAnswered, LoopStepAnswered, OtherStepAnswered DEF LoopStep, Leak
    <2>2. CASE Prompt \/ Continue BY <2>2, StartAnswered
    <2>3. CASE Host BY <2>3, HostAnswered
    <2>4. CASE UNCHANGED vars
      BY <2>4 DEF vars, Answered, AnsweredInv, EndMeansAnswered, At
    <2> QED BY <2>1, <2>2, <2>3, <2>4 DEF Next
  <1>3. Answered => EndMeansAnswered BY DEF Answered
  <1> QED BY <1>1, <1>2, <1>3, TypeCorrect, PTL DEF Spec

-----------------------------------------------------------------------------
(* Asides.  Between the two late polls only steering is held, so a drained *)
(* aside is in the loop's hands, unsettled, only at the follow-up poll.    *)

HeldAtFollow == (\E a \in Asides : place[a] = "held") => pc = "follow"

(* The step AsideSettled allows.                                           *)
SettledStep ==
    \A a \in Asides :
      place[a] # "lost" /\ place'[a] = "lost"
        => /\ outcome' = "threw"
           /\ \/ place[a] = "queued" /\ pc \in {"asides", "lateAsides"}
              \/ place[a] = "held" /\ pc = "follow" /\ hooked

AsideGoal == HeldAtFollow' /\ SettledStep

(* pl holds no aside and loses none that place has not lost.               *)
NoneHeld(pl) == \A a \in Asides : pl[a] # "held" /\ (pl[a] = "lost" => place[a] = "lost")

LEMMA FinishAsides ==
    ASSUME NEW pl, NEW em, NEW how, Finish(pl, em, how), NoneHeld(pl)
    PROVE  AsideGoal
  <1>1. Asides \subseteq Messages BY DEF Messages
  <1>2. \A a \in Asides : place'[a] # "held" /\ (place'[a] = "lost" => place[a] = "lost")
    BY <1>1 DEF Finish, NoneHeld
  <1> QED BY <1>2 DEF AsideGoal, HeldAtFollow, SettledStep

LEMMA MoveAsides ==
    ASSUME NEW pl, place' = pl, NoneHeld(pl)
    PROVE  AsideGoal
  BY DEF NoneHeld, AsideGoal, HeldAtFollow, SettledStep

LEMMA LoopAsides ==
    ASSUME NEW pl, NEW m, Loop(pl, m), NoneHeld(pl)
    PROVE  AsideGoal
  <1>1. CASE late BY <1>1, FinishAsides DEF Loop
  <1>2. CASE ~late BY <1>2, MoveAsides DEF Loop
  <1> QED BY <1>1, <1>2

LEMMA AsideStepSettles ==
    ASSUME TypeOK, HeldAtFollow, AsideStep
    PROVE  AsideGoal
  <1>0. /\ Asides \subseteq Messages /\ Asides \subseteq Nat
    BY LoopAssumption DEF Messages
  <1>1. PICK kept \in SUBSET At(Asides, "queued") :
           AsidesFail(kept) \/ AsidesResolve(kept) \/ LateAsides(kept)
    BY AsideStepCases
  <1>2. \A a \in Asides : place[a] # "held"
    BY <1>1 DEF AsidesFail, AsidesResolve, LateAsides, HeldAtFollow
  <1>3. CASE AsidesFail(kept)
    <2>1. CASE Threw(emitted)
      BY <1>2, <2>1, FinishAsides DEF Threw, NoneHeld
    <2>2. ASSUME NEW bad \in At(Asides, "queued"), Finish(BrokenAt(kept, bad), emitted, "threw")
          PROVE  AsideGoal
      <3>1. \A a \in Asides : BrokenAt(kept, bad)[a] # "held"
        BY <1>0, <1>2 DEF BrokenAt, Resolved, Move
      <3>2. \A a \in Asides : BrokenAt(kept, bad)[a] = "lost" => place[a] \in {"queued", "lost"}
        BY <1>0 DEF BrokenAt, Resolved, Move, At
      <3>3. \A a \in Asides : place'[a] # "held" /\ (place'[a] = "lost" => place[a] \in {"queued", "lost"})
        BY <1>0, <2>2, <3>1, <3>2 DEF Finish
      <3> QED BY <1>3, <2>2, <3>3 DEF AsidesFail, Finish, AsideGoal, HeldAtFollow, SettledStep
    <2> QED BY <1>3, <2>1, <2>2 DEF AsidesFail
  <1>4. CASE AsidesResolve(kept)
    <2> DEFINE pl == Move(Resolved(kept, "pending"), At(Messages, "held"), "pending")
    <2>1. NoneHeld(pl)
      BY <1>0, <1>2 DEF Resolved, Move, At, NoneHeld
    <2> QED BY <1>4, <2>1, LoopAsides DEF AsidesResolve
  <1>5. CASE LateAsides(kept)
    <2>1. \A a \in Asides : place'[a] = "lost" => place[a] = "lost"
      BY <1>0, <1>5 DEF LateAsides, Resolved, Move
    <2> QED BY <1>5, <2>1 DEF LateAsides, Ask, AsideGoal, HeldAtFollow, SettledStep
  <1> QED BY <1>1, <1>3, <1>4, <1>5

LEMMA AsideInvStep ==
    ASSUME TypeOK, HandInv, HeldAtFollow, [Next]_vars
    PROVE  AsideGoal
  <1>0. /\ Asides \subseteq Messages
        /\ \A Q \in {Steers, FollowUps} : \A one : \A a \in Asides : a \notin Answer(Q, one)
    BY LoopAssumption DEF Messages, Queued, Answer, Batch, At
  <1>1. \A em : Threw(em) => Finish(place, em, "threw") BY DEF Threw
  <1>2. pc # "follow" => NoneHeld(place)
    BY DEF HeldAtFollow, NoneHeld
  <1>3. CASE Prompt \/ Continue \/ ContSteer \/ ContFollow \/ ContHookFails
    <2>1. NoneHeld(place)
      BY <1>2, <1>3 DEF Prompt, Continue, ContinueOpen, ContinueReplay, ContinueAssistant,
                        ContSteer, ContFollow, ContHookFails
    <2>2. ASSUME NEW S, NEW skip, NEW at, Launch(S, skip, at)
          PROVE  AsideGoal
      <3>1. NoneHeld(Move(place, S, "context"))
        BY <1>0, <2>1 DEF Move, NoneHeld
      <3>2. CASE late BY <2>2, <3>1, <3>2, FinishAsides DEF Launch
      <3>3. CASE ~late BY <2>2, <3>1, <3>3, MoveAsides DEF Launch
      <3> QED BY <3>2, <3>3
    <2>3. CASE Finish(place, emitted, "threw") BY <2>1, <2>3, FinishAsides
    <2>4. CASE place' = place BY <2>1, <2>4, MoveAsides
    <2> QED BY <1>3, <2>2, <2>3, <2>4
         DEF Prompt, Continue, ContinueOpen, ContinueReplay, ContinueAssistant,
             ContSteer, ContFollow, ContHookFails
  <1>4. CASE Poll \/ TailEnd \/ Leak \/ TurnEnd \/ Boundary \/ BeforeYield \/ LateSteering
    <2>1. NoneHeld(place)
      BY <1>2, <1>4 DEF Poll, TailEnd, Leak, TurnEnd, Boundary, BeforeYield, LateSteering
    <2>2. \A l : NoneHeld(Move(place, Answer(Steers, SteerOne), l))
      BY <1>0, <2>1 DEF Move, NoneHeld
    <2>3. CASE \E em, how : Finish(place, em, how) BY <2>1, <2>3, FinishAsides
    <2>4. CASE \/ \E m : Loop(place, m)
               \/ \E m : Loop(Move(place, Answer(Steers, SteerOne), "pending"), m)
      BY <2>1, <2>2, <2>4, LoopAsides
    <2>5. CASE place' = place \/ \E l : place' = Move(place, Answer(Steers, SteerOne), l)
      BY <2>1, <2>2, <2>5, MoveAsides
    <2> QED BY <1>1, <1>4, <2>3, <2>4, <2>5
         DEF Poll, TailEnd, Leak, TurnEnd, Boundary, BeforeYield, LateSteering
  <1>5. CASE Follow
    <2> DEFINE got == Answer(FollowUps, FollowOne) \cup At(Messages, "held")
    <2>1. NoneHeld(Move(place, got, "pending"))
      BY <1>0 DEF Move, At, NoneHeld
    <2>2. got = {} => NoneHeld(place)
      BY <1>0 DEF At, NoneHeld
    <2>3. CASE Loop(Move(place, got, "pending"), TRUE) BY <2>1, <2>3, LoopAsides
    <2>4. CASE got = {} /\ Finish(place, emitted, "end") BY <2>2, <2>4, FinishAsides
    <2>5. CASE HookFails /\ Threw(emitted)
      <3>1. pc = "follow" /\ hooked /\ Finish(place, emitted, "threw")
        BY <1>5, <2>5 DEF Follow, HookFails, Threw
      <3>2. At(Messages, "pending") = {} BY <3>1 DEF HandInv
      <3>3. \A a \in Asides :
              place'[a] # "held" /\ (place'[a] = "lost" => place[a] \in {"held", "lost"})
        BY <1>0, <3>1, <3>2 DEF Finish, At
      <3>4. outcome' = "threw" BY <3>1 DEF Finish
      <3>5. pc = "follow" /\ hooked BY <3>1
      <3>6. \A a \in Asides : place[a] # "lost" /\ place'[a] = "lost" => place[a] = "held"
        BY <3>3
      <3>7. SettledStep BY <3>4, <3>5, <3>6, Zenon DEF SettledStep
      <3>8. HeldAtFollow' BY <3>3 DEF HeldAtFollow
      <3> QED BY <3>7, <3>8, Zenon DEF AsideGoal
    <2> QED BY <1>5, <2>3, <2>4, <2>5 DEF Follow
  <1>6. CASE AsideStep
    BY <1>6, AsideStepSettles
  <1>7. CASE Commit \/ ReplyWithTools \/ (\E r \in BOOLEAN : ReplyWithout(r))
    <2>1. NoneHeld(place) BY <1>2, <1>7 DEF Commit, ReplyWithTools, ReplyWithout
    <2>2. \A S : /\ NoneHeld(Move(place, S, "context"))
                 /\ NoneHeld(Move(place, S, "answered"))
      BY <1>0, <2>1 DEF Move, NoneHeld
    <2> QED BY <1>7, <2>2, MoveAsides DEF Commit, ReplyWithTools, ReplyWithout
  <1>8. CASE PrepareFails \/ GateStops \/ ReplyFails \/ CallThrows \/ LeakPersists
    <2>1. NoneHeld(place)
      BY <1>2, <1>8 DEF PrepareFails, GateStops, ReplyFails, CallThrows, LeakPersists
    <2>2. PICK em, how : Finish(place, em, how)
      BY <1>8 DEF PrepareFails, GateStops, ReplyFails, CallThrows, LeakPersists, Threw
    <2> QED BY <2>1, <2>2, FinishAsides
  <1>9. CASE Host
    <2>1. pc' = pc
      BY <1>9 DEF Host, Send, Retract, Clear, Abort, TerminalResult, Clock,
                  DeadlineTimer, hostFrame
    <2>2. \A a \in Asides : place'[a] \in {"held", "lost"} => place'[a] = place[a]
      BY <1>0, <1>9 DEF Host, Send, Retract, Clear, Abort, TerminalResult, Clock,
                        DeadlineTimer, At, Move, TypeOK
    <2> QED BY <2>1, <2>2 DEF AsideGoal, HeldAtFollow, SettledStep
  <1>10. CASE Tail \/ OpenTurn \/ OpenStream \/ ToolsSettle \/ UNCHANGED vars
    <2>1. place' = place
      BY <1>10 DEF Tail, OpenTurn, OpenStream, ToolsSettle, vars
    <2>2. pc = "follow" => pc' = "follow"
      BY <1>10 DEF Tail, OpenTurn, OpenStream, ToolsSettle, vars
    <2> QED BY <2>1, <2>2 DEF AsideGoal, HeldAtFollow, SettledStep
  <1> QED BY <1>3, <1>4, <1>5, <1>6, <1>7, <1>8, <1>9, <1>10 DEF Next, LoopStep

(* A drained aside is committed, dropped or discarded, with the deadline,  *)
(* aborts, gates and exceptions, except where a thunk of its drain or the  *)
(* follow-up poll after it throws: once it is pending it is settled.       *)
THEOREM AsidesCorrect == Spec => AsideSettled
  <1>1. Init => HeldAtFollow
    BY DEF Init, HeldAtFollow, Messages
  <1>2. TypeOK /\ HandInv /\ HeldAtFollow /\ [Next]_vars => HeldAtFollow' /\ SettledStep
    BY AsideInvStep DEF AsideGoal
  <1> QED BY <1>1, <1>2, HandInvariant, PTL DEF Spec, AsideSettled, SettledStep

-----------------------------------------------------------------------------
(* What the transcript records.  Without leaked replies no turn is open    *)
(* when messages are committed, so that their events are pushed with the   *)
(* turn that answers them.                                                 *)

Recorded == RecordInv /\ SeenIsRecorded

(* pl commits and answers nothing that place does not. *)
Grounded(pl) ==
    \A x \in Messages :
      /\ pl[x] = "answered" => place[x] = "answered"
      /\ pl[x] = "context" => place[x] = "context"

LEMMA FinishRecorded ==
    ASSUME Recorded, NEW pl, NEW em, NEW how, Finish(pl, em, how), Grounded(pl),
           emitted \subseteq em, toEmit \subseteq em
    PROVE  Recorded'
  <1>1. \A x \in Messages :
          place'[x] \in {"answered", "context"} => place[x] \in {"answered", "context"}
                                                   /\ place'[x] = pl[x]
    BY DEF Finish, Grounded
  <1>2. SeenIsRecorded'
    BY <1>1 DEF Finish, Grounded, Recorded, SeenIsRecorded
  <1> QED BY <1>2 DEF Finish, Recorded, RecordInv, BeforeCall, AfterReply

LEMMA LoopRecorded ==
    ASSUME Recorded, NEW pl, NEW m \in BOOLEAN, Loop(pl, m), Grounded(pl),
           turnOpen' = FALSE, m \/ toEmit = {}
    PROVE  Recorded'
  <1>1. CASE late
    BY <1>1, FinishRecorded DEF Loop
  <1>2. CASE ~late
    <2>1. place' = pl /\ emitted' = emitted /\ toEmit' = toEmit
      BY <1>2 DEF Loop, events
    <2>2. SeenIsRecorded'
      BY <2>1 DEF Grounded, Recorded, SeenIsRecorded
    <2>3. pc' = "yield" \/ (pc' = "beforeYield" /\ toEmit = {})
      BY <1>2 DEF Loop
    <2> QED BY <2>1, <2>2, <2>3 DEF Recorded, RecordInv, BeforeCall
  <1> QED BY <1>1, <1>2

(* A step that commits nothing, pushes nothing and stays in the run. *)
LEMMA QuietRecorded ==
    ASSUME Recorded, Grounded(place'), UNCHANGED events,
           turnOpen' \in {turnOpen, FALSE},
           pc' \in BeforeCall \cup AfterReply \cup {"tailEnd"} => ~turnOpen' \/ pc' = "tools",
           toEmit = {} \/ pc' \in BeforeCall
    PROVE  Recorded'
  <1>1. SeenIsRecorded'
    BY DEF events, Grounded, Recorded, SeenIsRecorded
  <1> QED BY <1>1 DEF events, Recorded, RecordInv

(* Messages dequeued or resolved are not committed yet. *)
LEMMA MovesGround ==
    ASSUME NEW S, NEW l \in {"held", "pending", "dropped", "discarded"}
    PROVE  Grounded(Move(place, S, l))
  BY DEF Grounded, Move

LEMMA LaunchRecorded ==
    ASSUME Recorded, NEW S, NEW skip, NEW at \in {"poll", "tailPoll"}, Launch(S, skip, at),
           pc \in {"idle", "contSteer", "contFollow"}
    PROVE  Recorded'
  <1>1. toEmit = {}
    BY DEF Recorded, RecordInv, BeforeCall
  <1> DEFINE pl == Move(place, S, "context")
  <1>2. \A x \in Messages : /\ pl[x] = "answered" => x \in emitted
                            /\ pl[x] = "context" => x \in emitted \cup S
    BY <1>1 DEF Move, Recorded, SeenIsRecorded
  <1>3. CASE late
    <2>1. \A x \in Messages : place'[x] \in {"answered", "context"} => place'[x] = pl[x]
      BY <1>3 DEF Launch, Finish
    <2>2. SeenIsRecorded'
      BY <1>2, <1>3, <2>1 DEF Launch, Finish, SeenIsRecorded
    <2> QED BY <1>3, <2>2 DEF Launch, Finish, Recorded, RecordInv, BeforeCall, AfterReply
  <1>4. CASE ~late
    <2>1. SeenIsRecorded'
      BY <1>2, <1>4 DEF Launch, SeenIsRecorded
    <2> QED BY <1>4, <2>1 DEF Launch, Recorded, RecordInv, BeforeCall
  <1> QED BY <1>3, <1>4

LEMMA StartRecorded ==
    ASSUME TypeOK, Recorded,
           Prompt \/ Continue \/ ContSteer \/ ContFollow \/ ContHookFails
    PROVE  Recorded'
  <1>1. pc \in {"idle", "contSteer", "contFollow"} /\ toEmit = {}
    BY DEF Prompt, Continue, ContinueOpen, ContinueReplay, ContinueAssistant, ContSteer,
           ContFollow, ContHookFails, Recorded, RecordInv, BeforeCall
  <1>2. Grounded(place)
    BY DEF Grounded
  <1>3. CASE Prompt \/ ContinueOpen \/ ContinueReplay
    BY <1>1, <1>3, LaunchRecorded DEF Prompt, ContinueOpen, ContinueReplay
  <1>4. CASE ContinueAssistant
    <2>1. /\ pc' = "contSteer" /\ UNCHANGED events /\ place' = place
          /\ turnOpen' = turnOpen
      BY <1>4 DEF ContinueAssistant
    <2> QED BY <1>1, <1>2, <2>1, QuietRecorded DEF BeforeCall, AfterReply
  <1>5. CASE ContSteer
    <2>1. CASE Launch(Answer(Steers, SteerOne), TRUE, "poll")
      BY <1>1, <2>1, LaunchRecorded
    <2>2. CASE ~Launch(Answer(Steers, SteerOne), TRUE, "poll")
      <3>1. /\ pc' = "contFollow" /\ UNCHANGED events /\ place' = place
            /\ turnOpen' = turnOpen
        BY <1>5, <2>2 DEF ContSteer, Ask
      <3> QED BY <1>1, <1>2, <3>1, QuietRecorded DEF BeforeCall, AfterReply
    <2> QED BY <2>1, <2>2
  <1>6. CASE ContFollow \/ ContHookFails
    BY <1>1, <1>2, <1>6, FinishRecorded, LaunchRecorded DEF ContFollow, ContHookFails
  <1> QED BY <1>3, <1>4, <1>5, <1>6 DEF Continue

LEMMA LoopStepRecorded ==
    ASSUME TypeOK, Recorded,
           Poll \/ TailEnd \/ TurnEnd \/ Boundary \/ BeforeYield \/ LateSteering \/ Follow
    PROVE  Recorded'
  <1>0. more \in BOOLEAN /\ turnOpen \in BOOLEAN /\ Grounded(place)
    BY DEF TypeOK, Grounded
  <1>1. /\ pc \in BeforeCall \cup AfterReply \cup {"tailEnd"} /\ pc # "tools"
        /\ turnOpen = FALSE
        /\ pc \notin BeforeCall => toEmit = {}
    BY <1>0 DEF Poll, TailEnd, TurnEnd, Boundary, BeforeYield, LateSteering, Follow,
                Recorded, RecordInv, BeforeCall, AfterReply
  <1>2. \A em : Threw(em) /\ emitted \subseteq em /\ toEmit \subseteq em => Recorded'
    BY <1>0, FinishRecorded DEF Threw
  <1>3. CASE Poll
    <2> DEFINE pl == Move(place, Answer(Steers, SteerOne), "pending")
    <2>1. Grounded(pl)
      BY MovesGround
    <2>2. CASE Threw(emitted \cup toEmit)
      BY <1>2, <2>2
    <2>3. CASE Loop(pl, TRUE) /\ UNCHANGED turnOpen
      BY <1>1, <2>1, <2>3, LoopRecorded
    <2>4. CASE /\ pc' = "tail" /\ place' = pl
               /\ emitted' = emitted \cup toEmit /\ toEmit' = {}
      <3>1. SeenIsRecorded'
        BY <2>1, <2>4 DEF Grounded, Recorded, SeenIsRecorded
      <3> QED BY <2>4, <3>1 DEF Recorded, RecordInv, BeforeCall, AfterReply
    <2> QED BY <1>3, <2>2, <2>3, <2>4 DEF Poll
  <1>4. CASE TailEnd
    <2>1. toEmit = {} /\ turnOpen' = FALSE
      BY <1>1, <1>4 DEF TailEnd, BeforeCall
    <2>2. CASE Loop(place, TRUE)
      BY <1>0, <2>1, <2>2, LoopRecorded
    <2>3. CASE Finish(place, emitted, "terminal")
      BY <1>0, <2>1, <2>3, FinishRecorded
    <2> QED BY <1>2, <1>4, <2>1, <2>2, <2>3 DEF TailEnd
  <1>5. CASE TurnEnd \/ BeforeYield
    <2>1. toEmit = {} /\ turnOpen' = FALSE
      BY <1>1, <1>5 DEF TurnEnd, BeforeYield, BeforeCall
    <2>2. CASE Finish(place, emitted, "deadline")
      BY <1>0, <2>1, <2>2, FinishRecorded
    <2>3. CASE place' = place /\ UNCHANGED events
      BY <1>0, <2>1, <2>3, QuietRecorded
    <2> QED BY <1>2, <1>5, <2>1, <2>2, <2>3 DEF TurnEnd, BeforeYield
  <1>6. CASE Boundary
    <2> DEFINE got == Answer(Steers, SteerOne)
    <2>1. toEmit = {} /\ turnOpen' = FALSE
      BY <1>1, <1>6 DEF Boundary, BeforeCall
    <2>2. CASE Loop(Move(place, got, "pending"), more)
      BY <1>0, <2>1, <2>2, LoopRecorded, MovesGround
    <2>3. CASE place' = Move(place, got, "held") /\ UNCHANGED events
      <3>1. Grounded(Move(place, got, "held"))
        BY MovesGround
      <3>2. Grounded(place')
        BY <2>3, <3>1
      <3> QED BY <2>1, <2>3, <3>2, QuietRecorded
    <2> QED BY <1>2, <1>6, <2>1, <2>2, <2>3 DEF Boundary
  <1>7. CASE LateSteering
    <2> DEFINE got == Answer(Steers, SteerOne)
    <2>1. toEmit = {} /\ turnOpen' = FALSE
      BY <1>1, <1>7 DEF LateSteering, BeforeCall
    <2>2. CASE place' = Move(place, got, "held") /\ UNCHANGED events
      <3>1. Grounded(Move(place, got, "held"))
        BY MovesGround
      <3>2. Grounded(place')
        BY <2>2, <3>1
      <3> QED BY <2>1, <2>2, <3>2, QuietRecorded
    <2> QED BY <1>2, <1>7, <2>1, <2>2 DEF LateSteering
  <1>8. CASE Follow
    <2> DEFINE got == Answer(FollowUps, FollowOne) \cup At(Messages, "held")
    <2>1. toEmit = {} /\ turnOpen' = FALSE
      BY <1>1, <1>8 DEF Follow, BeforeCall
    <2>2. CASE Loop(Move(place, got, "pending"), TRUE)
      BY <2>1, <2>2, LoopRecorded, MovesGround
    <2>3. CASE Finish(place, emitted, "end")
      BY <1>0, <2>1, <2>3, FinishRecorded
    <2> QED BY <1>2, <1>8, <2>1, <2>2, <2>3 DEF Follow
  <1> QED BY <1>3, <1>4, <1>5, <1>6, <1>7, <1>8

LEMMA AsideStepRecorded == ASSUME TypeOK, Recorded, AsideStep PROVE Recorded'
  <1>0. more \in BOOLEAN /\ turnOpen \in BOOLEAN
    BY DEF TypeOK
  <1>1. PICK kept \in SUBSET At(Asides, "queued") :
          AsidesFail(kept) \/ AsidesResolve(kept) \/ LateAsides(kept)
    BY AsideStepCases
  <1>2. toEmit = {} /\ turnOpen = FALSE /\ turnOpen' = FALSE
    BY <1>0, <1>1 DEF AsidesFail, AsidesResolve, LateAsides, Recorded, RecordInv, BeforeCall,
                      AfterReply
  <1>3. \A l \in {"held", "pending", "discarded"} : Grounded(Resolved(kept, l))
    BY DEF Grounded, Resolved, Move
  <1>4. CASE AsidesFail(kept)
    <2>1. \A bad : Grounded(BrokenAt(kept, bad))
      BY <1>3 DEF Grounded, BrokenAt, Move
    <2>2. Grounded(place) BY DEF Grounded
    <2> QED BY <1>2, <1>4, <2>1, <2>2, FinishRecorded DEF AsidesFail, Threw
  <1>5. CASE AsidesResolve(kept)
    <2> DEFINE pl == Move(Resolved(kept, "pending"), At(Messages, "held"), "pending")
    <2>1. Grounded(pl)
      BY <1>3 DEF Grounded, Move
    <2> HIDE DEF pl
    <2>2. Loop(pl, more)
      BY <1>5 DEF AsidesResolve, pl
    <2> QED BY <1>0, <1>2, <2>1, <2>2, LoopRecorded
  <1>6. CASE LateAsides(kept)
    <2>1. Grounded(place') /\ UNCHANGED events
      BY <1>3, <1>6 DEF LateAsides
    <2> QED BY <1>2, <2>1, QuietRecorded
  <1> QED BY <1>1, <1>4, <1>5, <1>6

LEMMA TurnRecorded ==
    ASSUME TypeOK, Recorded,
           \/ Tail \/ Commit \/ PrepareFails \/ GateStops \/ OpenTurn \/ OpenStream
           \/ ReplyFails \/ CallThrows \/ ReplyWithTools
           \/ (\E r \in BOOLEAN : ReplyWithout(r)) \/ LeakPersists \/ ToolsSettle
    PROVE  Recorded'
  <1>0. Grounded(place) /\ turnOpen \in BOOLEAN
    BY DEF TypeOK, Grounded
  <1>1. CASE Commit
    <2>1. turnOpen = FALSE
      BY <1>0, <1>1 DEF Commit, Recorded, RecordInv, BeforeCall
    <2>2. SeenIsRecorded'
      BY <1>1 DEF Commit, Move, At, Recorded, SeenIsRecorded
    <2> QED BY <1>1, <2>1, <2>2 DEF Commit, Recorded, RecordInv, BeforeCall
  <1>2. CASE PrepareFails \/ GateStops
    <2>1. turnOpen = FALSE
      BY <1>0, <1>2 DEF PrepareFails, GateStops, Recorded, RecordInv, BeforeCall
    <2>2. PICK how : Finish(place, emitted \cup toEmit, how)
      BY <1>2, <2>1 DEF PrepareFails, GateStops, Threw
    <2> QED BY <1>0, <2>2, FinishRecorded
  <1>3. CASE OpenTurn
    <2>1. turnOpen = FALSE
      BY <1>0, <1>3 DEF OpenTurn, Recorded, RecordInv, BeforeCall
    <2>2. SeenIsRecorded'
      BY <1>3, <2>1 DEF OpenTurn, Recorded, SeenIsRecorded
    <2> QED BY <1>3, <2>2 DEF OpenTurn, Recorded, RecordInv, BeforeCall, AfterReply
  <1>4. CASE ReplyFails \/ CallThrows \/ LeakPersists
    <2>1. toEmit = {}
      BY <1>4 DEF ReplyFails, CallThrows, LeakPersists, Recorded, RecordInv, BeforeCall
    <2>2. PICK how : Finish(place, emitted, how)
      BY <1>4 DEF ReplyFails, CallThrows, LeakPersists, Threw
    <2> QED BY <1>0, <2>1, <2>2, FinishRecorded
  <1>5. CASE ReplyWithTools \/ (\E r \in BOOLEAN : ReplyWithout(r))
    <2>1. toEmit = {} /\ UNCHANGED events
      BY <1>5 DEF ReplyWithTools, ReplyWithout, Recorded, RecordInv, BeforeCall
    <2>2. SeenIsRecorded'
      BY <1>5, <2>1
      DEF ReplyWithTools, ReplyWithout, events, Move, At, Recorded, SeenIsRecorded
    <2>3. pc' = "tools" \/ (pc' = "turnEnd" /\ turnOpen' = FALSE)
      BY <1>5 DEF ReplyWithTools, ReplyWithout
    <2> QED BY <2>1, <2>2, <2>3 DEF events, Recorded, RecordInv, BeforeCall, AfterReply
  <1>6. CASE Tail \/ OpenStream \/ ToolsSettle
    <2>1. /\ toEmit = {} /\ UNCHANGED events /\ place' = place
          /\ pc' \in {"tailEnd", "model", "turnEnd"} /\ turnOpen' \in {turnOpen, FALSE}
          /\ pc' # "model" => turnOpen' = FALSE
      BY <1>6 DEF Tail, OpenStream, ToolsSettle, Recorded, RecordInv, BeforeCall
    <2> QED BY <1>0, <2>1, QuietRecorded DEF BeforeCall, AfterReply
  <1> QED BY <1>1, <1>2, <1>3, <1>4, <1>5, <1>6

LEMMA HostRecorded == ASSUME TypeOK, Recorded, Host PROVE Recorded'
  <1>1. UNCHANGED <<pc, turnOpen, events>>
    BY DEF Host, Send, Retract, Clear, Abort, TerminalResult, Clock, DeadlineTimer, hostFrame
  <1>2. Grounded(place')
    BY DEF Host, Send, Retract, Clear, Abort, TerminalResult, Clock, DeadlineTimer, Grounded,
           At, Move, TypeOK
  <1>3. SeenIsRecorded'
    BY <1>1, <1>2 DEF events, Grounded, Recorded, SeenIsRecorded
  <1> QED BY <1>1, <1>3 DEF events, Recorded, RecordInv

(* What the model has answered is in the transcript, when the model in use *)
(* cannot leak, whatever throws, aborts or runs late.                      *)
THEOREM RecordedCorrect ==
    ASSUME ~Leaks
    PROVE  Spec => []SeenIsRecorded
  <1>1. Init => Recorded
    BY DEF Init, Recorded, RecordInv, SeenIsRecorded, BeforeCall, AfterReply
  <1>2. TypeOK /\ Recorded /\ [Next]_vars => Recorded'
    <2> SUFFICES ASSUME TypeOK, Recorded, [Next]_vars PROVE Recorded'
      OBVIOUS
    <2>1. CASE LoopStep
      BY <2>1, StartRecorded, LoopStepRecorded, AsideStepRecorded, TurnRecorded
      DEF LoopStep, Leak
    <2>2. CASE Prompt \/ Continue BY <2>2, StartRecorded
    <2>3. CASE Host BY <2>3, HostRecorded
    <2>4. CASE UNCHANGED vars
      BY <2>4 DEF vars, events, Recorded, RecordInv, SeenIsRecorded
    <2> QED BY <2>1, <2>2, <2>3, <2>4 DEF Next
  <1>3. Recorded => SeenIsRecorded BY DEF Recorded
  <1> QED BY <1>1, <1>2, <1>3, TypeCorrect, PTL DEF Spec
=============================================================================
