-------------------------- MODULE ToolBatchProofs --------------------------
(***************************************************************************)
(* Proofs about ToolBatch, for any number of calls, any batch and any      *)
(* host: the inductive invariant, the safety properties it implies, and    *)
(* the refinement of BatchContract.                                        *)
(***************************************************************************)
EXTENDS ToolBatch, FiniteSetTheorems, WellFoundedInduction, TLAPS

(* What the invariant says of one call on its own. *)
CallOK(c) == CallInv(c) /\ ForegroundInv(c) /\ HonestResult(c)

-----------------------------------------------------------------------------
(* The initial states satisfy the invariant: no call has begun. *)
LEMMA InitInv == Init => IInv
<1> SUFFICES ASSUME Init PROVE IInv
  OBVIOUS
<1> USE BatchAssumption DEF Init, Calls, Checkers, Watcher, Timer
<1>1. TypeOK
  BY DEF TypeOK, Kinds, Preparations, PcStates, Results, PeekStates
<1>2. \A c \in Calls : CallInv(c) /\ ForegroundInv(c) /\ HonestResult(c)
  BY DEF CallInv, ForegroundInv, HonestResult, Begun, Over
<1>3. StartedInTurn /\ SerialOrder /\ TriggerAborts
  BY DEF StartedInTurn, SerialOrder, Begun, TriggerAborts
<1> QED
  BY <1>1, <1>2, <1>3 DEF IInv

(* Dispatching a call keeps the types of what it touches. *)
LEMMA DispatchType ==
  ASSUME TypeOK, NEW c \in Calls, Dispatch(c)
  PROVE  /\ pc' \in [Calls -> PcStates]
         /\ invoked' \in [Calls -> BOOLEAN]
         /\ completed' \in [Calls -> BOOLEAN]
         /\ isError' \in [Calls -> BOOLEAN]
         /\ result' \in [Calls -> Results]
         /\ answers' \in [Calls -> Nat]
<1> AfterExecution(c, FALSE) \in PcStates
  BY DEF AfterExecution, PcStates
<1> HIDE DEF AfterExecution
<1> USE DEF TypeOK, Goto, Emit, PcStates, Results
<1>1. CASE kind[c].prepared = "invalid"
  BY <1>1 DEF Dispatch
<1>2. CASE kind[c].prepared # "invalid" /\ StopsShort(c)
  BY <1>2 DEF Dispatch
<1>3. CASE kind[c].prepared # "invalid" /\ ~StopsShort(c)
  BY ZenonT(60), <1>3 DEF Dispatch
<1> QED
  BY <1>1, <1>2, <1>3

(* No step takes a variable out of its type. *)
LEMMA TypeStep == TypeOK /\ [Next]_vars => TypeOK'
<1> SUFFICES ASSUME TypeOK, [Next]_vars PROVE TypeOK'
  OBVIOUS
<1> USE DEF callVars, interrupt, watchVars, host, Goto
<1>1. ASSUME NEW c \in Calls, RunTool(c) PROVE TypeOK'
  <2> USE DEF TypeOK
  <2>1. CASE Cut(c) BY <2>1 DEF Cut, PcStates
  <2>2. CASE Preempt(c) BY <2>2 DEF Preempt, PcStates
  <2>3. CASE Park(c) BY <2>3 DEF Park, PcStates
  <2>4. CASE Start(c) BY <2>4, DispatchType DEF Start
  <2>5. CASE Unpark(c) BY <2>5, DispatchType DEF Unpark
  <2>6. CASE Return(c) BY <2>6 DEF Return, AfterExecution, PcStates
  <2>7. CASE Throw(c) BY <2>7 DEF Throw, AfterExecution, PcStates
  <2>8. CASE HookReturns(c) BY <2>8 DEF HookReturns, PcStates
  <2>9. CASE Settle(c)
    <3>1. result' \in [Calls -> Results] /\ answers' \in [Calls -> Nat]
      BY <2>9 DEF Settle, Verdict, Emit, Results
    <3>2. pc' \in [Calls -> PcStates] /\ peek' \in [Checkers -> PeekStates]
      BY <2>9 DEF Settle, PcStates, PeekStates, Checkers
    <3> QED
      BY <2>9, <3>1, <3>2 DEF Settle
  <2> QED
    BY <1>1, <2>1, <2>2, <2>3, <2>4, <2>5, <2>6, <2>7, <2>8, <2>9 DEF RunTool
<1>2. ASSUME NEW a \in Checkers, Check(a) PROVE TypeOK'
  <2> USE DEF TypeOK, PcStates, PeekStates
  <2>1. CASE PeekSteering(a) BY <2>1 DEF PeekSteering
  <2>2. CASE PeekFails(a) BY <2>2 DEF PeekFails, CheckEnds
  <2>3. CASE ActOnSteering(a) BY <2>3 DEF ActOnSteering, CheckEnds
  <2>4. CASE PeekIrc(a) BY <2>4 DEF PeekIrc, CheckEnds
  <2>5. CASE ActOnIrc(a) BY <2>5 DEF ActOnIrc, CheckEnds
  <2> QED
    BY <1>2, <2>1, <2>2, <2>3, <2>4, <2>5 DEF Check
<1>3. CASE TimerFires
  BY <1>3 DEF TypeOK, TimerFires, PeekStates, Checkers
<1>4. CASE Watch
  <2>1. CASE WatchSubscribes
    <3>1. woken' \in BOOLEAN
      BY <2>1 DEF WatchSubscribes
    <3>2. peek' \in [Checkers -> PeekStates]
      BY <2>1 DEF TypeOK, WatchSubscribes, PeekStates, Checkers
    <3> QED
      BY <2>1, <3>1, <3>2 DEF TypeOK, WatchSubscribes
  <2>2. CASE WatchSleeps \/ WatchWakes \/ WatchLeaves
    BY <2>2 DEF TypeOK, WatchSleeps, WatchWakes, WatchLeaves
  <2> QED
    BY <1>4, <2>1, <2>2 DEF Watch
<1>5. CASE AllSettled BY <1>5 DEF TypeOK, AllSettled
<1>6. CASE Sweep BY <1>6 DEF TypeOK, Sweep, Results
<1>7. CASE Host
  <2> USE DEF TypeOK
  <2>1. CASE Steer BY <2>1, BatchAssumption DEF Steer, Notify
  <2>2. CASE PopLastSteer BY <2>2, BatchAssumption DEF PopLastSteer
  <2>3. CASE ClearSteering BY <2>3, BatchAssumption DEF ClearSteering, Notify
  <2>4. CASE PeerInterrupts BY <2>4 DEF PeerInterrupts
  <2>5. CASE Pause BY <2>5 DEF Pause
  <2>6. CASE Resume BY <2>6 DEF Resume
  <2>7. CASE Abort BY <2>7 DEF Abort
  <2> QED
    BY <1>7, <2>1, <2>2, <2>3, <2>4, <2>5, <2>6, <2>7 DEF Host
<1>8. CASE UNCHANGED vars BY <1>8 DEF TypeOK, vars
<1> QED
  BY <1>1, <1>2, <1>3, <1>4, <1>5, <1>6, <1>7, <1>8 DEF Next, Returned

(* Every variable keeps its type in every behaviour. *)
THEOREM TypeCorrect == Spec => []TypeOK
<1>1. Init => TypeOK
  BY InitInv DEF IInv
<1> QED
  BY <1>1, TypeStep, PTL DEF Spec
-----------------------------------------------------------------------------
(* A call none of whose own state changes stays as it should be. *)
LEMMA CallFrame ==
  ASSUME NEW d \in Calls, CallOK(d), kind' = kind, batch' = batch,
         extAborted => extAborted',
         pc'[d] = pc[d], invoked'[d] = invoked[d], completed'[d] = completed[d],
         result'[d] = result[d], answers'[d] = answers[d], peek'[d] = peek[d]
  PROVE  CallOK(d)'
BY DEF CallOK, CallInv, ForegroundInv, HonestResult, Begun, Over

(* Dispatching a call leaves it in order. *)
LEMMA DispatchOK ==
  ASSUME TypeOK, NEW c \in Calls, CallOK(c), Dispatch(c),
         pc[c] \in {"waiting", "parked"},
         UNCHANGED <<kind, interrupt, watchVars, batch, host>>
  PROVE  CallOK(c)'
<1> USE DEF CallOK, CallInv, ForegroundInv, HonestResult, Begun, Over
<1> USE DEF TypeOK, Goto, Emit, interrupt, watchVars, host, StopsShort, OwnAborted
<1>1. CASE kind[c].prepared = "invalid"
  BY <1>1 DEF Dispatch
<1>2. CASE kind[c].prepared # "invalid" /\ StopsShort(c)
  <2>1. /\ pc'[c] = "done" /\ result'[c] = "aborted" /\ answers'[c] = answers[c] + 1
        /\ UNCHANGED <<invoked, completed>>
    BY <1>2 DEF Dispatch
  <2> QED
    BY <1>2, <2>1
<1>3. CASE kind[c].prepared = "refused" /\ ~StopsShort(c)
  <2> AfterExecution(c, FALSE) \in {"hook", "settling"}
    BY DEF AfterExecution
  <2> HIDE DEF AfterExecution
  <2> QED
    BY <1>3 DEF Dispatch
<1>4. CASE kind[c].prepared = "ok" /\ ~StopsShort(c)
  BY <1>4 DEF Dispatch
<1> QED
  BY <1>1, <1>2, <1>3, <1>4 DEF Dispatch

(* Every step of a call's run leaves that call in order. *)
LEMMA RunToolOK ==
  ASSUME TypeOK, NEW c \in Calls, CallOK(c), RunTool(c)
  PROVE  CallOK(c)'
<1> USE DEF callVars, interrupt, watchVars, host, Goto, Emit
<1>1. CASE Cut(c)
  BY <1>1 DEF Cut, TypeOK, CallOK, CallInv, ForegroundInv, HonestResult, Begun, Over
<1>2. CASE Preempt(c)
  BY <1>2 DEF Preempt, Preempted, Ready, TypeOK, CallOK, CallInv, ForegroundInv,
              HonestResult, Begun, Over
<1>3. CASE Park(c)
  BY <1>3 DEF Park, Ready, TypeOK, CallOK, CallInv, ForegroundInv, HonestResult, Begun, Over
<1>4. CASE Start(c)
  BY <1>4, DispatchOK DEF Start, Ready
<1>5. CASE Unpark(c)
  BY <1>5, DispatchOK DEF Unpark
<1>6. CASE Return(c) \/ Throw(c)
  <2>1. AfterExecution(c, TRUE) \in {"hook", "settling"} /\ AfterExecution(c, FALSE) \in {"hook", "settling"}
    BY DEF AfterExecution
  <2>2. /\ pc'[c] \in {"hook", "settling"}
        /\ pc[c] = "running"
        /\ invoked' = invoked /\ result' = result /\ answers' = answers
        /\ kind' = kind /\ batch' = batch /\ peek' = peek /\ extAborted' = extAborted
    <3> HIDE DEF AfterExecution
    <3> QED BY <1>6, <2>1 DEF Return, Throw, TypeOK
  <2> QED
    BY <2>2 DEF CallOK, CallInv, ForegroundInv, HonestResult, Begun, Over
<1>7. CASE HookReturns(c)
  BY <1>7 DEF HookReturns, TypeOK, CallOK, CallInv, ForegroundInv, HonestResult, Begun, Over
<1>8. CASE Settle(c)
  <2> DEFINE v == Verdict(c)
  <2>1. /\ v \in {"interrupted", "synthetic", "error", "ok"}
        /\ completed[c] => v \in {"error", "ok"}
        /\ v = "synthetic" => ~invoked[c]
        /\ v = "interrupted" => invoked[c]
        /\ v \in {"interrupted", "synthetic"} => OwnAborted(c)
    BY DEF Verdict
  <2>2. /\ pc[c] = "settling" /\ result'[c] = v /\ answers'[c] = answers[c] + 1
        /\ pc'[c] \in {"done", "checking"}
        /\ peek'[c] # "idle" <=> pc'[c] = "checking"
        /\ invoked' = invoked /\ completed' = completed /\ kind' = kind
        /\ batch' = batch /\ extAborted' = extAborted
    BY <1>8 DEF Settle, TypeOK, Checkers, CallOK, CallInv
  <2> HIDE DEF v
  <2>3. CallInv(c)'
    BY <2>1, <2>2 DEF CallOK, CallInv, Over
  <2>4. ForegroundInv(c)'
    BY <2>1, <2>2 DEF CallOK, CallInv, ForegroundInv, Begun, OwnAborted, TypeOK
  <2>5. HonestResult(c)'
    BY <2>1, <2>2 DEF HonestResult
  <2> QED
    BY <2>3, <2>4, <2>5 DEF CallOK
<1> QED
  BY <1>1, <1>2, <1>3, <1>4, <1>5, <1>6, <1>7, <1>8 DEF RunTool

(* A step of a call's run touches no other call. *)
LEMMA RunToolFrame ==
  ASSUME TypeOK, NEW c \in Calls, RunTool(c), NEW d \in Calls, d # c
  PROVE  /\ pc'[d] = pc[d] /\ invoked'[d] = invoked[d] /\ completed'[d] = completed[d]
         /\ result'[d] = result[d] /\ answers'[d] = answers[d] /\ peek'[d] = peek[d]
         /\ UNCHANGED <<kind, batch, extAborted, interrupt>>
<1> USE DEF TypeOK, callVars, interrupt, watchVars, host, Goto, Emit
<1>1. CASE Cut(c) \/ Preempt(c) \/ Park(c)
  BY <1>1 DEF Cut, Preempt, Park
<1>2. CASE Start(c) \/ Unpark(c)
  <2> HIDE DEF Goto, Emit
  <2>1. Dispatch(c) /\ UNCHANGED <<kind, interrupt, watchVars, batch, host>>
    BY <1>2 DEF Start, Unpark
  <2>2. \A l : Goto(c, l) => pc'[d] = pc[d]
    BY DEF Goto
  <2>3. \A r : Emit(c, r) => result'[d] = result[d] /\ answers'[d] = answers[d]
    BY DEF Emit
  <2>4. invoked'[d] = invoked[d]
    BY <2>1 DEF Dispatch
  <2> QED
    BY <2>1, <2>2, <2>3, <2>4 DEF Dispatch
<1>3. CASE Return(c) \/ Throw(c) \/ HookReturns(c)
  BY <1>3 DEF Return, Throw, HookReturns
<1>4. CASE Settle(c)
  <2>1. pc'[d] = pc[d] /\ peek'[d] = peek[d]
    BY <1>4 DEF Settle, Checkers
  <2>2. result'[d] = result[d] /\ answers'[d] = answers[d]
    BY <1>4 DEF Settle
  <2> QED
    BY <1>4, <2>1, <2>2 DEF Settle
<1> QED
  BY <1>1, <1>2, <1>3, <1>4 DEF RunTool

(* An interrupt check moves only the call that makes it, and only from     *)
(* "checking" to the end of its task.                                      *)
LEMMA CheckFrame ==
  ASSUME TypeOK, NEW a \in Checkers, Check(a), NEW d \in Calls, CallOK(d)
  PROVE  /\ UNCHANGED <<kind, invoked, completed, result, answers, batch, extAborted>>
         /\ \/ pc'[d] = pc[d] /\ (peek'[d] # "idle" <=> peek[d] # "idle")
            \/ pc[d] = "checking" /\ pc'[d] \in {"done", "failed"} /\ peek'[d] = "idle"
<1> USE DEF TypeOK, callVars, interrupt, watchVars, host
<1>1. UNCHANGED <<kind, invoked, completed, result, answers, batch, extAborted>>
  BY DEF Check, PeekSteering, PeekFails, ActOnSteering, PeekIrc, ActOnIrc
<1>2. peek[a] # "idle"
  BY DEF Check, PeekSteering, PeekFails, ActOnSteering, PeekIrc, ActOnIrc
<1>3. CASE d # a
  <2>1. \A ok : CheckEnds(a, ok) => pc'[d] = pc[d] /\ peek'[d] = peek[d]
    BY <1>3 DEF CheckEnds, Checkers
  <2> QED
    BY <1>1, <1>3, <2>1 DEF Check, PeekSteering, PeekFails, ActOnSteering, PeekIrc, ActOnIrc, Checkers
<1>4. CASE d = a
  <2>1. pc[d] = "checking"
    BY <1>2, <1>4 DEF CallOK, CallInv
  <2>2. \A ok \in BOOLEAN : CheckEnds(a, ok) => pc'[d] \in {"done", "failed"} /\ peek'[d] = "idle"
    BY <1>4 DEF CheckEnds, Checkers
  <2>3. CASE PeekFails(a) \/ ActOnSteering(a) \/ ActOnIrc(a)
    BY <1>1, <2>1, <2>2, <2>3 DEF PeekFails, ActOnSteering, ActOnIrc
  <2>4. CASE PeekSteering(a) \/ PeekIrc(a)
    BY <1>1, <1>4, <2>1, <2>2, <2>4 DEF PeekSteering, PeekIrc, Checkers
  <2> QED
    BY <2>3, <2>4 DEF Check
<1> QED
  BY <1>1, <1>3, <1>4

(* What a step does to a call: nothing, a move of its own run, or the end  *)
(* of its check; every call stays in order.                                *)
LEMMA CallStep ==
  ASSUME TypeOK, \A c \in Calls : CallOK(c), [Next]_vars
  PROVE  \A c \in Calls : CallOK(c)'
<1> USE DEF callVars, interrupt, watchVars, host
<1> SUFFICES ASSUME NEW d \in Calls PROVE CallOK(d)'
  OBVIOUS
<1>1. ASSUME NEW c \in Calls, RunTool(c) PROVE CallOK(d)'
  <2>1. CASE c = d
    BY <1>1, <2>1, RunToolOK
  <2>2. CASE c # d
    BY <1>1, <2>2, RunToolFrame, CallFrame
  <2> QED
    BY <2>1, <2>2
<1>2. ASSUME NEW a \in Checkers, Check(a) PROVE CallOK(d)'
  BY <1>2, CheckFrame DEF CallOK, CallInv, ForegroundInv, HonestResult, Begun, Over
<1>3. CASE TimerFires
  <2>1. peek'[d] = peek[d]
    BY <1>3, BatchAssumption DEF TimerFires, TypeOK, Checkers, Calls, Timer
  <2> QED
    BY <1>3, <2>1, CallFrame DEF TimerFires
<1>4. CASE Watch
  <2>1. peek'[d] = peek[d]
    <3>1. CASE WatchSubscribes
      <4>1. d # Watcher /\ Watcher \in Checkers /\ d \in Checkers
        BY BatchAssumption DEF Checkers, Calls, Watcher
      <4> QED
        BY <3>1, <4>1 DEF WatchSubscribes, TypeOK
    <3>2. CASE WatchSleeps \/ WatchWakes \/ WatchLeaves
      BY <3>2 DEF WatchSleeps, WatchWakes, WatchLeaves
    <3> QED
      BY <1>4, <3>1, <3>2 DEF Watch
  <2> QED
    BY <1>4, <2>1, CallFrame DEF Watch, WatchSubscribes, WatchSleeps, WatchWakes, WatchLeaves
<1>5. CASE AllSettled
  BY <1>5 DEF AllSettled, TasksOver, CallOK, CallInv, ForegroundInv, HonestResult, Begun, Over
<1>6. CASE Sweep
  <2>1. /\ pc' = pc /\ invoked' = invoked /\ completed' = completed /\ peek' = peek
        /\ kind' = kind /\ extAborted' = extAborted
        /\ batch = "settled" /\ batch' = "returned"
        /\ result[d] # "none" => result'[d] = result[d] /\ answers'[d] = answers[d]
        /\ result[d] = "none" => result'[d] = "synthetic" /\ answers'[d] = answers[d] + 1
    BY <1>6 DEF Sweep, Unanswered
  <2>2. pc[d] \in {"done", "failed", "cut"}
    BY <2>1 DEF CallOK, CallInv, Over
  <2>3. CallInv(d)'
    BY <2>1, <2>2 DEF CallOK, CallInv, Over, TypeOK
  <2>4. ForegroundInv(d)'
    BY <2>1, <2>2 DEF CallOK, ForegroundInv, Begun
  <2>5. HonestResult(d)'
    BY <2>1, <2>2 DEF CallOK, CallInv, HonestResult
  <2> QED
    BY <2>3, <2>4, <2>5 DEF CallOK
<1>7. CASE Host
  <2>1. /\ UNCHANGED <<kind, callVars, batch, peek>>
        /\ extAborted => extAborted'
    BY <1>7 DEF Host, Steer, PopLastSteer, ClearSteering, PeerInterrupts, Pause, Resume, Abort
  <2> QED
    BY <2>1, CallFrame
<1>8. CASE UNCHANGED vars
  BY <1>8, CallFrame DEF vars
<1> QED
  BY <1>1, <1>2, <1>3, <1>4, <1>5, <1>6, <1>7, <1>8 DEF Next, Returned

-----------------------------------------------------------------------------
(* The order of conflicting calls. *)

(* A call that waits for more than its immediate predecessors reaches the  *)
(* rest through the last exclusive call between them.                      *)
LEMMA DepsReachBack ==
  ASSUME TypeOK, NEW i \in Calls, NEW j \in Calls, i < j, Conflict(i, j), i \notin Deps(j)
  PROVE  \E m \in Deps(j) : i < m /\ kind[m].exclusive
<1> USE BatchAssumption DEF Calls
<1> DEFINE E == {k \in (i+1)..(j-1) : kind[k].exclusive}
           Tail(m) == {k \in E : k >= m}
           F == {Tail(m) : m \in E}
<1>1. E # {}
  BY DEF Deps
<1>2. IsFiniteSet(E)
  <2>1. IsFiniteSet((i+1)..(j-1))
    BY FS_Interval
  <2> QED
    BY <2>1, FS_Subset
<1>3. F \subseteq FiniteSubsetsOf(E)
  BY <1>2, FS_Subset DEF FiniteSubsetsOf
<1>4. IsWellFoundedOn(StrictSubsetOrdering(E), FiniteSubsetsOf(E))
  BY FS_StrictSubsetOrderingWellFounded
<1>5. PICK x \in F : \A y \in F : <<y, x>> \notin StrictSubsetOrdering(E)
  <2>1. F # {}
    <3>1. PICK m \in E : TRUE
      BY <1>1
    <3>2. Tail(m) \in F
      OBVIOUS
    <3> QED
      BY <3>2
  <2> HIDE DEF F, E
  <2> QED
    BY <1>3, <1>4, <2>1, WFMin
<1>6. PICK m \in E : x = Tail(m)
  OBVIOUS
<1>7. \A k \in E : k <= m
  <2> SUFFICES ASSUME NEW k \in E, k > m PROVE FALSE
    OBVIOUS
  <2>1. Tail(k) \subseteq Tail(m) /\ m \in Tail(m) /\ m \notin Tail(k)
    OBVIOUS
  <2>2. <<Tail(k), x>> \in StrictSubsetOrdering(E)
    BY <1>6, <2>1 DEF StrictSubsetOrdering
  <2> QED
    BY <1>5, <2>2
<1>8. m \in Deps(j)
  BY <1>7 DEF Deps, Conflict
<1> QED
  BY <1>8

(* A call that is done stays done, one that has begun stays begun, and one *)
(* begins only with all its dependencies done.                             *)
LEMMA Progress ==
  ASSUME TypeOK, \A c \in Calls : CallOK(c), [Next]_vars, NEW d \in Calls
  PROVE  /\ kind' = kind
         /\ pc[d] = "done" => pc'[d] = "done"
         /\ Begun(d) => Begun(d)'
         /\ Begun(d)' /\ ~Begun(d) => \A i \in Deps(d) : pc[i] = "done"
<1> USE DEF callVars, interrupt, watchVars, host
<1> DEFINE Goal == /\ kind' = kind
                   /\ pc[d] = "done" => pc'[d] = "done"
                   /\ Begun(d) => Begun(d)'
                   /\ Begun(d)' /\ ~Begun(d) => \A i \in Deps(d) : pc[i] = "done"
<1>1. ASSUME NEW c \in Calls, RunTool(c) PROVE Goal
  <2>1. CASE c # d
    BY <1>1, <2>1, RunToolFrame DEF Begun
  <2>2. CASE c = d
    <3>1. CASE Cut(d)
      BY <3>1 DEF Cut, Goto, Begun, TypeOK
    <3>2. CASE Preempt(d) \/ Park(d)
      BY <3>2 DEF Preempt, Park, Ready, Goto, Begun, TypeOK
    <3>3. CASE Start(d) \/ Unpark(d)
      <4>1. Goto(d, "done") \/ Goto(d, "running") \/ Goto(d, "hook") \/ Goto(d, "settling")
        BY <3>3 DEF Start, Unpark, Dispatch, AfterExecution
      <4>2. pc'[d] \in {"done", "running", "hook", "settling"}
        BY <4>1 DEF Goto, TypeOK
      <4>3. Ready(d) \/ pc[d] = "parked"
        BY <3>3 DEF Start, Unpark
      <4> QED
        BY <3>3, <4>2, <4>3 DEF Start, Unpark, Ready, Begun
    <3>4. CASE Return(d) \/ Throw(d) \/ HookReturns(d)
      <4>1. pc[d] \in {"running", "hook"} /\ (Goto(d, "hook") \/ Goto(d, "settling"))
        BY <3>4 DEF Return, Throw, HookReturns, AfterExecution
      <4>2. pc'[d] \in {"hook", "settling"}
        BY <4>1 DEF Goto, TypeOK
      <4> QED
        BY <3>4, <4>1, <4>2 DEF Return, Throw, HookReturns, Begun
    <3>5. CASE Settle(d)
      BY <3>5 DEF Settle, Goto, Begun, TypeOK
    <3> QED
      BY <1>1, <2>2, <3>1, <3>2, <3>3, <3>4, <3>5 DEF RunTool
  <2> QED
    BY <2>1, <2>2
<1>2. ASSUME NEW a \in Checkers, Check(a) PROVE Goal
  BY <1>2, CheckFrame DEF Begun
<1>3. CASE TimerFires \/ Watch \/ AllSettled \/ Sweep \/ Host \/ UNCHANGED vars
  <2>1. UNCHANGED <<kind, pc>>
    BY <1>3 DEF TimerFires, Watch, WatchSubscribes, WatchSleeps, WatchWakes, WatchLeaves,
       AllSettled, Sweep, Host, Steer, PopLastSteer, ClearSteering, PeerInterrupts, Pause,
       Resume, Abort, vars
  <2> QED
    BY <2>1 DEF Begun
<1> QED
  BY <1>1, <1>2, <1>3 DEF Next, Returned

(* The order is preserved: a call that begins finds its dependencies done, *)
(* and through the last exclusive one of them everything it conflicts with.*)
LEMMA OrderStep ==
  ASSUME TypeOK, \A c \in Calls : CallOK(c), StartedInTurn, SerialOrder, [Next]_vars
  PROVE  StartedInTurn' /\ SerialOrder'
<1>1. /\ kind' = kind
      /\ \A d \in Calls : /\ pc[d] = "done" => pc'[d] = "done"
                          /\ Begun(d)' /\ ~Begun(d) => \A i \in Deps(d) : pc[i] = "done"
  <2>1. 1 \in Calls
    BY BatchAssumption DEF Calls
  <2> QED
    BY <2>1, Progress
<1>2. \A j \in Calls : Deps(j)' = Deps(j) /\ Deps(j) \subseteq Calls
  BY <1>1, BatchAssumption DEF Deps, Conflict, Calls
<1>3. StartedInTurn'
  BY <1>1, <1>2 DEF StartedInTurn
<1>4. ASSUME NEW i \in Calls, NEW j \in Calls, i < j, Conflict(i, j)', Begun(j)'
      PROVE  pc'[i] = "done"
  <2>1. Conflict(i, j)
    BY <1>1, <1>4 DEF Conflict
  <2>2. CASE Begun(j)
    BY <1>1, <1>4, <2>1, <2>2 DEF SerialOrder
  <2>3. CASE ~Begun(j) /\ i \in Deps(j)
    BY <1>1, <1>4, <2>3
  <2>4. CASE ~Begun(j) /\ i \notin Deps(j)
    <3>1. PICK m \in Deps(j) : i < m /\ kind[m].exclusive
      BY <1>4, <2>1, <2>4, DepsReachBack
    <3>2. pc[m] = "done" /\ m \in Calls
      BY <1>1, <1>2, <1>4, <2>4
    <3>3. Begun(m) /\ Conflict(i, m)
      BY <3>1, <3>2 DEF Begun, Conflict
    <3>4. pc[i] = "done"
      BY <3>1, <3>2, <3>3 DEF SerialOrder
    <3> QED
      BY <1>1, <3>4
  <2> QED
    BY <2>2, <2>3, <2>4
<1> QED
  BY <1>3, <1>4 DEF SerialOrder

(* A recorded interrupt has always aborted a controller. *)
LEMMA TriggerStep == TriggerAborts /\ [Next]_vars => TriggerAborts'
<1> SUFFICES ASSUME TriggerAborts, [Next]_vars PROVE TriggerAborts'
  OBVIOUS
<1> USE DEF TriggerAborts, interrupt
<1>1. ASSUME NEW c \in Calls, RunTool(c) PROVE TriggerAborts'
  BY <1>1 DEF RunTool, Cut, Preempt, Park, Start, Unpark, Return, Throw, HookReturns, Settle
<1>2. ASSUME NEW a \in Checkers, Check(a) PROVE TriggerAborts'
  BY <1>2 DEF Check, PeekSteering, PeekFails, ActOnSteering, PeekIrc, ActOnIrc
<1>3. CASE TimerFires \/ Watch \/ AllSettled \/ Sweep \/ Host \/ UNCHANGED vars
  BY <1>3 DEF TimerFires, Watch, WatchSubscribes, WatchSleeps, WatchWakes, WatchLeaves,
     AllSettled, Sweep, Host, Steer, PopLastSteer, ClearSteering, PeerInterrupts, Pause,
     Resume, Abort, vars
<1> QED
  BY <1>1, <1>2, <1>3 DEF Next, Returned

(* The invariant is inductive. *)
LEMMA InvStep == IInv /\ [Next]_vars => IInv'
<1> SUFFICES ASSUME IInv, [Next]_vars PROVE IInv'
  OBVIOUS
<1>1. TypeOK /\ StartedInTurn /\ SerialOrder /\ TriggerAborts /\ \A c \in Calls : CallOK(c)
  BY DEF IInv, CallOK
<1>2. TypeOK' BY <1>1, TypeStep
<1>3. \A c \in Calls : CallOK(c)' BY <1>1, CallStep
<1>4. StartedInTurn' /\ SerialOrder' BY <1>1, OrderStep
<1>5. TriggerAborts' BY <1>1, TriggerStep
<1> QED
  BY <1>2, <1>3, <1>4, <1>5 DEF IInv, CallOK

(* The inductive invariant holds in every behaviour. *)
THEOREM InductiveInvariant == Spec => []IInv
  BY InitInv, InvStep, PTL DEF Spec

(* Conflicting calls of a batch run one at a time, in the order emitted.   *)
THEOREM OrderCorrect == Spec => []SerialOrder
  BY InductiveInvariant, PTL DEF IInv

(* What a result claims of its tool's execution is true. *)
THEOREM HonestyCorrect == Spec => []HonestResults
<1>1. IInv => HonestResults
  BY DEF IInv, HonestResults
<1> QED
  BY <1>1, InductiveInvariant, PTL

(* A returned batch has answered every call exactly once. *)
THEOREM AnswersCorrect == Spec => []EveryCallAnsweredOnce
<1>1. IInv => EveryCallAnsweredOnce
  BY DEF IInv, EveryCallAnsweredOnce, CallInv
<1> QED
  BY <1>1, InductiveInvariant, PTL

(* Steering and peer interrupts never cost a foreground call its execution.*)
THEOREM ForegroundCorrect == Spec => []SteeringSparesForeground
<1>1. IInv => SteeringSparesForeground
  BY DEF IInv, SteeringSparesForeground, ForegroundInv, Begun
<1> QED
  BY <1>1, InductiveInvariant, PTL

-----------------------------------------------------------------------------
(* Action properties. *)

(* A tool starts only with the gate open and its own signal quiet. *)
LEMMA InvokeStep ==
  ASSUME TypeOK, [Next]_vars, NEW d \in Calls, ~invoked[d], invoked'[d]
  PROVE  ~paused /\ ~OwnAborted(d)
<1> USE DEF callVars, interrupt, watchVars, host
<1>1. ASSUME NEW c \in Calls, RunTool(c) PROVE ~paused /\ ~OwnAborted(d)
  <2>1. c = d
    BY <1>1, RunToolFrame
  <2>2. Start(d) \/ Unpark(d)
    BY <1>1, <2>1 DEF RunTool, Cut, Preempt, Park, Return, Throw, HookReturns, Settle
  <2>3. Dispatch(d) /\ (~paused \/ OwnAborted(d))
    BY <2>2 DEF Start, Unpark, Unparked
  <2>4. ~OwnAborted(d)
    BY <2>3 DEF Dispatch, StopsShort, TypeOK
  <2> QED
    BY <2>3, <2>4
<1>2. ASSUME NEW a \in Checkers, Check(a) PROVE FALSE
  BY <1>2 DEF Check, PeekSteering, PeekFails, ActOnSteering, PeekIrc, ActOnIrc
<1>3. ASSUME TimerFires \/ Watch \/ AllSettled \/ Sweep \/ Host \/ UNCHANGED vars PROVE FALSE
  BY <1>3 DEF TimerFires, Watch, WatchSubscribes, WatchSleeps, WatchWakes, WatchLeaves,
     AllSettled, Sweep, Host, Steer, PopLastSteer, ClearSteering, PeerInterrupts, Pause,
     Resume, Abort, vars
<1> QED
  BY <1>1, <1>2, <1>3 DEF Next, Returned

(* No tool starts while the process is paused. *)
THEOREM PauseCorrect == Spec => PauseHoldsTools
<1>1. TypeOK /\ [Next]_vars =>
        [\A c \in Calls : paused /\ ~invoked[c] => ~invoked'[c]]_vars
  BY InvokeStep
<1> QED
  BY <1>1, TypeCorrect, PTL DEF PauseHoldsTools, Spec

(* No wait starts once an interrupt is recorded. *)
THEOREM InterruptCorrect == Spec => InterruptStopsWaits
<1>1. IInv /\ [Next]_vars =>
        [\A c \in Calls : triggered /\ kind[c].interruptible /\ ~invoked[c]
                            => ~invoked'[c]]_vars
  BY InvokeStep DEF IInv, TriggerAborts, OwnAborted
<1> QED
  BY <1>1, InductiveInvariant, PTL DEF InterruptStopsWaits, Spec

(* No call starts on what it saw before it parked at the gate. *)
THEOREM StartsCorrect == Spec => NoStaleStart
  BY PauseCorrect, InterruptCorrect, PTL DEF NoStaleStart

-----------------------------------------------------------------------------
(***************************************************************************)
(* Every batch implements BatchContract: each step of ToolBatch is, seen   *)
(* through Life and Told, a step of the contract or none at all.           *)
(***************************************************************************)

lives == [c \in Calls |-> Life(c)]
tales == [c \in Calls |-> Told(c)]

(* The contract's view of the variables. *)
Mapped == <<[c \in Calls |-> kind[c].exclusive], lives, tales, batch = "returned">>

(* What the contract's definitions say in terms of Life and Told. *)
LEMMA OverWhenDone ==
  ASSUME TypeOK, NEW c \in Calls, CallOK(c), pc[c] = "done"
  PROVE  Life(c) = "forgone" \/ Told(c) # "nothing"
<1>1. CASE result[c] = "none"
  BY <1>1 DEF CallOK, CallInv, Life
<1>2. CASE result[c] # "none"
  BY <1>2 DEF TypeOK, Results, Told
<1> QED
  BY <1>1, <1>2

(* A call that has not settled belongs to a batch that is still running. *)
LEMMA RunningBatch ==
  ASSUME NEW c \in Calls, CallOK(c), TypeOK, ~Over(c)
  PROVE  batch = "running"
BY DEF CallOK, CallInv, TypeOK

(* How a move of one call looks to the contract.                           *)
LEMMA MappedFrame ==
  ASSUME NEW d \in Calls,
         pc'[d] = pc[d], invoked'[d] = invoked[d], completed'[d] = completed[d],
         result'[d] = result[d]
  PROVE  Life(d)' = Life(d) /\ Told(d)' = Told(d)
BY DEF Life, Told

(* Calls other than the one that moves look the same.                      *)
LEMMA OneCallMoves ==
  ASSUME TypeOK, NEW c \in Calls, RunTool(c)
  PROVE  /\ lives' = [lives EXCEPT ![c] = Life(c)']
         /\ tales' = [tales EXCEPT ![c] = Told(c)']
         /\ kind' = kind /\ batch' = batch
<1>1. kind' = kind /\ batch' = batch
  BY DEF RunTool, Cut, Preempt, Park, Start, Unpark, Return, Throw, HookReturns, Settle
<1>2. \A d \in Calls : d # c => Life(d)' = Life(d) /\ Told(d)' = Told(d)
  BY RunToolFrame, MappedFrame
<1> QED
  BY <1>1, <1>2 DEF lives, tales

(* The outcome of dispatching a call that was waiting for its turn.        *)
LEMMA DispatchMapped ==
  ASSUME TypeOK, NEW c \in Calls, CallOK(c), Dispatch(c), pc[c] \in {"waiting", "parked"}
  PROVE  /\ Life(c) = "pending" /\ Told(c) = "nothing"
         /\ \/ Life(c)' = "running" /\ Told(c)' = "nothing"
            \/ Life(c)' = "forgone" /\ Told(c)' \in {"nothing", "outcome", "notRun"}
<1>1. ~invoked[c] /\ ~completed[c] /\ result[c] = "none"
  BY DEF CallOK, CallInv
<1>2. Life(c) = "pending" /\ Told(c) = "nothing"
  BY <1>1 DEF Life, Told
<1>3. \/ /\ pc'[c] = "done" /\ invoked' = invoked /\ completed' = completed
         /\ result'[c] \in {"invalid", "aborted"}
      \/ /\ pc'[c] \in {"hook", "settling"} /\ invoked' = invoked /\ completed' = completed
         /\ result' = result
      \/ /\ pc'[c] = "running" /\ invoked'[c] /\ completed' = completed /\ result' = result
  BY DEF Dispatch, AfterExecution, Goto, Emit, TypeOK
<1> QED
  BY <1>1, <1>2, <1>3 DEF Life, Told

(* Initially nothing has run and nothing has been told.                    *)
LEMMA InitMapped == Init => Contract!Init
<1> SUFFICES ASSUME Init PROVE Contract!Init
  OBVIOUS
<1>1. [c \in Calls |-> kind[c].exclusive] \in [Calls -> BOOLEAN]
  BY BatchAssumption DEF Init, Kinds
<1>2. \A c \in Calls : Life(c) = "pending" /\ Told(c) = "nothing"
  BY DEF Init, Life, Told
<1>3. batch # "returned"
  BY DEF Init
<1> QED
  BY <1>1, <1>2, <1>3 DEF Contract!Init, Contract!Calls, Calls

(* A step of a call's run is a step of the contract for that call.         *)
LEMMA RunToolMapped ==
  ASSUME IInv, SerialOrder', NEW c \in Calls, RunTool(c)
  PROVE  Contract!Next \/ UNCHANGED Mapped
<1>1. TypeOK /\ CallOK(c) /\ (\A d \in Calls : CallOK(d))
  BY DEF IInv, CallOK
<1>2. /\ lives' = [lives EXCEPT ![c] = Life(c)']
      /\ tales' = [tales EXCEPT ![c] = Told(c)']
      /\ kind' = kind /\ batch' = batch
  BY <1>1, OneCallMoves
<1>3. lives[c] = Life(c) /\ tales[c] = Told(c)
  BY DEF lives, tales
<1>4. batch = "running"
  <2>1. ~Over(c)
    BY DEF RunTool, Cut, Preempt, Park, Start, Unpark, Return, Throw, HookReturns,
           Settle, Ready, Over
  <2> QED
    BY <1>1, <2>1, RunningBatch
<1>5. ASSUME Life(c) = "pending", Told(c) = "nothing", Life(c)' = "forgone",
             Told(c)' \in {"nothing", "outcome", "notRun"}
      PROVE  Contract!Forgo(c)
  BY <1>2, <1>3, <1>4, <1>5 DEF Contract!Forgo, Contract!Truthful, lives, tales
<1>6. ASSUME Life(c) = "pending", Told(c)' = Told(c), Life(c)' = "running"
      PROVE  Contract!Run(c)
  <2>1. Begun(c)'
    BY <1>6 DEF Life, Begun
  <2>2. ASSUME NEW i \in Calls, i < c, Conflict(i, c)
        PROVE  Life(i) = "forgone" \/ Told(i) # "nothing"
    <3>1. pc'[i] = "done"
      BY <1>2, <2>1, <2>2 DEF SerialOrder, Conflict
    <3>2. pc[i] = "done"
      BY <1>1, <2>2, <3>1, RunToolFrame, BatchAssumption DEF Calls
    <3> QED
      BY <1>1, <3>2, OverWhenDone
  <2>3. tales' = tales
    BY <1>2, <1>6 DEF tales
  <2> QED
    BY <1>2, <1>3, <1>4, <1>6, <2>2, <2>3
       DEF Contract!Run, Contract!Over, Contract!Conflict, Contract!Calls, Calls, Conflict, lives, tales
<1>7. ASSUME Life(c) = "running", Life(c)' \in {"ran", "broken"}, Told(c)' = Told(c)
      PROVE  Contract!Finish(c)
  BY <1>2, <1>3, <1>4, <1>7 DEF Contract!Finish, lives, tales
<1>8. ASSUME Told(c) = "nothing", Told(c)' \in Contract!Truthful(Life(c)), Life(c)' = Life(c)
      PROVE  Contract!Answer(c)
  BY <1>2, <1>3, <1>4, <1>8 DEF Contract!Answer, lives, tales
<1>9. ASSUME Life(c)' = Life(c), Told(c)' = Told(c)
      PROVE  UNCHANGED Mapped
  BY <1>2, <1>9 DEF Mapped, lives, tales
<1>10. Contract!Forgo(c) \/ Contract!Run(c) \/ Contract!Finish(c) \/ Contract!Answer(c) => Contract!Next
  BY DEF Contract!Next, Contract!Calls, Calls
<1>11. CASE Cut(c) \/ Preempt(c)
  <2>1. /\ pc[c] = "waiting" /\ pc'[c] \in {"cut", "done"} /\ ~invoked[c] /\ result[c] = "none"
        /\ invoked' = invoked /\ completed' = completed /\ result' = result /\ ~completed[c]
    BY <1>1, <1>11 DEF Cut, Preempt, Ready, Goto, TypeOK, CallOK, CallInv
  <2> QED
    BY <1>5, <1>10, <2>1 DEF Life, Told
<1>12. CASE Park(c)
  <2>1. /\ pc[c] = "waiting" /\ pc'[c] = "parked" /\ ~invoked[c] /\ result[c] = "none"
        /\ invoked' = invoked /\ completed' = completed /\ result' = result /\ ~completed[c]
    BY <1>1, <1>12 DEF Park, Ready, Goto, TypeOK, CallOK, CallInv
  <2> QED
    BY <1>9, <2>1 DEF Life, Told
<1>13. CASE Start(c) \/ Unpark(c)
  <2>1. Dispatch(c) /\ pc[c] \in {"waiting", "parked"}
    BY <1>13 DEF Start, Unpark, Ready
  <2> QED
    BY <1>1, <1>5, <1>6, <1>10, <2>1, DispatchMapped
<1>14. CASE Return(c) \/ Throw(c)
  <2>1. /\ pc[c] = "running" /\ pc'[c] \in {"hook", "settling"} /\ invoked[c] /\ ~completed[c]
        /\ invoked' = invoked /\ result' = result
    BY <1>1, <1>14 DEF Return, Throw, AfterExecution, Goto, TypeOK, CallOK, CallInv
  <2> QED
    BY <1>7, <1>10, <2>1 DEF Life, Told
<1>15. CASE HookReturns(c)
  <2>1. /\ pc[c] = "hook" /\ pc'[c] = "settling"
        /\ invoked' = invoked /\ completed' = completed /\ result' = result
    BY <1>1, <1>15 DEF HookReturns, Goto, TypeOK
  <2> QED
    BY <1>9, <2>1 DEF Life, Told
<1>16. CASE Settle(c)
  <2>1. /\ pc[c] = "settling" /\ pc'[c] \in {"done", "checking"} /\ result[c] = "none"
        /\ invoked' = invoked /\ completed' = completed /\ result'[c] = Verdict(c)
        /\ completed[c] => invoked[c]
    BY <1>1, <1>16 DEF Settle, Goto, Emit, TypeOK, CallOK, CallInv
  <2>2. Life(c)' = Life(c) /\ Told(c) = "nothing"
    BY <2>1 DEF Life, Told
  <2>3. CASE completed[c]
    <3>1. Life(c) = "ran" /\ Told(c)' = "outcome"
      BY <2>1, <2>3 DEF Life, Told, Verdict
    <3> QED
      BY <1>8, <1>10, <2>2, <3>1 DEF Contract!Truthful
  <2>4. CASE invoked[c] /\ ~completed[c]
    <3>1. Life(c) = "broken" /\ Told(c)' \in {"outcome", "cutShort"}
      BY <2>1, <2>4 DEF Life, Told, Verdict
    <3> QED
      BY <1>8, <1>10, <2>2, <3>1 DEF Contract!Truthful
  <2>5. CASE ~invoked[c]
    <3>1. Life(c) = "forgone" /\ Told(c)' \in {"outcome", "notRun"}
      BY <2>1, <2>5 DEF Life, Told, Verdict
    <3> QED
      BY <1>8, <1>10, <2>2, <3>1 DEF Contract!Truthful
  <2> QED
    BY <2>3, <2>4, <2>5
<1> QED
  BY <1>11, <1>12, <1>13, <1>14, <1>15, <1>16 DEF RunTool

(* The sweep is the contract's return.                                     *)
LEMMA SweepMapped ==
  ASSUME TypeOK, \A c \in Calls : CallOK(c), Sweep
  PROVE  Contract!Return
<1>1. /\ batch = "settled" /\ batch' = "returned" /\ kind' = kind /\ pc' = pc
      /\ invoked' = invoked /\ completed' = completed
  BY DEF Sweep
<1>2. ASSUME NEW c \in Calls
      PROVE  /\ Life(c)' = Life(c) /\ Told(c)' \in {"outcome", "cutShort", "notRun"}
             /\ Told(c) = "nothing" => Life(c) = "forgone" /\ Told(c)' = "notRun"
             /\ Told(c) # "nothing" => Told(c)' = Told(c)
  <2>1. Life(c)' = Life(c)
    BY <1>1 DEF Life
  <2>2. CASE result[c] = "none"
    <3>1. result'[c] = "synthetic" /\ Told(c) = "nothing"
      BY <2>2 DEF Sweep, Unanswered, Told
    <3>2. Life(c) = "forgone"
      BY <1>1, <2>2 DEF CallOK, CallInv, Over, Life
    <3> QED
      BY <2>1, <3>1, <3>2 DEF Told
  <2>3. CASE result[c] # "none"
    <3>1. result'[c] = result[c]
      BY <2>3 DEF Sweep, Unanswered
    <3> QED
      BY <2>1, <2>3, <3>1 DEF Told, TypeOK, Results
  <2> QED
    BY <2>2, <2>3
<1>3. lives' = lives
  BY <1>2 DEF lives
<1>4. tales' \in [Calls -> Contract!Tales \ {"nothing"}]
  BY <1>2 DEF tales, Contract!Tales
<1>5. \A c \in Calls : IF tales[c] = "nothing"
                      THEN tales'[c] \in Contract!Truthful(lives[c])
                      ELSE tales'[c] = tales[c]
  BY <1>2 DEF tales, lives, Contract!Truthful
<1> QED
  BY <1>1, <1>3, <1>4, <1>5 DEF Contract!Return, Contract!Calls, Calls, lives, tales

(* Nothing else is visible to the contract.                                *)
LEMMA CheckMapped ==
  ASSUME TypeOK, \A c \in Calls : CallOK(c), NEW a \in Checkers, Check(a)
  PROVE  UNCHANGED Mapped
<1>1. UNCHANGED <<kind, invoked, completed, result, batch>>
  BY DEF Check, PeekSteering, PeekFails, ActOnSteering, PeekIrc, ActOnIrc, interrupt, host, callVars
<1>2. \A d \in Calls : Life(d)' = Life(d) /\ Told(d)' = Told(d)
  <2> SUFFICES ASSUME NEW d \in Calls PROVE Life(d)' = Life(d) /\ Told(d)' = Told(d)
    OBVIOUS
  <2>1. \/ pc'[d] = pc[d]
        \/ pc[d] = "checking" /\ pc'[d] \in {"done", "failed"}
    BY CheckFrame
  <2> QED
    BY <1>1, <2>1 DEF Life, Told
<1> QED
  BY <1>1, <1>2 DEF Mapped, lives, tales

(* Every step of the batch is a step of the contract, or none.             *)
LEMMA StepMapped == IInv /\ IInv' /\ [Next]_vars => [Contract!Next]_Contract!vars
<1> SUFFICES ASSUME IInv, IInv', [Next]_vars PROVE Contract!Next \/ UNCHANGED Contract!vars
  BY DEF Contract!vars
<1>1. TypeOK /\ (\A c \in Calls : CallOK(c)) /\ SerialOrder'
  BY DEF IInv, CallOK
<1>2. UNCHANGED Mapped => UNCHANGED Contract!vars
  BY DEF Mapped, lives, tales, Contract!vars
<1>3. ASSUME NEW c \in Calls, RunTool(c) PROVE Contract!Next \/ UNCHANGED Contract!vars
  BY <1>1, <1>2, <1>3, RunToolMapped
<1>4. ASSUME NEW a \in Checkers, Check(a) PROVE UNCHANGED Contract!vars
  BY <1>1, <1>2, <1>4, CheckMapped
<1>5. CASE Sweep
  BY <1>1, <1>5, SweepMapped DEF Contract!Next
<1>6. CASE AllSettled
  <2>1. UNCHANGED <<kind, pc, invoked, completed, result>> /\ batch # "returned" /\ batch' # "returned"
    BY <1>6 DEF AllSettled, callVars
  <2> QED
    BY <1>2, <2>1 DEF Mapped, lives, tales, Life, Told
<1>7. CASE TimerFires \/ Watch \/ Host \/ UNCHANGED vars
  <2>1. UNCHANGED <<kind, pc, invoked, completed, result, batch>>
    BY <1>7 DEF TimerFires, Watch, WatchSubscribes, WatchSleeps, WatchWakes, WatchLeaves,
       Host, Steer, PopLastSteer, ClearSteering, PeerInterrupts, Pause, Resume, Abort,
       vars, callVars
  <2> QED
    BY <1>2, <2>1 DEF Mapped, lives, tales, Life, Told
<1> QED
  BY <1>3, <1>4, <1>5, <1>6, <1>7 DEF Next, Returned

(* Every batch, whatever the host does to it, keeps the contract.          *)
THEOREM RefinesContract == Spec => ImplementsContract
<1>1. Init => Contract!Init
  BY InitMapped
<1> QED
  BY <1>1, StepMapped, InductiveInvariant, PTL DEF Spec, ImplementsContract, Contract!Spec
=============================================================================
