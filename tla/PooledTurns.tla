---------------------------- MODULE PooledTurns ----------------------------
(***************************************************************************)
(* A work pool whose workers call one provider under its concurrency cap:  *)
(* WorkPool composed with ProviderSlots.  A worker requests a slot for     *)
(* each call of its turn and holds it while the answer streams; cancelling *)
(* its job aborts the wait.  While a turn waits for something else, a      *)
(* worker of its own included, it holds no slot.                           *)
(***************************************************************************)
EXTENDS WorkPool, ProviderSlots

ASSUME PooledAssumption == Callers = Workers

pooled == <<poolVars, slots>>

Init == PoolInit /\ SlotsInit

(* Callers whose wait was aborted: the listeners run inside cancel, before *)
(* anything else.                                                          *)
Doomed == {w \in Workers : request[w] = "wait" /\ job[w] = "cancelled"}

Continues ==
    \/ \E w \in Doomed : Abort(w) /\ UNCHANGED poolVars
    \/ Doomed = {} /\ PoolContinues /\ UNCHANGED slots

(* An event of the pool that ends no turn. *)
PoolEvent ==
    /\ Doomed = {} /\ UNCHANGED slots
    /\ PoolStep \/ CancelPool \/ \E w \in Workers : CancelBatch(w)

(* A turn makes a request; an aborted turn makes no other. *)
Request(w) ==
    Quiet /\ Doomed = {} /\ job[w] = "running" /\ Acquire(w) /\ UNCHANGED poolVars

(* The answer has been streamed, has failed or was aborted. *)
Answered(w) == Quiet /\ Doomed = {} /\ Release(w) /\ UNCHANGED poolVars

(* A turn ends between two requests. *)
Finish(w) == Doomed = {} /\ request[w] = "none" /\ TurnEnds(w) /\ UNCHANGED slots

(* The setting is read anew for each request. *)
Setting(limit) == Doomed = {} /\ Resize(limit) /\ UNCHANGED poolVars

Next ==
    \/ Continues \/ PoolEvent
    \/ \E w \in Workers : Request(w) \/ Answered(w) \/ Finish(w)
    \/ \E limit \in Limits : Setting(limit)

(* Continuations run, reservations and streams end, and a turn that can    *)
(* end again and again does: its calls are bounded by its run time.        *)
Fairness ==
    /\ WF_pooled(Continues)
    /\ WF_pooled(Doomed = {} /\ (Reserved \/ ReserveFails) /\ UNCHANGED slots)
    /\ \A w \in Workers : SF_pooled(Answered(w)) /\ SF_pooled(Finish(w))

Spec == Init /\ [][Next]_pooled
FairSpec == Spec /\ Fairness

-----------------------------------------------------------------------------
TypeOK == PoolTypeOK /\ SlotsTypeOK

(* The state is typed, and a pool settles only when its work is over.      *)
PoolInv == TypeOK /\ DrainIsFull
=============================================================================
