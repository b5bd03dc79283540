--------------------------- MODULE AsyncJobsProofs --------------------------
(***************************************************************************)
(* Proofs about AsyncJobs.  All of them rest on who may use an id: a job   *)
(* in use owns the row of its id unless an overlap of two uses of the id   *)
(* reached it, so a set of ids speaks of one job at a time.                *)
(***************************************************************************)
EXTENDS AsyncJobs, TLAPS

USE JobsAssumption

(* A row belongs to the job that was given its id. *)
RowsAreIds == \A i \in Ids : rows[i] # None => id[rows[i]] = i

TypeInv == TypeOK /\ RowsAreIds

(* A running job's promise is unsettled; only settled jobs have been seen  *)
(* and only completed ones are delivered, not before their session.        *)
StatusIsLive ==
    \A j \in Jobs :
        /\ status[j] \in {"new", "completed"} => j \notin live
        /\ Running(j) => j \in live
        /\ j \in seen => j \notin live /\ status[j] # "new"
        /\ place[j] \in Pending => status[j] = "completed"
        /\ born[j] <= epoch /\ stamp[j] <= epoch
        /\ place[j] = "sink" => born[j] <= stamp[j]

(* A delivery that may still reach the model, not one that a session       *)
(* transition caught in its sink.                                          *)
Current(j) ==
    \/ place[j] \in {"queued", "entry", "held"}
    \/ place[j] = "sink" /\ stamp[j] = epoch

(* A session transition leaves no running or completed job in a row. *)
RowIsOwnSession ==
    \A i \in Ids :
        rows[i] # None /\ status[rows[i]] \in {"running", "completed"} => born[rows[i]] = epoch

(* The row of an id whose earlier job still runs or is waited for is the   *)
(* row of a crossed job.                                                   *)
LiveSharers ==
    \A k \in live \cup fg : rows[id[k]] \in {k, None} \cup crossed

(* So is the row of a running job whose id has a retention timer. *)
TimerIsDue ==
    \A i \in timers : rows[i] # None /\ Running(rows[i]) => rows[i] \in crossed

(* A job in use owns the row of its id. *)
InUseOwnsRow ==
    \A j \in Jobs \ crossed :
        Running(j) \/ Current(j) \/ (j \in fg /\ status[j] = "completed") => rows[id[j]] = j

(* A delivery is of a job of this session; one whose job was seen is       *)
(* suppressed.                                                             *)
DeliveryIsOwn ==
    \A j \in Jobs :
        /\ place[j] = "entry" => stamp[j] = epoch
        /\ place[j] = "held" => fg = {} /\ hub = {}
        /\ Current(j) /\ j \notin crossed => born[j] = epoch
        /\ Current(j) /\ j \in seen \ crossed => place[j] # "held" /\ id[j] \in suppressed

(* The delivery of a job waited for in the foreground is silenced. *)
ForegroundIsSilent ==
    \A j \in fg \ crossed :
        /\ place[j] \notin Pending
        /\ status[j] # "cancelled" => id[j] \in suppressed

(* A watched id is that of a job the hub wait will show, whose delivery    *)
(* has not begun.                                                          *)
WatchedIsWaited ==
    \A i \in watched : /\ rows[i] \in hub /\ hubAt = "racing"
                       /\ place[rows[i]] \notin Pending

(* Suppression and consumption speak of seen or cancelled jobs, or of jobs *)
(* waited for in the foreground.                                           *)
MarksAreHonest ==
    \A i \in Ids : rows[i] # None /\ rows[i] \notin crossed =>
        /\ i \in suppressed =>
             rows[i] \in seen \cup fg \/ status[rows[i]] = "cancelled"
        /\ i \in consumed =>
             rows[i] \in seen \/ status[rows[i]] = "cancelled"

IInv ==
    /\ TypeInv /\ StatusIsLive /\ RowIsOwnSession /\ LiveSharers /\ TimerIsDue
    /\ InUseOwnsRow /\ DeliveryIsOwn /\ ForegroundIsSilent /\ WatchedIsWaited
    /\ MarksAreHonest

-----------------------------------------------------------------------------
(* Types.                                                                  *)

LEMMA TypeInit == Init => TypeInv
  BY DEF Init, TypeInv, TypeOK, RowsAreIds, Pending

(* The ids of registered jobs are ids. *)
LEMMA IdIsId == ASSUME TypeInv, NEW j \in Jobs, status[j] # "new" PROVE id[j] \in Ids
  BY DEF TypeInv, TypeOK

LEMMA RowIsRegistered ==
    ASSUME TypeInv, NEW j \in RowJobs
    PROVE  j \in Jobs /\ status[j] # "new" /\ id[j] \in Ids /\ rows[id[j]] = j
  BY DEF TypeInv, TypeOK, RowsAreIds, RowJobs

LEMMA ConsumeType == ASSUME TypeInv, NEW I \in SUBSET Ids PROVE Consume(I) \subseteq Ids
  BY DEF TypeInv, TypeOK, Consume

LEMMA AnswerType ==
    ASSUME TypeInv, NEW K \in SUBSET Jobs, \A k \in K : status[k] # "new", Answer(K)
    PROVE  /\ seen' \subseteq Jobs /\ suppressed' \subseteq Ids /\ consumed' \subseteq Ids
           /\ place' \in [Jobs -> Pending \cup {"none"}]
           /\ \A j \in Jobs : place'[j] \in Pending => place[j] \in Pending
  <1> DEFINE over == {k \in K : ~Running(k)}
             I == {id[k] : k \in over}
  <1>1. I \in SUBSET Ids
    BY IdIsId
  <1>2. Consume(I) \subseteq Ids
    BY <1>1, ConsumeType
  <1>3. consumed' = Consume(I) /\ Acknowledge(I)
    BY DEF Answer
  <1>4. seen' \subseteq Jobs
    BY DEF Answer, TypeInv, TypeOK
  <1>5. suppressed' = suppressed \cup I
    BY <1>3 DEF Acknowledge
  <1>6. \A j \in Jobs : place'[j] \in {"none", place[j]}
    BY <1>3 DEF Acknowledge
  <1>7. place' \in [Jobs -> Pending \cup {"none"}]
    BY <1>3, <1>6 DEF Acknowledge, TypeInv, TypeOK
  <1> QED BY <1>1, <1>2, <1>3, <1>4, <1>5, <1>6, <1>7 DEF TypeInv, TypeOK, Pending

LEMMA TypeStep == TypeInv /\ [Next]_vars => TypeInv'
  <1> SUFFICES ASSUME TypeInv, [Next]_vars PROVE TypeInv'
    OBVIOUS
  <1> USE DEF table, marks, delivery, session, tools, model
  <1>1. ASSUME NEW j \in Jobs, NEW i \in Ids, Register(j, i) PROVE TypeInv'
    BY <1>1 DEF Register, Added, FreeId, TypeInv, TypeOK, RowsAreIds, Pending
  <1>2. ASSUME NEW j \in Jobs, NEW i \in Ids, RegisterForeground(j, i) PROVE TypeInv'
    BY <1>2 DEF RegisterForeground, Added, FreeId, TypeInv, TypeOK, RowsAreIds, Pending
  <1>3. ASSUME NEW j \in Jobs, Settle(j) PROVE TypeInv'
    BY <1>3 DEF Settle, Enqueue, Running, TypeInv, TypeOK, RowsAreIds, Pending
  <1>4. ASSUME NEW j \in Jobs, Deliver(j) PROVE TypeInv'
    BY <1>4 DEF Deliver, TypeInv, TypeOK, RowsAreIds, Pending
  <1>5. ASSUME NEW j \in Jobs, Format(j) PROVE TypeInv'
    <2>1. {id[j]} \in SUBSET Ids
      BY <1>5, IdIsId DEF Format, TypeInv, TypeOK, Pending
    <2>2. Consume({id[j]}) \subseteq Ids
      BY <2>1, ConsumeType
    <2> QED BY SMTT(30), <1>5, <2>2 DEF Format, Mistaken, TypeInv, TypeOK, RowsAreIds, Pending
  <1>6. CASE Drain
    BY <1>6 DEF Drain, Retried, TypeInv, TypeOK, RowsAreIds, Pending
  <1>7. CASE Commit
    <2>1. {id[j] : j \in DeliveryAt("held")} \in SUBSET Ids
      BY IdIsId DEF DeliveryAt, TypeInv, TypeOK, Pending
    <2>2. Consume({id[j] : j \in DeliveryAt("held")}) \subseteq Ids
      BY <2>1, ConsumeType
    <2> QED BY <1>7, <2>2 DEF Commit, Mistaken, DeliveryAt, TypeInv, TypeOK, RowsAreIds, Pending
  <1>8. CASE Discard
    BY <1>8 DEF Discard, Retried, DeliveryAt, TypeInv, TypeOK, RowsAreIds, Pending
  <1>9. ASSUME NEW j \in Jobs, FgReturns(j) PROVE TypeInv'
    BY <1>9 DEF FgReturns, TypeInv, TypeOK, RowsAreIds
  <1>10. ASSUME NEW j \in Jobs, FgAborts(j) PROVE TypeInv'
    BY <1>10 DEF FgAborts, Cancelled, Running, TypeInv, TypeOK, RowsAreIds
  <1>11. ASSUME NEW j \in Jobs, FgBackgrounds(j) PROVE TypeInv'
    BY <1>11 DEF FgBackgrounds, TypeInv, TypeOK, RowsAreIds, Pending
  <1>12. ASSUME NEW J \in SUBSET Jobs, HubWait(J) PROVE TypeInv'
    <2>1. \A j \in J : id[j] \in Ids /\ status[j] # "new"
      BY <1>12, RowIsRegistered DEF HubWait
    <2> QED BY <1>12, <2>1 DEF HubWait, TypeInv, TypeOK, RowsAreIds
  <1>13. ASSUME NEW J \in SUBSET Jobs, Snapshot(J) PROVE TypeInv'
    <2>1. \A j \in J : status[j] # "new"
      BY <1>13, RowIsRegistered DEF Snapshot
    <2> QED BY <1>13, <2>1, AnswerType DEF Snapshot, TypeInv, TypeOK, RowsAreIds
  <1>14. CASE HubUnwatch
    BY <1>14 DEF HubUnwatch, TypeInv, TypeOK, RowsAreIds
  <1>15. CASE HubAnswer
    <2> DEFINE K == {IF rows[id[j]] = None THEN j ELSE rows[id[j]] : j \in hub}
    <2>1. K \in SUBSET Jobs /\ \A k \in K : status[k] # "new"
      BY DEF TypeInv, TypeOK, RowsAreIds
    <2>2. Answer(K)
      BY <1>15 DEF HubAnswer
    <2> HIDE DEF K
    <2> QED BY <1>15, <2>1, <2>2, AnswerType DEF HubAnswer, TypeInv, TypeOK, RowsAreIds
  <1>16. CASE HubMessage
    BY <1>16 DEF HubMessage, TypeInv, TypeOK, RowsAreIds
  <1>17. ASSUME NEW i \in Ids, HubCancel(i) PROVE TypeInv'
    BY <1>17 DEF HubCancel, Cancelled, Acknowledge, Running, TypeInv, TypeOK, RowsAreIds, Pending
  <1>18. ASSUME NEW i \in Ids, Evict(i) PROVE TypeInv'
    BY <1>18 DEF Evict, Strayed, TypeInv, TypeOK, RowsAreIds
  <1>19. CASE Reset
    BY <1>19 DEF Reset, Retried, Running, RowJobs, TypeInv, TypeOK, RowsAreIds, Pending
  <1>20. CASE UNCHANGED vars
    BY <1>20 DEF vars, TypeInv, TypeOK, RowsAreIds
  <1> QED BY <1>1, <1>2, <1>3, <1>4, <1>5, <1>6, <1>7, <1>8, <1>9, <1>10, <1>11, <1>12,
             <1>13, <1>14, <1>15, <1>16, <1>17, <1>18, <1>19, <1>20 DEF Next

(* Every reachable state is well typed; a hub call waits for jobs that     *)
(* exist.                                                                  *)
THEOREM TypeCorrect == Spec => []TypeOK
  <1>1. Spec => []TypeInv
    BY TypeInit, TypeStep, PTL DEF Spec
  <1> QED BY <1>1, PTL DEF TypeInv


(* A row outlives its job only until its retention timer fires; the timer  *)
(* is set when the job settles or is cancelled, whichever comes first.     *)
THEOREM RowsExpireCorrect == Spec => []RowsExpire
  <1>1. Init => RowsExpire
    BY DEF Init, RowsExpire
  <1>2. TypeInv /\ RowsExpire /\ [Next]_vars => RowsExpire'
    <2> SUFFICES ASSUME TypeInv, RowsExpire, [Next]_vars PROVE RowsExpire'
      OBVIOUS
    <2> USE DEF RowsExpire, Running, table, TypeInv, TypeOK, RowsAreIds
    <2>1. ASSUME NEW j \in Jobs, NEW i \in Ids, Register(j, i) \/ RegisterForeground(j, i)
          PROVE  RowsExpire'
      BY <2>1 DEF Register, RegisterForeground, Added, FreeId
    <2>2. ASSUME NEW j \in Jobs, Settle(j) PROVE RowsExpire'
      BY <2>2 DEF Settle
    <2>3. ASSUME NEW j \in Jobs, FgAborts(j) PROVE RowsExpire'
      BY <2>3 DEF FgAborts, Cancelled
    <2>4. ASSUME NEW i \in Ids, HubCancel(i) PROVE RowsExpire'
      BY <2>4 DEF HubCancel, Cancelled
    <2>5. ASSUME NEW i \in Ids, Evict(i) PROVE RowsExpire'
      BY <2>5 DEF Evict
    <2>6. CASE Reset
      BY <2>6 DEF Reset, RowJobs
    <2>7. CASE UNCHANGED table
      BY <2>7
    <2> QED BY <2>1, <2>2, <2>3, <2>4, <2>5, <2>6, <2>7
            DEF Next, vars, Deliver, Format, Drain, Commit, Discard, FgReturns,
                FgBackgrounds, HubWait, Snapshot, HubUnwatch, HubAnswer, HubMessage
  <1>3. Spec => []TypeInv
    BY TypeInit, TypeStep, PTL DEF Spec
  <1> QED BY <1>1, <1>2, <1>3, PTL DEF Spec

-----------------------------------------------------------------------------
(* Ids speak of one job.                                                   *)

LEMMA RegisterOwn ==
    ASSUME IInv, TypeInv', NEW j \in Jobs, NEW i \in Ids, Register(j, i)
    PROVE  IInv'
  <1> USE DEF IInv, TypeInv, TypeOK, RowsAreIds, table, marks, delivery, session, tools, model
  <1>1. StatusIsLive'
    BY DEF Register, Added, StatusIsLive, Running
  <1>2. RowIsOwnSession'
    BY DEF Register, Added, RowIsOwnSession
  <1>3. LiveSharers'
    BY DEF Register, Added, Lingers, LiveSharers
  <1>4. TimerIsDue'
    BY DEF Register, Added, Lingers, TimerIsDue, Running
  <1>5. InUseOwnsRow'
    BY DEF Register, Added, FreeId, InUseOwnsRow, Running, Current
  <1>6. DeliveryIsOwn'
    BY DEF Register, Added, FreeId, DeliveryIsOwn, Current, InUseOwnsRow
  <1>7. ForegroundIsSilent'
    BY DEF Register, Added, FreeId, ForegroundIsSilent, Running, InUseOwnsRow
  <1>8. WatchedIsWaited'
    BY DEF Register, Added, FreeId, WatchedIsWaited
  <1>9. MarksAreHonest'
    BY DEF Register, Added, MarksAreHonest
  <1> QED BY <1>1, <1>2, <1>3, <1>4, <1>5, <1>6, <1>7, <1>8, <1>9

LEMMA RegisterForegroundOwn ==
    ASSUME IInv, TypeInv', NEW j \in Jobs, NEW i \in Ids, RegisterForeground(j, i)
    PROVE  IInv'
  <1> USE DEF IInv, TypeInv, TypeOK, RowsAreIds, table, marks, delivery, session, tools, model
  <1>1. StatusIsLive'
    BY DEF RegisterForeground, Added, StatusIsLive, Running
  <1>2. RowIsOwnSession'
    BY DEF RegisterForeground, Added, RowIsOwnSession
  <1>3. LiveSharers'
    BY DEF RegisterForeground, Added, Lingers, LiveSharers
  <1>4. TimerIsDue'
    BY DEF RegisterForeground, Added, Lingers, TimerIsDue, Running
  <1>5. InUseOwnsRow'
    BY DEF RegisterForeground, Added, FreeId, InUseOwnsRow, Running, Current
  <1>6. DeliveryIsOwn'
    BY DEF RegisterForeground, Added, ToolsMayRun, DeliveryAt, DeliveryIsOwn, Current
  <1>7. ForegroundIsSilent'
    BY DEF RegisterForeground, Added, ForegroundIsSilent
  <1>8. WatchedIsWaited'
    BY DEF RegisterForeground, Added, FreeId, WatchedIsWaited
  <1>9. MarksAreHonest'
    BY DEF RegisterForeground, Added, MarksAreHonest
  <1> QED BY <1>1, <1>2, <1>3, <1>4, <1>5, <1>6, <1>7, <1>8, <1>9

LEMMA SettleOwn ==
    ASSUME IInv, TypeInv', NEW j \in Jobs, Settle(j)
    PROVE  IInv'
  <1> USE DEF IInv, TypeInv, TypeOK, RowsAreIds, table, marks, delivery, session, tools, model
  <1>1. StatusIsLive'
    BY DEF Settle, Enqueue, StatusIsLive, Running
  <1>2. RowIsOwnSession'
    BY DEF Settle, RowIsOwnSession, Running
  <1>3. LiveSharers'
    BY DEF Settle, LiveSharers
  <1>4. TimerIsDue'
    BY DEF Settle, TimerIsDue, Running, LiveSharers
  <1>5. InUseOwnsRow'
    BY DEF Settle, Enqueue, InUseOwnsRow, Running, Current
  <1>6. DeliveryIsOwn'
    BY DEF Settle, Enqueue, DeliveryIsOwn, Running, Current, RowIsOwnSession,
       InUseOwnsRow, StatusIsLive
  <1>7. ForegroundIsSilent'
    BY DEF Settle, Enqueue, ForegroundIsSilent, Running, Silenced
  <1>8. WatchedIsWaited'
    BY DEF Settle, Enqueue, WatchedIsWaited, Silenced
  <1>9. MarksAreHonest'
    BY DEF Settle, MarksAreHonest, Running
  <1> QED BY <1>1, <1>2, <1>3, <1>4, <1>5, <1>6, <1>7, <1>8, <1>9

LEMMA DeliverOwn ==
    ASSUME IInv, TypeInv', NEW j \in Jobs, Deliver(j)
    PROVE  IInv'
  <1> USE DEF IInv, TypeInv, TypeOK, RowsAreIds, table, marks, delivery, session, tools, model
  <1>1. StatusIsLive'
    BY DEF Deliver, StatusIsLive, Running
  <1>2. RowIsOwnSession'
    BY DEF Deliver, RowIsOwnSession
  <1>3. LiveSharers'
    BY DEF Deliver, LiveSharers
  <1>4. TimerIsDue'
    BY DEF Deliver, TimerIsDue, Running
  <1>5. InUseOwnsRow'
    BY DEF Deliver, InUseOwnsRow, Running, Current
  <1>6. DeliveryIsOwn'
    BY DEF Deliver, DeliveryIsOwn, Current
  <1>7. ForegroundIsSilent'
    BY DEF Deliver, ForegroundIsSilent
  <1>8. WatchedIsWaited'
    BY DEF Deliver, WatchedIsWaited
  <1>9. MarksAreHonest'
    BY DEF Deliver, MarksAreHonest
  <1> QED BY <1>1, <1>2, <1>3, <1>4, <1>5, <1>6, <1>7, <1>8, <1>9

LEMMA FormatOwn ==
    ASSUME IInv, TypeInv', NEW j \in Jobs, Format(j)
    PROVE  IInv'
  <1> USE DEF IInv, TypeInv, TypeOK, RowsAreIds, table, marks, delivery, session, tools, model
  <1>1. StatusIsLive'
    BY DEF Format, StatusIsLive, Running
  <1>2. RowIsOwnSession'
    BY DEF Format, RowIsOwnSession
  <1>3. LiveSharers'
    BY DEF Format, LiveSharers
  <1>4. TimerIsDue'
    BY DEF Format, TimerIsDue, Running
  <1>5. InUseOwnsRow'
    BY DEF Format, InUseOwnsRow, Running, Current
  <1>6. DeliveryIsOwn'
    BY DEF Format, DeliveryIsOwn, Current
  <1>7. ForegroundIsSilent'
    BY DEF Format, ForegroundIsSilent
  <1>8. WatchedIsWaited'
    BY DEF Format, WatchedIsWaited
  <1>9. MarksAreHonest'
    BY DEF Format, MarksAreHonest, Mistaken, Consume, Silenced, RowIsOwnSession,
       StatusIsLive, ForegroundIsSilent, WatchedIsWaited
  <1> QED BY <1>1, <1>2, <1>3, <1>4, <1>5, <1>6, <1>7, <1>8, <1>9

LEMMA DrainOwn ==
    ASSUME IInv, TypeInv', Drain
    PROVE  IInv'
  <1> USE DEF IInv, TypeInv, TypeOK, RowsAreIds, table, marks, delivery, session, tools, model
  <1>1. StatusIsLive'
    BY DEF Drain, Retried, StatusIsLive, Running
  <1>2. RowIsOwnSession'
    BY DEF Drain, RowIsOwnSession
  <1>3. LiveSharers'
    BY DEF Drain, LiveSharers
  <1>4. TimerIsDue'
    BY DEF Drain, TimerIsDue, Running
  <1>5. InUseOwnsRow'
    BY DEF Drain, InUseOwnsRow, Running, Current
  <1>6. DeliveryIsOwn'
    BY DEF Drain, Retried, DeliveryIsOwn, Current, Silenced, NoTools
  <1>7. ForegroundIsSilent'
    BY DEF Drain, ForegroundIsSilent
  <1>8. WatchedIsWaited'
    BY DEF Drain, WatchedIsWaited
  <1>9. MarksAreHonest'
    BY DEF Drain, MarksAreHonest
  <1> QED BY <1>1, <1>2, <1>3, <1>4, <1>5, <1>6, <1>7, <1>8, <1>9

LEMMA CommitOwn ==
    ASSUME IInv, TypeInv', Commit
    PROVE  IInv'
  <1> USE DEF IInv, TypeInv, TypeOK, RowsAreIds, table, marks, delivery, session, tools, model
  <1>1. StatusIsLive'
    BY DEF Commit, DeliveryAt, StatusIsLive, Running
  <1>2. RowIsOwnSession'
    BY DEF Commit, RowIsOwnSession
  <1>3. LiveSharers'
    BY DEF Commit, LiveSharers
  <1>4. TimerIsDue'
    BY DEF Commit, TimerIsDue, Running
  <1>5. InUseOwnsRow'
    BY DEF Commit, InUseOwnsRow, Running, Current
  <1>6. DeliveryIsOwn'
    BY DEF Commit, DeliveryIsOwn, Current
  <1>7. ForegroundIsSilent'
    BY DEF Commit, ForegroundIsSilent
  <1>8. WatchedIsWaited'
    BY DEF Commit, WatchedIsWaited
  <1>9. MarksAreHonest'
    BY DEF Commit, MarksAreHonest, Mistaken, Consume
  <1> QED BY <1>1, <1>2, <1>3, <1>4, <1>5, <1>6, <1>7, <1>8, <1>9

LEMMA DiscardOwn ==
    ASSUME IInv, TypeInv', Discard
    PROVE  IInv'
  <1> USE DEF IInv, TypeInv, TypeOK, RowsAreIds, table, marks, delivery, session, tools, model
  <1>1. StatusIsLive'
    BY DEF Discard, Retried, DeliveryAt, StatusIsLive, Running
  <1>2. RowIsOwnSession'
    BY DEF Discard, RowIsOwnSession
  <1>3. LiveSharers'
    BY DEF Discard, LiveSharers
  <1>4. TimerIsDue'
    BY DEF Discard, TimerIsDue, Running
  <1>5. InUseOwnsRow'
    BY DEF Discard, DeliveryAt, InUseOwnsRow, Running, Current
  <1>6. DeliveryIsOwn'
    BY DEF Discard, Retried, DeliveryAt, DeliveryIsOwn, Current
  <1>7. ForegroundIsSilent'
    BY DEF Discard, DeliveryAt, ForegroundIsSilent
  <1>8. WatchedIsWaited'
    BY DEF Discard, DeliveryAt, WatchedIsWaited
  <1>9. MarksAreHonest'
    BY DEF Discard, MarksAreHonest
  <1> QED BY <1>1, <1>2, <1>3, <1>4, <1>5, <1>6, <1>7, <1>8, <1>9

LEMMA FgReturnsOwn ==
    ASSUME IInv, TypeInv', NEW j \in Jobs, FgReturns(j)
    PROVE  IInv'
  <1> USE DEF IInv, TypeInv, TypeOK, RowsAreIds, table, marks, delivery, session, tools, model
  <1>1. StatusIsLive'
    BY DEF FgReturns, StatusIsLive, Running
  <1>2. RowIsOwnSession'
    BY DEF FgReturns, RowIsOwnSession
  <1>3. LiveSharers'
    BY DEF FgReturns, LiveSharers
  <1>4. TimerIsDue'
    BY DEF FgReturns, TimerIsDue, Running
  <1>5. InUseOwnsRow'
    BY DEF FgReturns, InUseOwnsRow, Running, Current
  <1>6. DeliveryIsOwn'
    BY DEF FgReturns, DeliveryIsOwn, Current, ForegroundIsSilent
  <1>7. ForegroundIsSilent'
    BY DEF FgReturns, ForegroundIsSilent
  <1>8. WatchedIsWaited'
    BY DEF FgReturns, WatchedIsWaited
  <1>9. MarksAreHonest'
    BY DEF FgReturns, MarksAreHonest
  <1> QED BY <1>1, <1>2, <1>3, <1>4, <1>5, <1>6, <1>7, <1>8, <1>9

LEMMA FgAbortsOwn ==
    ASSUME IInv, TypeInv', NEW j \in Jobs, FgAborts(j)
    PROVE  IInv'
  <1> USE DEF IInv, TypeInv, TypeOK, RowsAreIds, table, marks, delivery, session, tools, model
  <1>1. StatusIsLive'
    BY DEF FgAborts, Cancelled, StatusIsLive, Running
  <1>2. RowIsOwnSession'
    BY DEF FgAborts, Cancelled, RowIsOwnSession
  <1>3. LiveSharers'
    BY DEF FgAborts, LiveSharers
  <1>4. TimerIsDue'
    BY DEF FgAborts, Cancelled, TimerIsDue, Running
  <1>5. InUseOwnsRow'
    BY DEF FgAborts, Cancelled, InUseOwnsRow, Running, Current
  <1>6. DeliveryIsOwn'
    BY DEF FgAborts, DeliveryIsOwn, Current
  <1>7. ForegroundIsSilent'
    BY DEF FgAborts, Cancelled, ForegroundIsSilent
  <1>8. WatchedIsWaited'
    BY DEF FgAborts, WatchedIsWaited
  <1>9. MarksAreHonest'
    BY DEF FgAborts, Cancelled, MarksAreHonest, Running, StatusIsLive
  <1> QED BY <1>1, <1>2, <1>3, <1>4, <1>5, <1>6, <1>7, <1>8, <1>9

LEMMA FgBackgroundsOwn ==
    ASSUME IInv, TypeInv', NEW j \in Jobs, FgBackgrounds(j)
    PROVE  IInv'
  <1> USE DEF IInv, TypeInv, TypeOK, RowsAreIds, table, marks, delivery, session, tools, model
  <1>1. StatusIsLive'
    BY DEF FgBackgrounds, StatusIsLive, Running
  <1>2. RowIsOwnSession'
    BY DEF FgBackgrounds, RowIsOwnSession
  <1>3. LiveSharers'
    BY DEF FgBackgrounds, LiveSharers
  <1>4. TimerIsDue'
    BY DEF FgBackgrounds, TimerIsDue, Running
  <1>5. InUseOwnsRow'
    BY DEF FgBackgrounds, InUseOwnsRow, Running, Current
  <1>6. DeliveryIsOwn'
    BY DEF FgBackgrounds, DeliveryIsOwn, Current, InUseOwnsRow, LiveSharers,
       StatusIsLive
  <1>7. ForegroundIsSilent'
    BY DEF FgBackgrounds, ForegroundIsSilent, Running, InUseOwnsRow, LiveSharers
  <1>8. WatchedIsWaited'
    BY DEF FgBackgrounds, WatchedIsWaited
  <1>9. MarksAreHonest'
    BY DEF FgBackgrounds, MarksAreHonest
  <1> QED BY <1>1, <1>2, <1>3, <1>4, <1>5, <1>6, <1>7, <1>8, <1>9

LEMMA HubWaitOwn ==
    ASSUME IInv, TypeInv', NEW J \in SUBSET Jobs, HubWait(J)
    PROVE  IInv'
  <1> USE DEF IInv, TypeInv, TypeOK, RowsAreIds, table, marks, delivery, session, tools, model
  <1>1. StatusIsLive'
    BY DEF HubWait, StatusIsLive, Running
  <1>2. RowIsOwnSession'
    BY DEF HubWait, RowIsOwnSession
  <1>3. LiveSharers'
    BY DEF HubWait, LiveSharers
  <1>4. TimerIsDue'
    BY DEF HubWait, TimerIsDue, Running
  <1>5. InUseOwnsRow'
    BY DEF HubWait, InUseOwnsRow, Running, Current
  <1>6. DeliveryIsOwn'
    BY DEF HubWait, DeliveryIsOwn, Current, ToolsMayRun, DeliveryAt
  <1>7. ForegroundIsSilent'
    BY DEF HubWait, ForegroundIsSilent
  <1>8. WatchedIsWaited'
    BY DEF HubWait, RowJobs, WatchedIsWaited, StatusIsLive
  <1>9. MarksAreHonest'
    BY DEF HubWait, MarksAreHonest
  <1> QED BY <1>1, <1>2, <1>3, <1>4, <1>5, <1>6, <1>7, <1>8, <1>9

LEMMA SnapshotOwn ==
    ASSUME IInv, TypeInv', NEW J \in SUBSET Jobs, Snapshot(J)
    PROVE  IInv'
  <1> USE DEF IInv, TypeInv, TypeOK, RowsAreIds, table, marks, delivery, session, tools, model
  <1>1. StatusIsLive'
    BY DEF Snapshot, Answer, Acknowledge, StatusIsLive, Running
  <1>2. RowIsOwnSession'
    BY DEF Snapshot, RowIsOwnSession
  <1>3. LiveSharers'
    BY DEF Snapshot, LiveSharers
  <1>4. TimerIsDue'
    BY DEF Snapshot, TimerIsDue, Running
  <1>5. InUseOwnsRow'
    BY DEF Snapshot, Answer, Acknowledge, InUseOwnsRow, Running, Current
  <1>6. DeliveryIsOwn'
    BY DEF Snapshot, Answer, Acknowledge, DeliveryIsOwn, Current, ToolsMayRun,
       DeliveryAt
  <1>7. ForegroundIsSilent'
    BY DEF Snapshot, Answer, Acknowledge, ForegroundIsSilent
  <1>8. WatchedIsWaited'
    BY DEF Snapshot, Answer, Acknowledge, WatchedIsWaited
  <1>9. MarksAreHonest'
    BY DEF Snapshot, Answer, Acknowledge, MarksAreHonest, Running, Consume, RowJobs,
       StatusIsLive
  <1> QED BY <1>1, <1>2, <1>3, <1>4, <1>5, <1>6, <1>7, <1>8, <1>9

LEMMA HubUnwatchOwn ==
    ASSUME IInv, TypeInv', HubUnwatch
    PROVE  IInv'
  <1> USE DEF IInv, TypeInv, TypeOK, RowsAreIds, table, marks, delivery, session, tools, model
  <1>1. StatusIsLive'
    BY DEF HubUnwatch, StatusIsLive, Running
  <1>2. RowIsOwnSession'
    BY DEF HubUnwatch, RowIsOwnSession
  <1>3. LiveSharers'
    BY DEF HubUnwatch, LiveSharers
  <1>4. TimerIsDue'
    BY DEF HubUnwatch, TimerIsDue, Running
  <1>5. InUseOwnsRow'
    BY DEF HubUnwatch, InUseOwnsRow, Running, Current
  <1>6. DeliveryIsOwn'
    BY DEF HubUnwatch, DeliveryIsOwn, Current
  <1>7. ForegroundIsSilent'
    BY DEF HubUnwatch, ForegroundIsSilent
  <1>8. WatchedIsWaited'
    BY DEF HubUnwatch, WatchedIsWaited
  <1>9. MarksAreHonest'
    BY DEF HubUnwatch, MarksAreHonest
  <1> QED BY <1>1, <1>2, <1>3, <1>4, <1>5, <1>6, <1>7, <1>8, <1>9

LEMMA HubAnswerOwn ==
    ASSUME IInv, TypeInv', HubAnswer
    PROVE  IInv'
  <1> USE DEF IInv, TypeInv, TypeOK, RowsAreIds, table, marks, delivery, session, tools, model
  <1>1. StatusIsLive'
    BY DEF HubAnswer, Answer, Acknowledge, StatusIsLive, Running
  <1>2. RowIsOwnSession'
    BY DEF HubAnswer, RowIsOwnSession
  <1>3. LiveSharers'
    BY DEF HubAnswer, LiveSharers
  <1>4. TimerIsDue'
    BY DEF HubAnswer, TimerIsDue, Running
  <1>5. InUseOwnsRow'
    BY DEF HubAnswer, Answer, Acknowledge, InUseOwnsRow, Running, Current
  <1>6. DeliveryIsOwn'
    BY DEF HubAnswer, Answer, Acknowledge, DeliveryIsOwn, Current
  <1>7. ForegroundIsSilent'
    BY DEF HubAnswer, Answer, Acknowledge, ForegroundIsSilent
  <1>8. WatchedIsWaited'
    BY DEF HubAnswer, WatchedIsWaited
  <1>9. MarksAreHonest'
    BY DEF HubAnswer, Answer, Acknowledge, MarksAreHonest, Running, Consume,
       StatusIsLive
  <1> QED BY <1>1, <1>2, <1>3, <1>4, <1>5, <1>6, <1>7, <1>8, <1>9

LEMMA HubMessageOwn ==
    ASSUME IInv, TypeInv', HubMessage
    PROVE  IInv'
  <1> USE DEF IInv, TypeInv, TypeOK, RowsAreIds, table, marks, delivery, session, tools, model
  <1>1. StatusIsLive'
    BY DEF HubMessage, StatusIsLive, Running
  <1>2. RowIsOwnSession'
    BY DEF HubMessage, RowIsOwnSession
  <1>3. LiveSharers'
    BY DEF HubMessage, LiveSharers
  <1>4. TimerIsDue'
    BY DEF HubMessage, TimerIsDue, Running
  <1>5. InUseOwnsRow'
    BY DEF HubMessage, InUseOwnsRow, Running, Current
  <1>6. DeliveryIsOwn'
    BY DEF HubMessage, DeliveryIsOwn, Current
  <1>7. ForegroundIsSilent'
    BY DEF HubMessage, ForegroundIsSilent
  <1>8. WatchedIsWaited'
    BY DEF HubMessage, WatchedIsWaited
  <1>9. MarksAreHonest'
    BY DEF HubMessage, MarksAreHonest
  <1> QED BY <1>1, <1>2, <1>3, <1>4, <1>5, <1>6, <1>7, <1>8, <1>9

LEMMA HubCancelOwn ==
    ASSUME IInv, TypeInv', NEW i \in Ids, HubCancel(i)
    PROVE  IInv'
  <1> USE DEF IInv, TypeInv, TypeOK, RowsAreIds, table, marks, delivery, session, tools, model
  <1>1. StatusIsLive'
    BY DEF HubCancel, Cancelled, Acknowledge, StatusIsLive, Running
  <1>2. RowIsOwnSession'
    BY DEF HubCancel, Cancelled, RowIsOwnSession
  <1>3. LiveSharers'
    BY DEF HubCancel, LiveSharers
  <1>4. TimerIsDue'
    BY DEF HubCancel, Cancelled, TimerIsDue, Running
  <1>5. InUseOwnsRow'
    BY DEF HubCancel, Cancelled, Acknowledge, InUseOwnsRow, Running, Current
  <1>6. DeliveryIsOwn'
    BY DEF HubCancel, Acknowledge, DeliveryIsOwn, Current
  <1>7. ForegroundIsSilent'
    BY DEF HubCancel, Cancelled, Acknowledge, ForegroundIsSilent
  <1>8. WatchedIsWaited'
    BY DEF HubCancel, Acknowledge, WatchedIsWaited
  <1>9. MarksAreHonest'
    BY DEF HubCancel, Cancelled, Acknowledge, MarksAreHonest
  <1> QED BY <1>1, <1>2, <1>3, <1>4, <1>5, <1>6, <1>7, <1>8, <1>9

LEMMA EvictOwn ==
    ASSUME IInv, TypeInv', NEW i \in Ids, Evict(i)
    PROVE  IInv'
  <1> USE DEF IInv, TypeInv, TypeOK, RowsAreIds, table, marks, delivery, session, tools, model
  <1>1. StatusIsLive'
    BY DEF Evict, StatusIsLive, Running
  <1>2. RowIsOwnSession'
    BY DEF Evict, RowIsOwnSession
  <1>3. LiveSharers'
    BY DEF Evict, LiveSharers
  <1>4. TimerIsDue'
    BY DEF Evict, TimerIsDue, Running
  <1>5. InUseOwnsRow'
    BY DEF Evict, InUseOwnsRow, Running, Current, Strayed, Returning, TimerIsDue,
       StatusIsLive
  <1>6. DeliveryIsOwn'
    BY DEF Evict, DeliveryIsOwn, Current, Strayed
  <1>7. ForegroundIsSilent'
    BY DEF Evict, ForegroundIsSilent, Running, Returning, InUseOwnsRow, TimerIsDue,
       StatusIsLive
  <1>8. WatchedIsWaited'
    BY DEF Evict, WatchedIsWaited
  <1>9. MarksAreHonest'
    BY DEF Evict, MarksAreHonest
  <1> QED BY <1>1, <1>2, <1>3, <1>4, <1>5, <1>6, <1>7, <1>8, <1>9

LEMMA ResetOwn ==
    ASSUME IInv, TypeInv', Reset
    PROVE  IInv'
  <1> USE DEF IInv, TypeInv, TypeOK, RowsAreIds, table, marks, delivery, session, tools, model
  <1>1. StatusIsLive'
    BY DEF Reset, StatusIsLive, Running, Retried
  <1>2. RowIsOwnSession'
    BY DEF Reset, RowJobs, RowIsOwnSession, Running
  <1>3. LiveSharers'
    BY DEF Reset, LiveSharers
  <1>4. TimerIsDue'
    BY DEF Reset, RowJobs, TimerIsDue, Running
  <1>5. InUseOwnsRow'
    BY DEF Reset, NoTools, InUseOwnsRow, Running, Current, ToolsMayRun, DeliveryAt,
       StatusIsLive
  <1>6. DeliveryIsOwn'
    BY DEF Reset, DeliveryIsOwn, Current, ToolsMayRun, DeliveryAt, StatusIsLive,
       Retried, InUseOwnsRow
  <1>7. ForegroundIsSilent'
    BY DEF Reset, NoTools, ForegroundIsSilent
  <1>8. WatchedIsWaited'
    BY DEF Reset, WatchedIsWaited
  <1>9. MarksAreHonest'
    BY DEF Reset, MarksAreHonest
  <1> QED BY <1>1, <1>2, <1>3, <1>4, <1>5, <1>6, <1>7, <1>8, <1>9

LEMMA OwnInvariant == Spec => []IInv
  <1>1. ASSUME Init PROVE IInv
    <2>1. TypeInv
      BY <1>1, TypeInit
    <2>2. StatusIsLive
      BY <1>1, JobsAssumption DEF Init, StatusIsLive, Running, Pending
    <2>3. InUseOwnsRow /\ DeliveryIsOwn
      BY <1>1 DEF Init, InUseOwnsRow, DeliveryIsOwn, Current, Running
    <2>4. RowIsOwnSession /\ LiveSharers /\ TimerIsDue
      BY <1>1 DEF Init, RowIsOwnSession, LiveSharers, TimerIsDue
    <2>5. ForegroundIsSilent /\ WatchedIsWaited /\ MarksAreHonest
      BY <1>1 DEF Init, ForegroundIsSilent, WatchedIsWaited, MarksAreHonest
    <2> QED BY <2>1, <2>2, <2>3, <2>4, <2>5 DEF IInv
  <1>2. IInv /\ TypeInv' /\ [Next]_vars => IInv'
    <2>1. ASSUME IInv, TypeInv', Next PROVE IInv'
      <3>1. ASSUME NEW j \in Jobs, NEW i \in Ids, Register(j, i) \/ RegisterForeground(j, i)
            PROVE  IInv'
        BY <2>1, <3>1, RegisterOwn, RegisterForegroundOwn
      <3>2. ASSUME NEW j \in Jobs, Settle(j) \/ Deliver(j) \/ Format(j) PROVE IInv'
        BY <2>1, <3>2, SettleOwn, DeliverOwn, FormatOwn
      <3>3. ASSUME NEW j \in Jobs, FgReturns(j) \/ FgAborts(j) \/ FgBackgrounds(j) PROVE IInv'
        BY <2>1, <3>3, FgReturnsOwn, FgAbortsOwn, FgBackgroundsOwn
      <3>4. ASSUME NEW J \in SUBSET Jobs, HubWait(J) \/ Snapshot(J) PROVE IInv'
        BY <2>1, <3>4, HubWaitOwn, SnapshotOwn
      <3>5. ASSUME NEW i \in Ids, HubCancel(i) \/ Evict(i) PROVE IInv'
        BY <2>1, <3>5, HubCancelOwn, EvictOwn
      <3>6. ASSUME Drain \/ Commit \/ Discard \/ HubUnwatch \/ HubAnswer \/ HubMessage \/ Reset
            PROVE  IInv'
        BY <2>1, <3>6, DrainOwn, CommitOwn, DiscardOwn, HubUnwatchOwn, HubAnswerOwn,
           HubMessageOwn, ResetOwn
      <3> QED BY <2>1, <3>1, <3>2, <3>3, <3>4, <3>5, <3>6 DEF Next
    <2>2. IInv /\ TypeInv' /\ UNCHANGED vars => IInv'
      BY DEF vars, table, marks, delivery, session, tools, model, IInv, StatusIsLive,
         RowIsOwnSession, LiveSharers, TimerIsDue, InUseOwnsRow, DeliveryIsOwn,
         ForegroundIsSilent, WatchedIsWaited, MarksAreHonest, Current, Running
    <2> QED BY <2>1, <2>2
  <1>3. Spec => []TypeInv
    BY TypeInit, TypeStep, PTL DEF Spec
  <1> QED BY <1>1, <1>2, <1>3, PTL DEF Spec

(* An id speaks of one job, for every number of jobs and ids and although  *)
(* deliveries outlive the rows of their jobs: a running job keeps its row, *)
(* and what is injected was neither seen before nor produced in another    *)
(* session, unless an overlap of two uses of the id has reached the job.   *)
THEOREM IdsCorrect == Spec => []IdsMatch
  <1>1. IInv => IdsMatch
    BY DEF IInv, InUseOwnsRow, DeliveryIsOwn, Current, RunningHasRow, NoReplay,
       OwnSession, DeliveryAt, Running, IdsMatch
  <1> QED BY <1>1, OwnInvariant, PTL

-----------------------------------------------------------------------------
(* Every result is on its way.                                             *)

(* ResultNotLost, without the jobs a hub wait lists but will not answer    *)
(* for: those whose row it lost, or if a message ends it.                  *)
OnItsWay ==
    \A j \in Jobs \ crossed :
        status[j] = "completed" /\ born[j] = epoch /\ j \notin seen =>
            \/ place[j] \in Pending \/ j \in fg
            \/ j \in hub /\ rows[id[j]] = j /\ (hubAt = "leaving" \/ id[j] \in watched)

(* Silencing a completed job's current delivery is only possible when the  *)
(* job was seen.                                                           *)
LEMMA SilencedIsSeen ==
    ASSUME IInv, NEW j \in Jobs \ crossed, Current(j), Silenced(id[j])
    PROVE  j \in seen
  <1>1. status[j] = "completed" /\ rows[id[j]] = j /\ id[j] \in Ids /\ j # None
    BY DEF IInv, TypeInv, TypeOK, RowsAreIds, StatusIsLive, InUseOwnsRow, Current, Pending
  <1>2. j \notin fg /\ id[j] \notin watched
    BY <1>1 DEF IInv, ForegroundIsSilent, WatchedIsWaited, Current, Pending
  <1> QED BY <1>1, <1>2 DEF IInv, MarksAreHonest, Silenced

(* So does an answer: what it silences it has shown. *)
LEMMA AnswerShows ==
    ASSUME IInv, NEW K \in SUBSET Jobs, Answer(K),
           \A k \in K : rows[id[k]] \in {k, None} /\ id[k] \in Ids,
           NEW j \in Jobs \ crossed, status[j] = "completed", j \notin seen'
    PROVE  /\ j \notin seen /\ place'[j] = place[j]
           /\ rows[id[j]] = j => j \notin K
  <1>1. seen \subseteq seen'
    BY DEF Answer
  <1>2. j \notin live
    BY DEF IInv, StatusIsLive
  <1>3. rows[id[j]] = j => j \notin K
    <2> SUFFICES ASSUME j \in K, rows[id[j]] = j PROVE FALSE
      OBVIOUS
    <2>1. id[j] \notin consumed
      BY <1>1 DEF IInv, TypeInv, TypeOK, RowsAreIds, MarksAreHonest
    <2> QED BY <1>2, <2>1 DEF Answer, Running
  <1>4. ASSUME place[j] = "queued" PROVE id[j] \notin suppressed' \cup watched
    <2>1. Current(j) /\ ~Silenced(id[j])
      BY <1>1, <1>4, SilencedIsSeen DEF Current
    <2>2. rows[id[j]] = j /\ j # None
      BY <2>1 DEF IInv, InUseOwnsRow
    <2>3. \A k \in K : id[k] # id[j]
      BY <1>3, <2>2
    <2> QED BY <2>1, <2>3 DEF Answer, Acknowledge, Silenced
  <1>5. place'[j] = place[j]
    BY <1>4 DEF Answer, Acknowledge
  <1> QED BY <1>1, <1>3, <1>5

LEMMA OnItsWayStep ==
    ASSUME ~PhotoFinish, IInv, TypeInv', OnItsWay, [Next]_vars
    PROVE  OnItsWay'
  <1> USE DEF table, marks, delivery, session, tools, model
  <1>0. /\ \A j \in Jobs : status[j] = "completed" => j \notin live
        /\ \A j \in Jobs : place[j] \in Pending => status[j] = "completed"
        /\ \A j \in Jobs : born[j] <= epoch /\ place[j] \in Pending \cup {"none"}
        /\ epoch \in Nat /\ born \in [Jobs -> Nat] /\ stamp \in [Jobs -> Nat]
        /\ place \in [Jobs -> Pending \cup {"none"}]
    BY JobsAssumption DEF IInv, TypeInv, TypeOK, StatusIsLive
  <1>1. ASSUME NEW j \in Jobs, NEW i \in Ids, Register(j, i) \/ RegisterForeground(j, i)
        PROVE  OnItsWay'
    <2>1. \A k \in Jobs \ crossed : place[k] = "queued" => id[k] # i
      BY <1>1 DEF Register, RegisterForeground, Added, FreeId, IInv, InUseOwnsRow, Current
    <2>2. \A k \in Jobs \ crossed : place'[k] = place[k]
      BY <1>0, <1>1, <2>1 DEF Register, RegisterForeground, Added
    <2>3. /\ \A k \in Jobs \ {j} : status'[k] = status[k] /\ born'[k] = born[k] /\ id'[k] = id[k]
          /\ status'[j] = "running" /\ crossed \subseteq crossed' /\ fg \subseteq fg'
          /\ \A i2 \in Ids : rows[i2] # None => rows'[i2] = rows[i2]
      BY <1>1 DEF Register, RegisterForeground, Added, FreeId, IInv, TypeInv, TypeOK
    <2>4. \A k \in Jobs : status[k] = "completed" => id[k] \in Ids /\ k # None
      BY DEF IInv, TypeInv, TypeOK
    <2>5. UNCHANGED <<epoch, seen, hub, hubAt, watched>>
      BY <1>1 DEF Register, RegisterForeground, Added
    <2> QED BY <2>2, <2>3, <2>4, <2>5 DEF OnItsWay
  <1>2. ASSUME NEW j \in Jobs, Settle(j) PROVE OnItsWay'
    <2>1. Running(j) /\ j \notin crossed => rows[id[j]] = j /\ id[j] \in Ids /\ j # None
      BY <1>2 DEF Settle, IInv, TypeInv, TypeOK, RowsAreIds, InUseOwnsRow, Running
    <2>2. CASE Running(j) /\ id[j] \in watched
      BY <1>0, <1>2, <2>1, <2>2 DEF Settle, Enqueue, Silenced, Running, OnItsWay, Pending,
         IInv, WatchedIsWaited, TypeInv, TypeOK
    <2>3. CASE Running(j) /\ id[j] \in suppressed
      <3>1. j \in fg \cup crossed
        BY <2>1, <2>3, <1>2 DEF IInv, MarksAreHonest, StatusIsLive, Running, Settle
      <3> QED BY <1>0, <1>2, <2>3, <3>1 DEF Settle, Enqueue, Silenced, Running, OnItsWay, Pending,
         IInv, TypeInv, TypeOK
    <2>4. CASE Running(j) /\ ~Silenced(id[j])
      BY <1>0, <1>2, <2>1, <2>4 DEF Settle, Enqueue, Running, OnItsWay, Pending,
         IInv, TypeInv, TypeOK
    <2>5. CASE ~Running(j)
      BY <1>2, <2>5 DEF Settle, OnItsWay
    <2> QED BY <2>2, <2>3, <2>4, <2>5 DEF Silenced
  <1>3. ASSUME NEW j \in Jobs, Deliver(j) PROVE OnItsWay'
    <2>1. Silenced(id[j]) => j \in seen \cup crossed
      BY <1>3, SilencedIsSeen DEF Deliver, Current
    <2> QED BY <1>0, <1>3, <2>1 DEF Deliver, OnItsWay, Pending
  <1>4. ASSUME NEW j \in Jobs, Format(j) PROVE OnItsWay'
    <2>1. stamp[j] = epoch /\ Silenced(id[j]) => j \in seen \cup crossed
      BY <1>4, SilencedIsSeen DEF Format, Current
    <2>2. stamp[j] # epoch => born[j] # epoch
      BY <1>0, <1>4 DEF Format, IInv, StatusIsLive
    <2>3. crossed \subseteq crossed'
      BY <1>4 DEF Format
    <2> QED BY <1>0, <1>4, <2>1, <2>2, <2>3 DEF Format, OnItsWay, Pending
  <1>5. ASSUME Drain \/ Discard PROVE OnItsWay'
    <2>1. \A j \in Jobs \ crossed : place[j] \in {"entry", "held"} =>
              /\ Silenced(id[j]) => j \in seen
              /\ rows[id[j]] # None
      BY SilencedIsSeen, JobsAssumption DEF Current, IInv, InUseOwnsRow
    <2>2. \A j \in Jobs : place[j] = "entry" => stamp[j] = epoch
      BY DEF IInv, DeliveryIsOwn
    <2> QED BY <1>0, <1>5, <2>1, <2>2 DEF Drain, Discard, Retried, DeliveryAt, OnItsWay, Pending
  <1>6. CASE Commit
    <2>1. crossed \subseteq crossed'
      BY <1>6 DEF Commit
    <2> QED BY <1>0, <1>6, <2>1 DEF Commit, DeliveryAt, OnItsWay, Pending
  <1>7. ASSUME NEW j \in Jobs, FgReturns(j) PROVE OnItsWay'
    BY <1>7 DEF FgReturns, OnItsWay
  <1>8. ASSUME NEW j \in Jobs, FgAborts(j) \/ FgBackgrounds(j) PROVE OnItsWay'
    <2>1. j \in live /\ status[j] # "completed"
      BY <1>0, <1>8 DEF FgAborts, FgBackgrounds
    <2> QED BY <1>0, <1>8, <2>1 DEF FgAborts, FgBackgrounds, Cancelled, OnItsWay, Pending,
               IInv, TypeInv, TypeOK
  <1>9. ASSUME NEW J \in SUBSET Jobs, HubWait(J) PROVE OnItsWay'
    BY <1>9 DEF HubWait, OnItsWay
  <1>10. ASSUME NEW J \in SUBSET Jobs, Snapshot(J) PROVE OnItsWay'
    <2>1. \A j \in J : rows[id[j]] \in {j, None} /\ id[j] \in Ids
      BY <1>10, RowIsRegistered DEF Snapshot, IInv
    <2>2. Answer(J)
      BY <1>10 DEF Snapshot
    <2>3. \A j \in Jobs \ crossed :
              status[j] = "completed" /\ j \notin seen' => place'[j] = place[j] /\ j \notin seen
      BY <2>1, <2>2, AnswerShows
    <2> QED BY <1>10, <2>3 DEF Snapshot, OnItsWay
  <1>11. CASE HubUnwatch
    BY <1>11 DEF HubUnwatch, OnItsWay
  <1>12. CASE HubAnswer
    <2> DEFINE K == {IF rows[id[j]] = None THEN j ELSE rows[id[j]] : j \in hub}
    <2>1. \A j \in hub : j \in Jobs /\ id[j] \in Ids /\ j # None
      BY JobsAssumption DEF IInv, TypeInv, TypeOK
    <2>2. K \in SUBSET Jobs /\ \A k \in K : rows[id[k]] \in {k, None} /\ id[k] \in Ids
      BY <2>1 DEF IInv, TypeInv, TypeOK, RowsAreIds
    <2>3. Answer(K)
      BY <1>12 DEF HubAnswer
    <2>4. \A j \in hub : rows[id[j]] = j => j \in K
      BY <2>1
    <2> HIDE DEF K
    <2>5. \A j \in Jobs \ crossed : status[j] = "completed" /\ j \notin seen' =>
              /\ place'[j] = place[j] /\ j \notin seen
              /\ rows[id[j]] = j => j \notin hub
      BY <2>2, <2>3, <2>4, AnswerShows
    <2> QED BY <1>12, <2>5 DEF HubAnswer, OnItsWay
  <1>13. CASE HubMessage
    <2>1. \A j \in Jobs : id[j] \in watched /\ rows[id[j]] = j => j \in live
      BY <1>13 DEF HubMessage
    <2> QED BY <1>0, <1>13, <2>1 DEF HubMessage, OnItsWay
  <1>14. ASSUME NEW i \in Ids, HubCancel(i) PROVE OnItsWay'
    <2>1. \A j \in Jobs \ crossed : place[j] = "queued" /\ j \notin seen =>
              ~Silenced(id[j]) /\ rows[id[j]] = j /\ status[j] = "completed"
      BY <1>0, SilencedIsSeen DEF Current, IInv, InUseOwnsRow, Pending
    <2>2. rows[i] \in Jobs /\ status[rows[i]] = "running"
      BY <1>14 DEF HubCancel, Running, IInv, TypeInv, TypeOK
    <2>3. \A j \in Jobs \ crossed : j \notin seen => place'[j] = place[j]
      BY <1>14, <2>1, <2>2 DEF HubCancel, Acknowledge, Silenced
    <2>4. \A j \in Jobs : status'[j] = "completed" => status[j] = "completed"
      BY <1>14 DEF HubCancel, Cancelled, IInv, TypeInv, TypeOK
    <2> QED BY <1>14, <2>3, <2>4 DEF HubCancel, OnItsWay
  <1>15. ASSUME NEW i \in Ids, Evict(i) PROVE OnItsWay'
    <2>1. \A j \in hub : id[j] = i /\ rows[i] = j /\ status[j] = "completed" =>
              hubAt # "leaving" /\ i \notin watched
      BY <1>0, <1>15 DEF Evict, Returning, IInv, TypeInv, TypeOK
    <2>2. \A i2 \in Ids : i2 # i => rows'[i2] = rows[i2] /\ (i2 \in watched => i2 \in watched')
      BY <1>15 DEF Evict, IInv, TypeInv, TypeOK
    <2>3. \A j \in Jobs : status[j] = "completed" => id[j] \in Ids
      BY DEF IInv, TypeInv, TypeOK
    <2>4. /\ crossed \subseteq crossed'
          /\ UNCHANGED <<id, status, place, born, epoch, seen, fg, hub, hubAt>>
      BY <1>15 DEF Evict
    <2> QED BY <2>1, <2>2, <2>3, <2>4 DEF OnItsWay
  <1>16. CASE Reset
    BY <1>0, <1>16 DEF Reset, OnItsWay, IInv, StatusIsLive
  <1>17. CASE UNCHANGED vars
    BY <1>17 DEF vars, OnItsWay, Pending
  <1> QED BY <1>1, <1>2, <1>3, <1>4, <1>5, <1>6, <1>7, <1>8, <1>9, <1>10, <1>11, <1>12,
             <1>13, <1>14, <1>15, <1>16, <1>17 DEF Next

(* A completed result is on its way to the model until the model has it,   *)
(* or its session ends: nothing silences the last way that was left, as    *)
(* long as no overlap of two uses of the job's id has reached the job.     *)
(* Assumed: no message ends a hub wait at the moment a watched job settles. *)
THEOREM ResultsCorrect ==
    ASSUME ~PhotoFinish
    PROVE  Spec => []ResultNotLost
  <1>1. Init => OnItsWay
    BY DEF Init, OnItsWay
  <1>2. IInv /\ TypeInv' /\ OnItsWay /\ [Next]_vars => OnItsWay'
    BY OnItsWayStep
  <1>3. OnItsWay => ResultNotLost
    BY DEF OnItsWay, ResultNotLost
  <1>4. Spec => []IInv
    BY OwnInvariant
  <1>5. Spec => []TypeInv
    BY TypeInit, TypeStep, PTL DEF Spec
  <1> QED BY <1>1, <1>2, <1>3, <1>4, <1>5, PTL DEF Spec
=============================================================================
