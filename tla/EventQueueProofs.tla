-------------------------- MODULE EventQueueProofs --------------------------
(***************************************************************************)
(* For any deliveries, issues, slots, retries, crashes and shutdowns: a    *)
(* key has one run, and a workspace one user unless an event has strayed   *)
(* from its key; no running row is forgotten while the process is up, and  *)
(* an interrupted event is not failed for it.                              *)
(*                                                                         *)
(* The argument is that a key stays in flight for as long as an event      *)
(* queued under it has a task, that a thread outlives its task only when   *)
(* nothing is dispatched any more, and that hooks, waiting tasks and slots *)
(* are accounted for by where each task is.                                *)
(***************************************************************************)
EXTENDS EventQueue, FiniteSetTheorems, SequenceTheorems,
        WellFoundedInduction, TLAPS

(* An event with a task has its key in flight. *)
InFlight == \A e \in Events : run[e] # "none" => key[e] \in inflight

(* Two events with a task or a thread are queued under different keys. *)
Owner(e) == run[e] # "none" \/ e \in loose
OneOwner == \A e, f \in Events : e # f /\ Owner(e) /\ Owner(f) => key[e] # key[f]

(* The dispatcher is off from stop to the end of the process; only then do *)
(* threads outlive their tasks, and only a shutdown that interrupts marks  *)
(* events or unwinds tasks, each once.                                     *)
OffWhenStopping == disp = "off" <=> proc \in {"draining", "interrupting", "stopped"}
LooseWhenOff == disp # "off" => loose = {}
Ending == proc \in {"interrupting", "stopped"}
MarkedWhenEnding == ~Ending => interrupted = {}
UnwoundOnce == \A e \in Events : run[e] = "unwind" => Ending /\ e \notin todo

(* The hooks are those of the turns that can be killed. *)
HooksArmed == \A e \in Events : e \in hooks <=> run[e] = "armed"

(* A task waits for its slot in one place. *)
Waits(l, r) ==
    /\ \A k \in 1..Len(l) : r[l[k]] = "slot"
    /\ \A j, k \in 1..Len(l) : l[j] = l[k] => j = k

(* An event with a task or a thread, or in the dispatcher's hands, has     *)
(* been received: its key is settled.                                      *)
Received == \A e \in Events : Owner(e) \/ e = got => row[e] # "absent"

(* An issue has its own workspace, and its events are queued under it.     *)
RoutedHome ==
    /\ \A i \in Issues : origin[i] = i
    /\ \A e \in Events : subject[e] \in Issues => key[e] = subject[e] /\ place[e] = subject[e]

EventIInv ==
    /\ TypeOK /\ SlotsCounted /\ InFlight /\ OneOwner /\ OffWhenStopping /\ LooseWhenOff
    /\ MarkedWhenEnding /\ UnwoundOnce /\ HooksArmed /\ Waits(line, run) /\ RowHasRunner

-----------------------------------------------------------------------------
(* The operators. *)

(* A set of deliveries has an oldest one. *)
LEMMA OldestIn ==
  ASSUME NEW S \in SUBSET Events, S # {}
  PROVE  Oldest(S) \in S
  <1> USE QueueAssumption DEF Events
  <1> DEFINE Upto(m) == {k \in S : k <= m}
             F == {Upto(m) : m \in S}
  <1>1. IsFiniteSet(S)
    <2>1. IsFiniteSet(Events)
      BY FS_Interval
    <2> QED
      BY <2>1, FS_Subset
  <1>2. F \subseteq FiniteSubsetsOf(S)
    BY <1>1, FS_Subset DEF FiniteSubsetsOf
  <1>3. IsWellFoundedOn(StrictSubsetOrdering(S), FiniteSubsetsOf(S))
    BY FS_StrictSubsetOrderingWellFounded
  <1>4. PICK x \in F : \A y \in F : <<y, x>> \notin StrictSubsetOrdering(S)
    <2>1. F # {}
      <3>1. PICK m \in S : TRUE
        OBVIOUS
      <3>2. Upto(m) \in F
        OBVIOUS
      <3> QED
        BY <3>2
    <2> HIDE DEF F
    <2> QED
      BY <1>2, <1>3, <2>1, WFMin
  <1>5. PICK m \in S : x = Upto(m)
    OBVIOUS
  <1>6. \A k \in S : m <= k
    <2> SUFFICES ASSUME NEW k \in S, k < m PROVE FALSE
      OBVIOUS
    <2>1. k \in Nat /\ m \in Nat /\ \A i \in S : i \in Nat
      OBVIOUS
    <2>2. Upto(k) \subseteq Upto(m) /\ m \in Upto(m) /\ m \notin Upto(k)
      <3>1. k <= m /\ ~(m <= k) /\ m <= m /\ \A i \in S : i <= k => i <= m
        BY <2>1
      <3> QED
        BY <3>1
    <2>3. <<Upto(k), Upto(m)>> \in StrictSubsetOrdering(S)
      BY <2>2 DEF StrictSubsetOrdering
    <2> QED
      BY <1>4, <1>5, <2>3
  <1> QED
    BY <1>6 DEF Oldest

(* What the slots count when the task of one event moves. *)
Held(r) == {e \in Events : r[e] \in Holding}

LEMMA HeldFinite == ASSUME NEW r PROVE IsFiniteSet(Held(r)) /\ Cardinality(Held(r)) \in Nat
  <1>1. IsFiniteSet(Events)
    BY QueueAssumption, FS_Interval DEF Events
  <1>2. Held(r) \subseteq Events
    BY DEF Held
  <1> QED
    BY <1>1, <1>2, FS_Subset, FS_CardinalityType

LEMMA HeldMoves ==
  ASSUME NEW r, NEW q, NEW x \in Events, \A e \in Events : e # x => q[e] = r[e]
  PROVE  Cardinality(Held(q)) = IF r[x] \in Holding
                                THEN IF q[x] \in Holding THEN Cardinality(Held(r))
                                     ELSE Cardinality(Held(r)) - 1
                                ELSE IF q[x] \in Holding THEN Cardinality(Held(r)) + 1
                                     ELSE Cardinality(Held(r))
  <1>1. x \in Held(r) <=> r[x] \in Holding
    BY DEF Held
  <1>2. CASE q[x] \in Holding
    <2>1. Held(q) = Held(r) \cup {x}
      BY <1>2 DEF Held
    <2> QED
      BY <1>1, <1>2, <2>1, HeldFinite, FS_AddElement
  <1>3. CASE q[x] \notin Holding
    <2>1. Held(q) = Held(r) \ {x}
      BY <1>3 DEF Held
    <2> QED
      BY <1>1, <1>3, <2>1, HeldFinite, FS_RemoveElement
  <1> QED
    BY <1>2, <1>3

(* A task joins the line, is the first of it, or gives up its place. *)
LEMMA JoinLine ==
  ASSUME NEW l \in Seq(Events), NEW e \in Events, NEW r, NEW q, Waits(l, r), r[e] # "slot",
         q[e] = "slot", \A f \in Events : f # e => q[f] = r[f]
  PROVE  Append(l, e) \in Seq(Events) /\ Waits(Append(l, e), q)
  <1>1. /\ Append(l, e) \in Seq(Events) /\ Len(Append(l, e)) = Len(l) + 1 /\ Len(l) \in Nat
        /\ Append(l, e)[Len(l) + 1] = e
        /\ \A k \in 1..Len(l) : Append(l, e)[k] = l[k] /\ l[k] \in Events
    OBVIOUS
  <1>2. 1..(Len(l) + 1) = 1..Len(l) \cup {Len(l) + 1}
    BY <1>1
  <1>3. \A k \in 1..Len(l) : l[k] # e
    BY DEF Waits
  <1> QED
    BY <1>1, <1>2, <1>3 DEF Waits

LEMMA LeaveLine ==
  ASSUME NEW l \in Seq(Events), l # <<>>, NEW r, NEW q, Waits(l, r),
         \A f \in Events : f # Head(l) => q[f] = r[f]
  PROVE  /\ Tail(l) \in Seq(Events) /\ Waits(Tail(l), q)
         /\ Head(l) \in Events /\ r[Head(l)] = "slot"
  <1>1. /\ Tail(l) \in Seq(Events) /\ Len(Tail(l)) = Len(l) - 1 /\ Len(l) \in Nat \ {0}
        /\ Head(l) = l[1] /\ \A k \in 1..Len(l) : l[k] \in Events
        /\ \A k \in 1..(Len(l) - 1) : Tail(l)[k] = l[k + 1]
    OBVIOUS
  <1>2. 1 \in 1..Len(l) /\ \A k \in 1..(Len(l) - 1) : k + 1 \in 1..Len(l) /\ k + 1 # 1
    BY <1>1
  <1>3. \A k \in 1..(Len(l) - 1) : l[k + 1] # Head(l)
    BY <1>1, <1>2 DEF Waits
  <1> QED
    BY <1>1, <1>2, <1>3 DEF Waits

LEMMA UnlinedWaits ==
  ASSUME line \in Seq(Events), NEW e \in Events, NEW r, NEW q, Waits(line, r),
         \A f \in Events : f # e => q[f] = r[f]
  PROVE  Unlined(e) \in Seq(Events) /\ Waits(Unlined(e), q)
  <1>1. Len(line) \in Nat /\ \A k \in 1..Len(line) : line[k] \in Events
    OBVIOUS
  <1>2. CASE \A k \in 1..Len(line) : line[k] # e
    <2>1. {k \in 1..Len(line) : line[k] = e} = {}
      BY <1>2
    <2>2. Unlined(e) = line
      BY <2>1 DEF Unlined
    <2> QED
      BY <1>1, <1>2, <2>2 DEF Waits
  <1>3. ASSUME NEW at \in 1..Len(line),
  line[at] = e PROVE Unlined(e) \in Seq(Events) /\ Waits(Unlined(e), q)
    <2> DEFINE d == [k \in 1..(Len(line) - 1) |-> IF at <= k THEN line[k + 1] ELSE line[k]]
    <2>1. {k \in 1..Len(line) : line[k] = e} = {at}
      BY <1>1, <1>3 DEF Waits
    <2>2. Unlined(e) = d
      BY <2>1 DEF Unlined
    <2>3. d \in [1..(Len(line) - 1) -> Events]
      BY <1>1
    <2>4. Len(line) - 1 \in Nat
      BY <1>1
    <2>5. d \in Seq(Events)
      BY <2>3, <2>4, SeqDef
    <2>6. Len(d) = Len(line) - 1
      BY <2>3, <2>4, <2>5, LenProperties
    <2>7. \A k \in 1..(Len(line) - 1) : d[k] = IF at <= k THEN line[k + 1] ELSE line[k]
      OBVIOUS
    <2> HIDE DEF d
    <2>8. \A j, k \in 1..Len(d) : d[j] = d[k] => j = k
      BY <1>1, <2>6, <2>7 DEF Waits
    <2>9. \A k \in 1..Len(d) : d[k] # e /\ d[k] \in Events /\ r[d[k]] = "slot"
      BY <1>1, <1>3, <2>6, <2>7 DEF Waits
    <2> QED
      BY <2>2, <2>5, <2>8, <2>9 DEF Waits
  <1> QED
    BY <1>2, <1>3

-----------------------------------------------------------------------------
(* What most steps have in common. *)
Statuses == {"absent", "queued", "running", "done", "failed"}
Stages == {"none", "slot", "reclaim", "releasing"} \cup Holding

(* A step that leaves the tasks alone keeps what is said of them. *)
LEMMA TasksStay ==
  ASSUME EventIInv, UNCHANGED <<key, run, slotVars, inflight, hooks, loose>>
  PROVE  /\ SlotsCounted' /\ InFlight' /\ OneOwner' /\ HooksArmed' /\ Waits(line, run)'
         /\ key' \in [Events -> Keys] /\ run' \in [Events -> Stages]
         /\ line' \in Seq(Events) /\ free' \in 0..Slots /\ inflight' \subseteq Keys
         /\ hooks' \subseteq Events /\ loose' \subseteq Events
  <1>1. SlotsCounted'
    BY DEF EventIInv, SlotsCounted, slotVars
  <1>2. InFlight' /\ OneOwner' /\ HooksArmed' /\ Waits(line, run)'
    BY DEF EventIInv, InFlight, OneOwner, Owner, HooksArmed, Waits, slotVars
  <1>3. /\ key' \in [Events -> Keys] /\ run' \in [Events -> Stages]
        /\ line' \in Seq(Events) /\ free' \in 0..Slots /\ inflight' \subseteq Keys
        /\ hooks' \subseteq Events /\ loose' \subseteq Events
    BY DEF EventIInv, TypeOK, Stages, slotVars
  <1> QED
    BY <1>1, <1>2, <1>3

(* The server's calls but for a cancellation. *)
LEMMA ReceiveSafe == ASSUME EventIInv, Received, Receive PROVE EventIInv'
  <1>1. PICK e \in Events :
          /\ row[e] = "absent" /\ row' = [row EXCEPT ![e] = "queued"]
          /\ key' = [key EXCEPT ![e] = origin[subject[e]]] /\ wakeup' = TRUE
          /\ UNCHANGED <<subject, origin, place, attempts, later, disp, got, run, slotVars,
                         inflight, marks, loose, stopping>>
    BY DEF Receive
  <1>2. origin[subject[e]] \in Keys
    BY DEF EventIInv, TypeOK
  <1>3. TypeOK'
    BY <1>1, <1>2 DEF EventIInv, TypeOK, slotVars, marks, stopping
  <1>4. ~Owner(e) /\ \A f \in Events : f # e => key'[f] = key[f]
    BY <1>1 DEF Received, EventIInv, TypeOK
  <1>5. InFlight' /\ OneOwner'
    BY <1>1, <1>4 DEF EventIInv, InFlight, OneOwner, Owner
  <1>6. SlotsCounted' /\ HooksArmed' /\ Waits(line, run)'
    BY <1>1 DEF EventIInv, SlotsCounted, HooksArmed, Waits, slotVars, marks
  <1>7. OffWhenStopping' /\ LooseWhenOff' /\ MarkedWhenEnding' /\ UnwoundOnce' /\ RowHasRunner'
    BY <1>1 DEF EventIInv, TypeOK, OffWhenStopping, LooseWhenOff, MarkedWhenEnding, UnwoundOnce,
           RowHasRunner, Ending, slotVars, marks, stopping
  <1> QED
    BY <1>3, <1>5, <1>6, <1>7 DEF EventIInv

LEMMA ReplaySafe == ASSUME EventIInv, NEW e \in Events, Replay(e) PROVE EventIInv'
  <1>1. TypeOK'
    BY TasksStay DEF EventIInv, TypeOK, Replay, routes, slotVars, marks, stopping, Stages
  <1>2. OffWhenStopping' /\ LooseWhenOff' /\ MarkedWhenEnding' /\ UnwoundOnce' /\ RowHasRunner'
    BY DEF EventIInv, TypeOK, OffWhenStopping, LooseWhenOff, MarkedWhenEnding, UnwoundOnce,
           RowHasRunner, Ending, Replay, slotVars, marks, stopping
  <1> QED
    BY <1>1, <1>2, TasksStay DEF EventIInv, Replay, rows, routes, marks

(* The dispatcher, but for the start of a task. *)
LEMMA SelectSafe == ASSUME EventIInv, Select PROVE EventIInv'
  <1>1. TypeOK'
    BY TasksStay DEF EventIInv, TypeOK, Select, rows, routes, dispatcher, slotVars, marks,
                     stopping, Stages
  <1>2. OffWhenStopping' /\ LooseWhenOff' /\ MarkedWhenEnding' /\ UnwoundOnce' /\ RowHasRunner'
    BY DEF EventIInv, TypeOK, OffWhenStopping, LooseWhenOff, MarkedWhenEnding, UnwoundOnce,
           RowHasRunner, Ending, Select, rows, routes, dispatcher, slotVars, marks, stopping
  <1> QED
    BY <1>1, <1>2, TasksStay DEF EventIInv, Select, rows, routes, marks

LEMMA DueOldest == Due # {} => Oldest(Due) \in Events /\ row[Oldest(Due)] = "queued"
  <1>1. Due \subseteq Events
    BY DEF Due
  <1> QED
    BY <1>1, OldestIn DEF Due

LEMMA ClaimTypes ==
  ASSUME TypeOK, NEW e \in Events, ClaimRow(e)
  PROVE  /\ row' \in [Events -> Statuses] /\ attempts' \in [Events -> 0..(MaxRetries + 1)]
         /\ row' = [row EXCEPT ![e] = "running"]
  BY QueueAssumption DEF TypeOK, ClaimRow, Statuses

LEMMA ClaimSafe == ASSUME EventIInv, Claim PROVE EventIInv'
  <1>1. TypeOK'
    BY TasksStay, DueOldest, ClaimTypes DEF EventIInv, TypeOK, Claim, Statuses, rows, routes,
       dispatcher, slotVars, marks, stopping, Stages
  <1>2. OffWhenStopping' /\ LooseWhenOff' /\ MarkedWhenEnding' /\ UnwoundOnce' /\ RowHasRunner'
    BY DueOldest, ClaimTypes DEF EventIInv, TypeOK, OffWhenStopping, LooseWhenOff,
                                 MarkedWhenEnding, UnwoundOnce,
           RowHasRunner, Ending, Claim, Statuses, rows, routes, dispatcher, slotVars, marks,
           stopping
  <1> QED
    BY <1>1, <1>2, TasksStay DEF EventIInv, Claim, rows, routes, marks

LEMMA BounceSafe == ASSUME EventIInv, Bounce PROVE EventIInv'
  <1>1. TypeOK'
    BY TasksStay DEF EventIInv, TypeOK, Bounce, Bounced, rows, routes, dispatcher, slotVars,
                     marks, stopping, Stages
  <1>2. OffWhenStopping' /\ LooseWhenOff' /\ MarkedWhenEnding' /\ UnwoundOnce' /\ RowHasRunner'
    BY DEF EventIInv, TypeOK, OffWhenStopping, LooseWhenOff, MarkedWhenEnding, UnwoundOnce,
           RowHasRunner, Ending, Bounce, Bounced, rows, routes, dispatcher, slotVars, marks,
           stopping
  <1> QED
    BY <1>1, <1>2, TasksStay DEF EventIInv, Bounce, rows, routes, marks

LEMMA NapEndsSafe == ASSUME EventIInv, NapEnds PROVE EventIInv'
  <1>1. TypeOK'
    BY TasksStay DEF EventIInv, TypeOK, NapEnds, rows, routes, dispatcher, slotVars, marks,
                     stopping, Stages
  <1>2. OffWhenStopping' /\ LooseWhenOff' /\ MarkedWhenEnding' /\ UnwoundOnce' /\ RowHasRunner'
    BY DEF EventIInv, TypeOK, OffWhenStopping, LooseWhenOff, MarkedWhenEnding, UnwoundOnce,
           RowHasRunner, Ending, NapEnds, rows, routes, dispatcher, slotVars, marks, stopping
  <1> QED
    BY <1>1, <1>2, TasksStay DEF EventIInv, NapEnds, rows, routes, marks

LEMMA WaitEndsSafe == ASSUME EventIInv, WaitEnds PROVE EventIInv'
  <1>1. TypeOK'
    BY TasksStay DEF EventIInv, TypeOK, WaitEnds, rows, routes, dispatcher, slotVars, marks,
                     stopping, Stages
  <1>2. OffWhenStopping' /\ LooseWhenOff' /\ MarkedWhenEnding' /\ UnwoundOnce' /\ RowHasRunner'
    BY DEF EventIInv, TypeOK, OffWhenStopping, LooseWhenOff, MarkedWhenEnding, UnwoundOnce,
           RowHasRunner, Ending, WaitEnds, rows, routes, dispatcher, slotVars, marks, stopping
  <1> QED
    BY <1>1, <1>2, TasksStay DEF EventIInv, WaitEnds, rows, routes, marks

LEMMA BackoffElapsesSafe == ASSUME EventIInv, NEW e \in Events, BackoffElapses(e) PROVE EventIInv'
  <1>1. TypeOK'
    BY TasksStay DEF EventIInv, TypeOK, BackoffElapses, rows, routes, dispatcher, slotVars,
                     marks, stopping, Stages
  <1>2. OffWhenStopping' /\ LooseWhenOff' /\ MarkedWhenEnding' /\ UnwoundOnce' /\ RowHasRunner'
    BY DEF EventIInv, TypeOK, OffWhenStopping, LooseWhenOff, MarkedWhenEnding, UnwoundOnce,
           RowHasRunner, Ending, BackoffElapses, rows, routes, dispatcher, slotVars, marks,
           stopping
  <1> QED
    BY <1>1, <1>2, TasksStay DEF EventIInv, BackoffElapses, rows, routes, marks

(* The quiet steps of a shutdown. *)
LEMMA DrainEndsSafe == ASSUME EventIInv, DrainEnds PROVE EventIInv'
  <1>1. TypeOK'
    BY TasksStay DEF EventIInv, TypeOK, DrainEnds, Tasks, rows, routes, dispatcher, slotVars,
                     marks, stopping, Stages
  <1>2. OffWhenStopping' /\ LooseWhenOff' /\ MarkedWhenEnding' /\ UnwoundOnce' /\ RowHasRunner'
    BY DEF EventIInv, TypeOK, OffWhenStopping, LooseWhenOff, MarkedWhenEnding, UnwoundOnce,
           RowHasRunner, Ending, DrainEnds, Tasks, rows, routes, dispatcher, slotVars, marks,
           stopping
  <1> QED
    BY <1>1, <1>2, TasksStay DEF EventIInv, DrainEnds, rows, routes, marks

LEMMA StoppedSafe == ASSUME EventIInv, Stopped PROVE EventIInv'
  <1>1. TypeOK'
    BY TasksStay DEF EventIInv, TypeOK, Stopped, rows, routes, dispatcher, slotVars, marks,
                     stopping, Stages
  <1>2. OffWhenStopping' /\ LooseWhenOff' /\ MarkedWhenEnding' /\ UnwoundOnce' /\ RowHasRunner'
    BY DEF EventIInv, TypeOK, OffWhenStopping, LooseWhenOff, MarkedWhenEnding, UnwoundOnce,
           RowHasRunner, Ending, Stopped, rows, routes, dispatcher, slotVars, marks, stopping
  <1> QED
    BY <1>1, <1>2, TasksStay DEF EventIInv, Stopped, rows, routes, marks

LEMMA StartSafe == ASSUME EventIInv, Start PROVE EventIInv'
  <1>1. TypeOK'
    BY TasksStay DEF EventIInv, TypeOK, Start, Recovered, rows, routes, dispatcher, slotVars,
                     marks, stopping, Stages
  <1>2. OffWhenStopping' /\ LooseWhenOff' /\ MarkedWhenEnding' /\ UnwoundOnce' /\ RowHasRunner'
    BY DEF EventIInv, TypeOK, OffWhenStopping, LooseWhenOff, MarkedWhenEnding, UnwoundOnce,
           RowHasRunner, Ending, Start, Recovered, rows, routes, dispatcher, slotVars, marks,
           stopping
  <1> QED
    BY <1>1, <1>2, TasksStay DEF EventIInv, Start, rows, routes, marks

LEMMA StopSafe == ASSUME EventIInv, Stop PROVE EventIInv'
  <1>1. TypeOK'
    BY SMTT(30), TasksStay, DueOldest, ClaimTypes DEF EventIInv, TypeOK, Stop, Tasks, Bounced,
       Statuses, rows, routes, dispatcher, slotVars, marks, stopping, Stages
  <1>2. OffWhenStopping' /\ LooseWhenOff' /\ MarkedWhenEnding' /\ UnwoundOnce' /\ RowHasRunner'
    BY DueOldest, ClaimTypes DEF EventIInv, TypeOK, OffWhenStopping, LooseWhenOff,
                                 MarkedWhenEnding, UnwoundOnce,
           RowHasRunner, Ending, Stop, Tasks, Bounced, Statuses, rows, routes, dispatcher,
           slotVars, marks, stopping
  <1> QED
    BY <1>1, <1>2, TasksStay DEF EventIInv, Stop, rows, routes, marks

-----------------------------------------------------------------------------
(* The slots, when the task of one event moves. *)
LEMMA SlotsKept ==
  ASSUME EventIInv, NEW e \in Events, NEW to \in Stages, run' = [run EXCEPT ![e] = to],
         free' = IF run[e] \in Holding
                 THEN IF to \in Holding THEN free ELSE free + 1
                 ELSE IF to \in Holding THEN free - 1 ELSE free,
         run[e] \notin Holding /\ to \in Holding => free > 0
  PROVE  SlotsCounted' /\ free' \in 0..Slots
  <1>1. run'[e] = to /\ \A f \in Events : f # e => run'[f] = run[f]
    BY DEF EventIInv, TypeOK
  <1>2. free + Cardinality(Held(run)) = Slots /\ free \in Nat /\ Slots \in Nat
    BY QueueAssumption DEF EventIInv, TypeOK, SlotsCounted, Held
  <1>3. Cardinality(Held(run)) \in Nat /\ Cardinality(Held(run')) \in Nat
    BY HeldFinite
  <1>4. Cardinality(Held(run')) = IF run[e] \in Holding
                                  THEN IF to \in Holding THEN Cardinality(Held(run))
                                       ELSE Cardinality(Held(run)) - 1
                                  ELSE IF to \in Holding THEN Cardinality(Held(run)) + 1
                                       ELSE Cardinality(Held(run))
    <2>1. Cardinality(Held(run')) = IF run[e] \in Holding
                                    THEN IF run'[e] \in Holding THEN Cardinality(Held(run))
                                         ELSE Cardinality(Held(run)) - 1
                                    ELSE IF run'[e] \in Holding THEN Cardinality(Held(run)) + 1
                                         ELSE Cardinality(Held(run))
      <3>1. \A f \in Events : f # e => run'[f] = run[f]
        BY <1>1
      <3> HIDE DEF Held
      <3> QED
        BY ONLY <3>1, HeldMoves, e \in Events
    <2> QED
      BY <1>1, <2>1
  <1>5. free' + Cardinality(Held(run')) = Slots /\ free' \in Nat
    BY <1>2, <1>3, <1>4
  <1>6. SlotsCounted'
    BY <1>5 DEF SlotsCounted, Held
  <1> QED
    BY <1>2, <1>3, <1>5, <1>6

(* A task that has a slot, or has given it back, goes on. *)
LEMMA TaskGoesOn ==
  ASSUME EventIInv, NEW e \in Events, NEW to \in Stages \ {"none", "slot", "unwind"},
         run[e] \notin {"none", "slot"}, run' = [run EXCEPT ![e] = to],
         to \in Holding => run[e] \in Holding,
         free' = IF run[e] \in Holding /\ to \notin Holding THEN free + 1 ELSE free,
         UNCHANGED <<key, line, inflight, loose, proc, todo>>
  PROVE  /\ SlotsCounted' /\ InFlight' /\ OneOwner' /\ Waits(line, run)' /\ UnwoundOnce'
         /\ free' \in 0..Slots /\ run' \in [Events -> Stages]
  <1>1. run'[e] = to /\ \A f \in Events : f # e => run'[f] = run[f]
    BY DEF EventIInv, TypeOK
  <1>2. SlotsCounted' /\ free' \in 0..Slots
    <2>1. free' = IF run[e] \in Holding THEN IF to \in Holding THEN free ELSE free + 1
                  ELSE IF to \in Holding THEN free - 1 ELSE free
      OBVIOUS
    <2>2. to \in Stages
      OBVIOUS
    <2> QED
      BY <2>1, <2>2, SlotsKept
  <1>3. InFlight' /\ OneOwner'
    BY <1>1 DEF EventIInv, InFlight, OneOwner, Owner
  <1>4. Waits(line, run)'
    <2>1. \A k \in 1..Len(line) : line[k] \in Events /\ line[k] # e
      BY DEF EventIInv, TypeOK, Waits
    <2> QED
      BY <1>1, <2>1 DEF EventIInv, Waits
  <1>5. UnwoundOnce'
    BY <1>1 DEF EventIInv, UnwoundOnce, Ending
  <1>6. run' \in [Events -> Stages]
    BY DEF EventIInv, TypeOK, Stages
  <1> QED
    BY <1>2, <1>3, <1>4, <1>5, <1>6

LEMMA OwnedTyped ==
  ASSUME TypeOK, NEW p \in Pulls, NEW i \in Keys
  PROVE  Owned(p, i) \in [Keys -> Keys]
  BY DEF TypeOK, Owned, Keys

LEMMA ResolveSafe == ASSUME EventIInv, NEW e \in Events, Resolve(e) PROVE EventIInv'
  <1>1. PICK to \in {"prep", "ok", "error"} : run' = [run EXCEPT ![e] = to]
    BY DEF Resolve
  <1>2. /\ SlotsCounted' /\ InFlight' /\ OneOwner' /\ Waits(line, run)' /\ UnwoundOnce'
        /\ free' \in 0..Slots /\ run' \in [Events -> Stages]
    BY <1>1, TaskGoesOn DEF Resolve, slotVars, stopping, Stages, Holding
  <1>3. origin' \in [Keys -> Keys] /\ place' \in [Events -> Keys]
    <2>1. TypeOK /\ Issues \subseteq Keys /\ origin[subject[e]] \in Keys
      BY DEF EventIInv, TypeOK, Keys
    <2>2. CASE place' = [place EXCEPT ![e] = origin[subject[e]]] /\ UNCHANGED origin
      BY <2>1, <2>2 DEF TypeOK
    <2>3. CASE subject[e] \in Pulls /\ \E i \in Issues : /\ place' = [place EXCEPT ![e] = i]
                                                        /\ origin' = Owned(subject[e], i)
      BY <2>1, <2>3, OwnedTyped DEF TypeOK
    <2> QED
      BY <2>2, <2>3 DEF Resolve
  <1>4. TypeOK' /\ HooksArmed'
    BY <1>1, <1>2, <1>3 DEF EventIInv, TypeOK, HooksArmed, Resolve, dispatcher, slotVars, marks,
                            stopping, Stages
  <1>5. OffWhenStopping' /\ LooseWhenOff' /\ MarkedWhenEnding' /\ RowHasRunner'
    BY <1>1 DEF EventIInv, TypeOK, OffWhenStopping, LooseWhenOff, MarkedWhenEnding,
           RowHasRunner, Ending, Resolve, dispatcher, slotVars, marks, stopping, Holding
  <1> QED
    BY <1>2, <1>4, <1>5 DEF EventIInv

LEMMA RecordPullSafe == ASSUME EventIInv, NEW e \in Events, RecordPull(e) PROVE EventIInv'
  <1>1. origin' \in [Keys -> Keys]
    BY OwnedTyped DEF EventIInv, TypeOK, RecordPull
  <1>2. TypeOK'
    BY <1>1, TasksStay DEF EventIInv, TypeOK, RecordPull, dispatcher, slotVars, marks, stopping,
                           Stages
  <1>3. OffWhenStopping' /\ LooseWhenOff' /\ MarkedWhenEnding' /\ UnwoundOnce' /\ RowHasRunner'
    BY DEF EventIInv, TypeOK, OffWhenStopping, LooseWhenOff, MarkedWhenEnding, UnwoundOnce,
           RowHasRunner, Ending, RecordPull, dispatcher, slotVars, marks, stopping
  <1> QED
    BY <1>2, <1>3, TasksStay DEF EventIInv, RecordPull, marks

LEMMA PrepareSafe == ASSUME EventIInv, NEW e \in Events, Prepare(e) PROVE EventIInv'
  <1>1. PICK to \in {"spawn", "ok", "error"} : run' = [run EXCEPT ![e] = to]
    BY DEF Prepare
  <1>2. /\ SlotsCounted' /\ InFlight' /\ OneOwner' /\ Waits(line, run)' /\ UnwoundOnce'
        /\ free' \in 0..Slots /\ run' \in [Events -> Stages]
    BY <1>1, TaskGoesOn DEF Prepare, rows, routes, slotVars, stopping, Stages, Holding
  <1>3. TypeOK' /\ HooksArmed'
    BY <1>1, <1>2 DEF EventIInv, TypeOK, HooksArmed, Prepare, rows, routes, dispatcher,
                      slotVars, marks, stopping, Stages
  <1>4. OffWhenStopping' /\ LooseWhenOff' /\ MarkedWhenEnding' /\ RowHasRunner'
    BY <1>1 DEF EventIInv, TypeOK, OffWhenStopping, LooseWhenOff, MarkedWhenEnding,
           RowHasRunner, Ending, Prepare, rows, routes, dispatcher, slotVars, marks, stopping,
           Holding
  <1> QED
    BY <1>2, <1>3, <1>4 DEF EventIInv

LEMMA SpawnedSafe == ASSUME EventIInv, NEW e \in Events, Spawned(e) PROVE EventIInv'
  <1>1. PICK to \in {"killed", "arming"} : run' = [run EXCEPT ![e] = to]
    BY DEF Spawned
  <1>2. /\ SlotsCounted' /\ InFlight' /\ OneOwner' /\ Waits(line, run)' /\ UnwoundOnce'
        /\ free' \in 0..Slots /\ run' \in [Events -> Stages]
    BY <1>1, TaskGoesOn DEF Spawned, rows, routes, slotVars, stopping, Stages, Holding
  <1>3. TypeOK' /\ HooksArmed'
    BY <1>1, <1>2 DEF EventIInv, TypeOK, HooksArmed, Spawned, rows, routes, dispatcher,
                      slotVars, marks, stopping, Stages
  <1>4. OffWhenStopping' /\ LooseWhenOff' /\ MarkedWhenEnding' /\ RowHasRunner'
    BY <1>1 DEF EventIInv, TypeOK, OffWhenStopping, LooseWhenOff, MarkedWhenEnding,
           RowHasRunner, Ending, Spawned, rows, routes, dispatcher, slotVars, marks, stopping,
           Holding
  <1> QED
    BY <1>2, <1>3, <1>4 DEF EventIInv

LEMMA SpawnFailsSafe == ASSUME EventIInv, NEW e \in Events, SpawnFails(e) PROVE EventIInv'
  <1>1. PICK to \in {"error"} : run' = [run EXCEPT ![e] = to]
    BY DEF SpawnFails
  <1>2. /\ SlotsCounted' /\ InFlight' /\ OneOwner' /\ Waits(line, run)' /\ UnwoundOnce'
        /\ free' \in 0..Slots /\ run' \in [Events -> Stages]
    BY <1>1, TaskGoesOn DEF SpawnFails, rows, routes, slotVars, stopping, Stages, Holding
  <1>3. TypeOK' /\ HooksArmed'
    BY <1>1, <1>2 DEF EventIInv, TypeOK, HooksArmed, SpawnFails, rows, routes, dispatcher,
                      slotVars, marks, stopping, Stages
  <1>4. OffWhenStopping' /\ LooseWhenOff' /\ MarkedWhenEnding' /\ RowHasRunner'
    BY <1>1 DEF EventIInv, TypeOK, OffWhenStopping, LooseWhenOff, MarkedWhenEnding,
           RowHasRunner, Ending, SpawnFails, rows, routes, dispatcher, slotVars, marks,
           stopping, Holding
  <1> QED
    BY <1>2, <1>3, <1>4 DEF EventIInv

LEMMA ArmSafe == ASSUME EventIInv, NEW e \in Events, Arm(e) PROVE EventIInv'
  <1>1. PICK to \in {"armed"} : run' = [run EXCEPT ![e] = to]
    BY DEF Arm
  <1>2. /\ SlotsCounted' /\ InFlight' /\ OneOwner' /\ Waits(line, run)' /\ UnwoundOnce'
        /\ free' \in 0..Slots /\ run' \in [Events -> Stages]
    BY <1>1, TaskGoesOn DEF Arm, rows, routes, slotVars, stopping, Stages, Holding
  <1>3. TypeOK' /\ HooksArmed'
    BY <1>1, <1>2 DEF EventIInv, TypeOK, HooksArmed, Arm, rows, routes, dispatcher, slotVars,
                      marks, stopping, Stages
  <1>4. OffWhenStopping' /\ LooseWhenOff' /\ MarkedWhenEnding' /\ RowHasRunner'
    BY <1>1 DEF EventIInv, TypeOK, OffWhenStopping, LooseWhenOff, MarkedWhenEnding,
           RowHasRunner, Ending, Arm, rows, routes, dispatcher, slotVars, marks, stopping, Holding
  <1> QED
    BY <1>2, <1>3, <1>4 DEF EventIInv

LEMMA TurnEndsSafe == ASSUME EventIInv, NEW e \in Events, TurnEnds(e) PROVE EventIInv'
  <1>1. PICK to \in {"ok", "error"} : run' = [run EXCEPT ![e] = to]
    BY DEF TurnEnds
  <1>2. /\ SlotsCounted' /\ InFlight' /\ OneOwner' /\ Waits(line, run)' /\ UnwoundOnce'
        /\ free' \in 0..Slots /\ run' \in [Events -> Stages]
    BY <1>1, TaskGoesOn DEF TurnEnds, rows, routes, slotVars, stopping, Stages, Holding
  <1>3. TypeOK' /\ HooksArmed'
    BY <1>1, <1>2 DEF EventIInv, TypeOK, HooksArmed, TurnEnds, rows, routes, dispatcher,
                      slotVars, marks, stopping, Stages
  <1>4. OffWhenStopping' /\ LooseWhenOff' /\ MarkedWhenEnding' /\ RowHasRunner'
    BY <1>1 DEF EventIInv, TypeOK, OffWhenStopping, LooseWhenOff, MarkedWhenEnding,
           RowHasRunner, Ending, TurnEnds, rows, routes, dispatcher, slotVars, marks, stopping,
           Holding
  <1> QED
    BY <1>2, <1>3, <1>4 DEF EventIInv

LEMMA ReclaimedSafe == ASSUME EventIInv, NEW e \in Events, Reclaimed(e) PROVE EventIInv'
  <1>1. PICK to \in {"releasing"} : run' = [run EXCEPT ![e] = to]
    BY DEF Reclaimed
  <1>2. /\ SlotsCounted' /\ InFlight' /\ OneOwner' /\ Waits(line, run)' /\ UnwoundOnce'
        /\ free' \in 0..Slots /\ run' \in [Events -> Stages]
    BY <1>1, TaskGoesOn DEF Reclaimed, rows, routes, slotVars, stopping, Stages, Holding
  <1>3. TypeOK' /\ HooksArmed'
    BY <1>1, <1>2 DEF EventIInv, TypeOK, HooksArmed, Reclaimed, rows, routes, dispatcher,
                      slotVars, marks, stopping, Stages
  <1>4. OffWhenStopping' /\ LooseWhenOff' /\ MarkedWhenEnding' /\ RowHasRunner'
    BY <1>1 DEF EventIInv, TypeOK, OffWhenStopping, LooseWhenOff, MarkedWhenEnding,
           RowHasRunner, Ending, Reclaimed, rows, routes, dispatcher, slotVars, marks, stopping,
           Holding
  <1> QED
    BY <1>2, <1>3, <1>4 DEF EventIInv

(* The outcome decides the row; the marks of the event go. *)
LEMMA HandleSafe == ASSUME EventIInv, NEW e \in Events, Handle(e) PROVE EventIInv'
  <1>1. PICK to \in {"reclaim", "releasing"} : run' = [run EXCEPT ![e] = to]
    BY DEF Handle
  <1>2. /\ SlotsCounted' /\ InFlight' /\ OneOwner' /\ Waits(line, run)' /\ UnwoundOnce'
        /\ free' \in 0..Slots /\ run' \in [Events -> Stages]
    BY <1>1, TaskGoesOn DEF Handle, GiveBack, routes, stopping, Stages, Holding
  <1>3. \E st \in {"done", "failed", "queued", row[e]} : row' = [row EXCEPT ![e] = st]
    BY DEF EventIInv, TypeOK, Handle, Failed
  <1>4. row' \in [Events -> Statuses] /\ later' \subseteq Events
    <2>1. row \in [Events -> Statuses] /\ later \subseteq Events /\ row[e] \in Statuses
      BY DEF EventIInv, TypeOK, Statuses
    <2>2. later' \in {later, later \cup {e}}
      BY DEF Handle, Failed
    <2>3. row' \in [Events -> Statuses]
      BY <1>3, <2>1 DEF Statuses
    <2> QED
      BY <2>1, <2>2, <2>3
  <1>5. TypeOK' /\ HooksArmed'
    BY <1>1, <1>2, <1>4 DEF EventIInv, TypeOK, HooksArmed, Handle, Forget, Leave, routes,
                            dispatcher, stopping, Statuses, Stages
  <1>6. OffWhenStopping' /\ LooseWhenOff' /\ MarkedWhenEnding'
    BY DEF EventIInv, OffWhenStopping, LooseWhenOff, MarkedWhenEnding, Ending, Handle, Forget,
           dispatcher, stopping
  <1>7. RowHasRunner'
    <2>1. proc = "up" => row'[e] # "running"
      <3>1. proc = "up" => ~Excused(e)
        BY DEF EventIInv, Excused, MarkedWhenEnding, Ending
      <3> QED
        BY <3>1 DEF EventIInv, TypeOK, Handle, Failed
    <2>2. \A f \in Events : f # e => row'[f] = row[f] /\ run'[f] = run[f]
      BY <1>1, <1>3 DEF EventIInv, TypeOK
    <2> QED
      BY <2>1, <2>2 DEF EventIInv, RowHasRunner, Handle, dispatcher, stopping
  <1> QED
    BY <1>2, <1>5, <1>6, <1>7 DEF EventIInv

LEMMA UnwoundSafe == ASSUME EventIInv, NEW e \in Events, Unwound(e) PROVE EventIInv'
  <1>1. run' = [run EXCEPT ![e] = "releasing"]
    BY DEF Unwound
  <1>2. /\ SlotsCounted' /\ InFlight' /\ OneOwner' /\ Waits(line, run)' /\ UnwoundOnce'
        /\ free' \in 0..Slots /\ run' \in [Events -> Stages]
    BY <1>1, TaskGoesOn DEF Unwound, GiveBack, Leave, rows, routes, stopping, Stages, Holding
  <1>3. TypeOK' /\ HooksArmed'
    BY <1>1, <1>2 DEF EventIInv, TypeOK, HooksArmed, Unwound, Forget, Leave, rows, routes,
                      dispatcher, stopping,
                      Stages
  <1>4. OffWhenStopping' /\ LooseWhenOff' /\ MarkedWhenEnding' /\ RowHasRunner'
    BY <1>1 DEF EventIInv, TypeOK, OffWhenStopping, LooseWhenOff, MarkedWhenEnding, UnwoundOnce,
                RowHasRunner, Ending, Unwound, Forget, Leave, rows, routes, dispatcher, stopping
  <1> QED
    BY <1>2, <1>3, <1>4 DEF EventIInv

(* The issue is released by its only owner. *)
LEMMA ReleaseSafe == ASSUME EventIInv, NEW e \in Events, Release(e) PROVE EventIInv'
  <1>1. run' = [run EXCEPT ![e] = "none"] /\ run[e] = "releasing" /\ inflight' = inflight \ {key[e]}
    BY DEF Release
  <1>2. run'[e] = "none" /\ \A f \in Events : f # e => run'[f] = run[f]
    BY <1>1 DEF EventIInv, TypeOK
  <1>3. SlotsCounted' /\ free' \in 0..Slots
    BY <1>1, SlotsKept DEF Release, slotVars, Stages, Holding
  <1>4. InFlight' /\ OneOwner'
    BY <1>1, <1>2 DEF EventIInv, InFlight, OneOwner, Owner, Release, rows, routes
  <1>5. Waits(line, run)'
    <2>1. \A k \in 1..Len(line) : line[k] \in Events /\ line[k] # e
      BY <1>1 DEF EventIInv, TypeOK, Waits
    <2> QED
      BY <1>2, <2>1 DEF EventIInv, Waits, Release, slotVars
  <1>6. TypeOK' /\ HooksArmed'
    BY <1>1, <1>3 DEF EventIInv, TypeOK, HooksArmed, Release, rows, routes, dispatcher, marks,
                      slotVars, stopping
  <1>7. OffWhenStopping' /\ LooseWhenOff' /\ MarkedWhenEnding' /\ UnwoundOnce' /\ RowHasRunner'
    BY <1>1, <1>2 DEF EventIInv, OffWhenStopping, LooseWhenOff, MarkedWhenEnding, UnwoundOnce,
                      RowHasRunner, Ending, Release, rows, routes, dispatcher, marks, stopping,
                      Holding
  <1> QED
    BY <1>3, <1>4, <1>5, <1>6, <1>7 DEF EventIInv

LEMMA LooseEndsSafe == ASSUME EventIInv, NEW e \in Events, LooseEnds(e) PROVE EventIInv'
  <1>1. TypeOK' /\ SlotsCounted'
    BY DEF EventIInv, TypeOK, SlotsCounted, LooseEnds, Leave, rows, routes, dispatcher,
           slotVars, marks, stopping
  <1>2. InFlight' /\ OneOwner' /\ HooksArmed' /\ Waits(line, run)'
    BY DEF EventIInv, InFlight, OneOwner, Owner, HooksArmed, Waits, LooseEnds, Leave, rows,
           routes, slotVars, marks
  <1>3. OffWhenStopping' /\ LooseWhenOff' /\ MarkedWhenEnding' /\ UnwoundOnce' /\ RowHasRunner'
    BY DEF EventIInv, OffWhenStopping, LooseWhenOff, MarkedWhenEnding, UnwoundOnce,
           RowHasRunner, Ending, LooseEnds, Leave, rows, routes, dispatcher, marks, stopping
  <1> QED
    BY <1>1, <1>2, <1>3 DEF EventIInv

(* A hook is fired: the turn of e is killed. *)
LEMMA FireMoves ==
  ASSUME EventIInv, NEW e \in Events, e \in hooks, Fire(e),
         UNCHANGED <<key, line, free, inflight, loose, proc>>, todo' \subseteq todo
  PROVE  /\ SlotsCounted' /\ InFlight' /\ OneOwner' /\ Waits(line, run)' /\ UnwoundOnce'
         /\ free' \in 0..Slots /\ run' \in [Events -> Stages] /\ HooksArmed'
         /\ hooks' \subseteq Events
  <1>1. run' = [run EXCEPT ![e] = "killed"] /\ run[e] = "armed" /\ hooks' = hooks \ {e}
    BY DEF EventIInv, HooksArmed, Fire
  <1>2. run'[e] = "killed" /\ \A f \in Events : f # e => run'[f] = run[f]
    BY <1>1 DEF EventIInv, TypeOK
  <1>3. SlotsCounted' /\ free' \in 0..Slots
    BY <1>1, SlotsKept DEF Stages, Holding
  <1>4. InFlight' /\ OneOwner'
    BY <1>1, <1>2 DEF EventIInv, InFlight, OneOwner, Owner
  <1>5. Waits(line, run)'
    <2>1. \A k \in 1..Len(line) : line[k] \in Events /\ line[k] # e
      BY <1>1 DEF EventIInv, TypeOK, Waits
    <2> QED
      BY <1>2, <2>1 DEF EventIInv, Waits
  <1>6. UnwoundOnce' /\ HooksArmed'
    BY <1>1, <1>2 DEF EventIInv, UnwoundOnce, HooksArmed, Ending
  <1>7. run' \in [Events -> Stages] /\ hooks' \subseteq Events
    BY <1>1 DEF EventIInv, TypeOK, Stages, Holding
  <1> QED
    BY <1>3, <1>4, <1>5, <1>6, <1>7

LEMMA CancelSafe == ASSUME EventIInv, NEW e \in Events, Cancel(e) PROVE EventIInv'
  <1>1. /\ SlotsCounted' /\ InFlight' /\ OneOwner' /\ Waits(line, run)' /\ UnwoundOnce'
        /\ free' \in 0..Slots /\ run' \in [Events -> Stages] /\ HooksArmed'
        /\ hooks' \subseteq Events
    <2>1. CASE e \in hooks
      BY <2>1, FireMoves DEF Cancel, rows, routes, slotVars, stopping
    <2>2. CASE e \notin hooks
      <3>1. UnwoundOnce'
        BY <2>2 DEF EventIInv, UnwoundOnce, Ending, Cancel, stopping
      <3> QED
        BY <2>2, <3>1, TasksStay DEF Cancel, rows, routes
    <2> QED
      BY <2>1, <2>2
  <1>2. TypeOK'
    BY <1>1 DEF EventIInv, TypeOK, Cancel, rows, routes, dispatcher, slotVars, stopping, Stages
  <1>3. OffWhenStopping' /\ LooseWhenOff' /\ MarkedWhenEnding'
    BY DEF EventIInv, OffWhenStopping, LooseWhenOff, MarkedWhenEnding, Ending, Cancel,
           dispatcher, stopping
  <1>4. RowHasRunner'
    <2>1. \A f \in Events : run'[f] = run[f] \/ run'[f] = "killed"
      BY DEF EventIInv, TypeOK, Cancel, Fire
    <2> QED
      BY <2>1 DEF EventIInv, RowHasRunner, Cancel, rows, routes, dispatcher, stopping, Holding
  <1> QED
    BY <1>1, <1>2, <1>3, <1>4 DEF EventIInv

-----------------------------------------------------------------------------
(* The start of a task: no event of the issue has one. *)
LEMMA ResumeSafe == ASSUME EventIInv, Resume PROVE EventIInv'
  <1>1. CASE got # 0 /\ MayStart(got)
    <2>1. /\ got \in Events /\ disp = "resume" /\ disp' = "top" /\ got' = 0 /\ wakeup' = wakeup
          /\ inflight' = inflight \cup {key[got]} /\ run' = [run EXCEPT ![got] = "slot"]
          /\ line' = Append(line, got) /\ key[got] \notin inflight
          /\ UNCHANGED <<rows, place, free, marks, loose, stopping, budget>>
      BY <1>1 DEF EventIInv, TypeOK, Resume, MayStart
    <2>2. /\ run[got] = "none" /\ loose = {}
          /\ \A e \in Events : run[e] # "none" => key[e] # key[got]
      BY <2>1 DEF EventIInv, InFlight, LooseWhenOff
    <2>3. run'[got] = "slot" /\ \A e \in Events : e # got => run'[e] = run[e]
      BY <2>1 DEF EventIInv, TypeOK
    <2>4. SlotsCounted' /\ free' \in 0..Slots
      BY <2>1, <2>2, SlotsKept DEF Stages, Holding
    <2>5. line' \in Seq(Events) /\ Waits(line, run)'
      <3>1. line \in Seq(Events) /\ Waits(line, run)
        BY DEF EventIInv, TypeOK
      <3>2. Append(line, got) \in Seq(Events) /\ Waits(Append(line, got), run')
        BY <2>1, <2>2, <2>3, <3>1, JoinLine
      <3> QED
        BY <2>1, <3>2 DEF Waits
    <2>6. InFlight' /\ OneOwner'
      BY <2>1, <2>2, <2>3 DEF EventIInv, InFlight, OneOwner, Owner, rows, routes
    <2>7. TypeOK' /\ HooksArmed'
      BY <2>1, <2>2, <2>4, <2>5 DEF EventIInv, TypeOK, HooksArmed, rows, routes, marks, stopping
    <2>8. OffWhenStopping' /\ LooseWhenOff' /\ MarkedWhenEnding' /\ UnwoundOnce' /\ RowHasRunner'
      BY <2>1, <2>2, <2>3 DEF EventIInv, OffWhenStopping, LooseWhenOff, MarkedWhenEnding,
                              UnwoundOnce, RowHasRunner, Ending, rows, routes, marks, stopping
    <2> QED
      BY <2>4, <2>5, <2>6, <2>7, <2>8 DEF EventIInv
  <1>2. CASE ~(got # 0 /\ MayStart(got))
    <2>1. /\ got' = got
          /\ UNCHANGED <<run, line, inflight, rows, place, free, marks, loose, stopping>>
          /\ disp = "resume" /\ disp' \in {"wait", "bounce"} /\ wakeup' \in BOOLEAN
          /\ got = 0 \/ disp' = "bounce"
      BY <1>2 DEF EventIInv, TypeOK, Resume
    <2>2. TypeOK'
      BY <2>1, TasksStay DEF EventIInv, TypeOK, rows, routes, slotVars, marks, stopping, Stages
    <2>3. OffWhenStopping' /\ LooseWhenOff' /\ MarkedWhenEnding' /\ UnwoundOnce' /\ RowHasRunner'
      BY <2>1 DEF EventIInv, TypeOK, OffWhenStopping, LooseWhenOff, MarkedWhenEnding, UnwoundOnce,
                  RowHasRunner, Ending, rows, routes, marks, stopping, Events
    <2> QED
      BY <2>1, <2>2, <2>3, TasksStay DEF EventIInv, rows, routes, slotVars, marks
  <1> QED
    BY <1>1, <1>2

LEMMA TakeSlotSafe == ASSUME EventIInv, TakeSlot PROVE EventIInv'
  <1> DEFINE h == Head(line)
  <1>1. /\ line # <<>> /\ free > 0 /\ line' = Tail(line) /\ free' = free - 1
        /\ run' = [run EXCEPT ![h] = "resolve"]
        /\ UNCHANGED <<rows, place, dispatcher, inflight, marks, loose, stopping>>
    BY DEF TakeSlot
  <1>2. line \in Seq(Events) /\ Waits(line, run)
    BY DEF EventIInv, TypeOK
  <1>3. h \in Events /\ run[h] = "slot"
    BY <1>1, <1>2, LeaveLine
  <1> HIDE DEF h
  <1>4. run'[h] = "resolve" /\ \A e \in Events : e # h => run'[e] = run[e]
    BY <1>1, <1>3 DEF EventIInv, TypeOK
  <1>5. line' \in Seq(Events) /\ Waits(line, run)'
    <2>1. \A e \in Events : e # Head(line) => run'[e] = run[e]
      BY <1>4 DEF h
    <2>2. Tail(line) \in Seq(Events) /\ Waits(Tail(line), run')
      BY ONLY <1>1, <1>2, <2>1, LeaveLine
    <2> QED
      BY <1>1, <2>2 DEF Waits
  <1>6. SlotsCounted' /\ free' \in 0..Slots
    BY <1>1, <1>3, SlotsKept DEF Stages, Holding
  <1>7. InFlight' /\ OneOwner'
    BY <1>1, <1>3, <1>4 DEF EventIInv, InFlight, OneOwner, Owner, rows, routes
  <1>8. TypeOK' /\ HooksArmed'
    BY <1>1, <1>3, <1>5, <1>6 DEF EventIInv, TypeOK, HooksArmed, rows, routes, dispatcher,
                                  marks, stopping,
                                  Stages, Holding
  <1>9. OffWhenStopping' /\ LooseWhenOff' /\ MarkedWhenEnding' /\ UnwoundOnce' /\ RowHasRunner'
    BY <1>1, <1>3, <1>4 DEF EventIInv, OffWhenStopping, LooseWhenOff, MarkedWhenEnding,
       UnwoundOnce, RowHasRunner, Ending, rows, routes, dispatcher, marks, stopping, Holding
  <1> QED
    BY <1>5, <1>6, <1>7, <1>8, <1>9 DEF EventIInv

-----------------------------------------------------------------------------
(* The interruption of one task, and the end of the process. *)
LEMMA CancelTaskMoves ==
  ASSUME EventIInv, NEW e \in Events, e \notin hooks, e \in todo, run[e] # "none", CancelTask(e),
         todo' = todo \ {e}, proc = "interrupting", UNCHANGED <<rows, dispatcher, inflight, proc>>
  PROVE  EventIInv'
  <1>1. run[e] \notin {"armed", "unwind"}
    BY DEF EventIInv, HooksArmed, UnwoundOnce
  <1>2. PICK to \in {"none", "unwind", "releasing"} :
          /\ run' = [run EXCEPT ![e] = to] /\ (to = "unwind" <=> run[e] = "prep")
    BY DEF CancelTask
  <1>3. run'[e] = to /\ \A f \in Events : f # e => run'[f] = run[f]
    BY <1>2 DEF EventIInv, TypeOK
  <1>4. SlotsCounted' /\ free' \in 0..Slots
    <2>1. run[e] \in Stages
      BY DEF EventIInv, TypeOK, Stages
    <2>2. free' = IF run[e] \in Holding THEN IF to \in Holding THEN free ELSE free + 1
                  ELSE IF to \in Holding THEN free - 1 ELSE free
      BY <1>1, <1>2, <2>1 DEF CancelTask, Stages, Holding
    <2>3. to \in Stages /\ (run[e] \notin Holding /\ to \in Holding => free > 0)
      BY <1>2 DEF Stages, Holding
    <2> QED
      BY <1>2, <2>2, <2>3, SlotsKept
  <1>5. line' \in Seq(Events) /\ Waits(line, run)'
    <2>1. line \in Seq(Events) /\ Waits(line, run)
      BY DEF EventIInv, TypeOK
    <2>2. Unlined(e) \in Seq(Events) /\ Waits(Unlined(e), run')
      BY <1>3, <2>1, UnlinedWaits
    <2>3. line' = Unlined(e)
      BY DEF CancelTask
    <2> QED
      BY <2>2, <2>3 DEF Waits
  <1>6. InFlight' /\ OneOwner'
    <2>1. loose' \subseteq loose \cup {e} /\ key' = key /\ inflight' = inflight
      BY DEF CancelTask, rows, routes
    <2>2. \A f \in Events : Owner(f)' => Owner(f)
      BY <1>3, <2>1 DEF Owner
    <2>3. OneOwner'
      BY <2>1, <2>2 DEF EventIInv, OneOwner
    <2> QED
      BY <1>3, <2>1, <2>3 DEF EventIInv, InFlight
  <1>7. /\ hooks' = hooks /\ {cancelled', interrupted'} \subseteq SUBSET Events
        /\ loose' \subseteq Events
    <2>1. /\ hooks' \in {hooks, hooks \ {e}} /\ cancelled' \in {cancelled, cancelled \ {e}}
          /\ interrupted' \in {interrupted \cup {e}, interrupted \ {e}}
          /\ loose' \in {loose, loose \cup {e}}
      BY DEF CancelTask, Forget
    <2>2. hooks \ {e} = hooks
      OBVIOUS
    <2>3. {cancelled, interrupted, loose} \subseteq SUBSET Events
      BY DEF EventIInv, TypeOK
    <2> QED
      BY <2>1, <2>2, <2>3
  <1>8. TypeOK'
    <2>1. place' \in [Events -> Keys]
      BY DEF EventIInv, TypeOK, CancelTask, Leave
    <2> QED
      BY <1>2, <1>4, <1>5, <1>7, <2>1 DEF EventIInv, TypeOK, rows, routes, dispatcher, Stages,
                                          Holding
  <1>9. HooksArmed'
    BY <1>1, <1>2, <1>3, <1>7 DEF EventIInv, HooksArmed
  <1>10. OffWhenStopping' /\ LooseWhenOff' /\ MarkedWhenEnding' /\ UnwoundOnce' /\ RowHasRunner'
    BY <1>2, <1>3 DEF EventIInv, OffWhenStopping, LooseWhenOff, MarkedWhenEnding, UnwoundOnce,
       RowHasRunner, Ending, dispatcher
  <1> QED
    BY <1>4, <1>5, <1>6, <1>8, <1>9, <1>10 DEF EventIInv

LEMMA InterruptSafe == ASSUME EventIInv, NEW e \in Events, Interrupt(e) PROVE EventIInv'
  <1>1. /\ proc = "interrupting" /\ e \in todo /\ todo' = todo \ {e}
        /\ UNCHANGED <<rows, dispatcher, inflight, proc>>
    BY DEF Interrupt
  <1>2. CASE run[e] = "none" \/ e \in hooks
    <2>1. /\ SlotsCounted' /\ InFlight' /\ OneOwner' /\ Waits(line, run)' /\ UnwoundOnce'
          /\ free' \in 0..Slots /\ run' \in [Events -> Stages] /\ HooksArmed'
          /\ hooks' \subseteq Events /\ line' = line /\ loose' = loose
      <3>1. CASE run[e] = "none"
        <4>1. UnwoundOnce'
          BY <1>1, <3>1 DEF EventIInv, UnwoundOnce, Ending, Interrupt
        <4> QED
          BY <1>1, <3>1, <4>1, TasksStay DEF Interrupt, rows, routes, slotVars, marks
      <3>2. CASE run[e] # "none" /\ e \in hooks
        BY <1>1, <3>2, FireMoves DEF Interrupt, rows, routes, slotVars
      <3> QED
        BY <1>2, <3>1, <3>2
    <2>2. {cancelled', interrupted'} \subseteq SUBSET Events
      BY <1>2 DEF EventIInv, TypeOK, Interrupt, marks
    <2>3. TypeOK'
      <3>1. place' = place
        BY <1>2 DEF Interrupt
      <3> QED
        BY <1>1, <2>1, <2>2, <3>1 DEF EventIInv, TypeOK, rows, routes, dispatcher, Stages
    <2>4. OffWhenStopping' /\ LooseWhenOff' /\ MarkedWhenEnding' /\ RowHasRunner'
      BY <1>1, <2>1 DEF EventIInv, OffWhenStopping, LooseWhenOff, MarkedWhenEnding, RowHasRunner,
                        Ending, dispatcher
    <2> QED
      BY <2>1, <2>3, <2>4 DEF EventIInv
  <1>3. CASE ~(run[e] = "none" \/ e \in hooks)
    BY <1>1, <1>3, CancelTaskMoves DEF Interrupt
  <1> QED
    BY <1>2, <1>3

(* A process that has ended holds nothing. *)
LEMMA NothingHeld ==
  ASSUME NEW r, r = [e \in Events |-> "none"]
  PROVE  Cardinality({e \in Events : r[e] \in Holding}) = 0
  <1>1. {e \in Events : r[e] \in Holding} = {}
    BY DEF Holding
  <1> QED
    BY <1>1, FS_EmptySet

LEMMA FreshSafe ==
  ASSUME EventIInv, Fresh, proc' = "down", UNCHANGED rows
  PROVE  EventIInv'
  <1>1. SlotsCounted' /\ free' \in 0..Slots
    <2>1. Cardinality({e \in Events : run'[e] \in Holding}) = 0 /\ free' = Slots
      BY NothingHeld DEF Fresh
    <2> QED
      BY <2>1, QueueAssumption DEF SlotsCounted
  <1>2. line' \in Seq(Events) /\ Waits(line, run)'
    BY DEF Fresh, Waits
  <1>3. TypeOK'
    BY <1>1, <1>2 DEF EventIInv, TypeOK, Fresh, rows, routes
  <1>4. /\ InFlight' /\ OneOwner' /\ OffWhenStopping' /\ LooseWhenOff' /\ MarkedWhenEnding'
        /\ UnwoundOnce' /\ HooksArmed' /\ RowHasRunner'
    BY DEF InFlight, OneOwner, Owner, OffWhenStopping, LooseWhenOff, MarkedWhenEnding,
           UnwoundOnce, HooksArmed, RowHasRunner, Ending, Fresh
  <1> QED
    BY <1>1, <1>2, <1>3, <1>4 DEF EventIInv

LEMMA TasksStart == Init => EventIInv
  <1> SUFFICES ASSUME Init PROVE EventIInv
    OBVIOUS
  <1>1. SlotsCounted /\ free \in 0..Slots
    <2>1. Cardinality({e \in Events : run[e] \in Holding}) = 0 /\ free = Slots
      BY NothingHeld DEF Init
    <2> QED
      BY <2>1, QueueAssumption DEF SlotsCounted
  <1>2. line \in Seq(Events) /\ Waits(line, run)
    BY DEF Init, Waits
  <1>3. TypeOK
    <2>1. 0 \in 0..(MaxRetries + 1)
      BY QueueAssumption
    <2>2. /\ row \in [Events -> {"absent", "queued", "running", "done", "failed"}]
          /\ attempts \in [Events -> 0..(MaxRetries + 1)]
          /\ run \in [Events -> {"none", "slot", "reclaim", "releasing"} \cup Holding]
      BY <2>1 DEF Init
    <2>4. origin \in [Keys -> Keys]
      BY DEF Init
    <2>3. {hooks, cancelled, interrupted, loose, todo} \subseteq SUBSET Events
      BY DEF Init
    <2> QED
      BY <1>1, <1>2, <2>2, <2>3, <2>4 DEF TypeOK, Init
  <1>4. /\ InFlight /\ OneOwner /\ OffWhenStopping /\ LooseWhenOff /\ MarkedWhenEnding
        /\ UnwoundOnce /\ HooksArmed /\ RowHasRunner
    BY DEF InFlight, OneOwner, Owner, OffWhenStopping, LooseWhenOff, MarkedWhenEnding,
           UnwoundOnce, HooksArmed, RowHasRunner, Ending, Init
  <1> QED
    BY <1>1, <1>2, <1>3, <1>4 DEF EventIInv

-----------------------------------------------------------------------------
LEMMA TasksStep == EventIInv /\ Received /\ [Next]_vars => EventIInv'
  <1> SUFFICES ASSUME EventIInv, Received, [Next]_vars PROVE EventIInv'
    OBVIOUS
  <1>1. CASE UNCHANGED vars
    <2>1. TypeOK' /\ SlotsCounted'
      BY <1>1 DEF EventIInv, TypeOK, SlotsCounted, vars, rows, routes, dispatcher, slotVars,
                  marks, stopping
    <2>2. InFlight' /\ OneOwner' /\ HooksArmed' /\ Waits(line, run)'
      BY <1>1 DEF EventIInv, InFlight, OneOwner, Owner, HooksArmed, Waits,
                  vars, rows, routes, slotVars, marks
    <2>3. OffWhenStopping' /\ LooseWhenOff' /\ MarkedWhenEnding' /\ UnwoundOnce' /\ RowHasRunner'
      BY <1>1 DEF EventIInv, OffWhenStopping, LooseWhenOff, MarkedWhenEnding, UnwoundOnce,
                  RowHasRunner, Ending, vars, rows, routes, dispatcher, marks, stopping
    <2> QED
      BY <2>1, <2>2, <2>3 DEF EventIInv
  <1>2. CASE Dispatcher
    BY <1>2, SelectSafe, ClaimSafe, ResumeSafe, BounceSafe, NapEndsSafe,
       WaitEndsSafe DEF Dispatcher
  <1>3. CASE Shutdown
    <2>1. CASE Exit
      BY <2>1, FreshSafe DEF Exit
    <2> QED
      BY <1>3, <2>1, DrainEndsSafe, StoppedSafe, StartSafe, InterruptSafe DEF Shutdown
  <1>4. CASE Receive \/ TakeSlot \/ Stop \/ Crash
    <2>1. CASE Crash
      BY <2>1, FreshSafe DEF Crash
    <2> QED
      BY <1>4, <2>1, ReceiveSafe, TakeSlotSafe, StopSafe
  <1>5. ASSUME NEW e \in Events,
               Replay(e) \/ Cancel(e) \/ BackoffElapses(e) \/ RecordPull(e) \/ Task(e)
        PROVE  EventIInv'
    <2>1. CASE Task(e)
      BY <2>1, ResolveSafe, PrepareSafe, SpawnedSafe, SpawnFailsSafe, ArmSafe, TurnEndsSafe,
         LooseEndsSafe,
         HandleSafe, ReclaimedSafe, ReleaseSafe, UnwoundSafe DEF Task
    <2> QED
      BY <1>5, <2>1, ReplaySafe, CancelSafe, BackoffElapsesSafe, RecordPullSafe
  <1> QED
    BY <1>1, <1>2, <1>3, <1>4, <1>5 DEF Next

(* A row that was received is never absent again. *)
LEMMA RowsStay ==
  ASSUME EventIInv, [Next]_vars, NEW e \in Events, row[e] # "absent"
  PROVE  row'[e] # "absent"
  <1>1. row \in [Events -> Statuses]
    BY DEF EventIInv, TypeOK, Statuses
  <1>2. CASE Dispatcher
    BY <1>1, <1>2 DEF Dispatcher, Select, Claim, ClaimRow, Resume, Bounce, Bounced, NapEnds,
                      WaitEnds, rows
  <1>3. CASE Shutdown \/ Stop \/ Crash
    BY <1>1, <1>3 DEF Shutdown, DrainEnds, Stopped, Exit, Start, Interrupt, Stop, ClaimRow,
                      Bounced,
                      Crash, rows
  <1>4. ASSUME NEW f \in Events, Handle(f) PROVE row'[e] # "absent"
    BY <1>1, <1>4 DEF Handle, Failed
  <1>5. ASSUME NEW f \in Events, Task(f), ~Handle(f) PROVE row'[e] # "absent"
    BY <1>5 DEF Task, Resolve, Prepare, Spawned, SpawnFails, Arm, TurnEnds, LooseEnds,
                Reclaimed, Release, Unwound, rows
  <1> QED
    BY <1>1, <1>2, <1>3, <1>4, <1>5 DEF Next, vars, rows, Receive, TakeSlot, Replay, Cancel,
       BackoffElapses, RecordPull

(* A step gives a task only to the event in the dispatcher's hands, and    *)
(* only a claim puts an event there.                                       *)
LEMMA OwnersStay ==
  ASSUME EventIInv, [Next]_vars, ~Claim, NEW e \in Events, Owner(e)' \/ e = got'
  PROVE  Owner(e) \/ e = got
  <1>1. run \in [Events -> Stages] /\ 0 \notin Events
    BY DEF EventIInv, TypeOK, Stages, Events
  <1>2. CASE Dispatcher
    BY <1>1, <1>2 DEF Dispatcher, Select, Resume, Bounce, NapEnds, WaitEnds, Owner
  <1>3. CASE Fresh
    BY <1>1, <1>3 DEF Fresh, Owner
  <1>4. ASSUME NEW f \in Events, Interrupt(f) PROVE Owner(e) \/ e = got
    BY <1>1, <1>4 DEF Interrupt, CancelTask, Fire, Owner, dispatcher, EventIInv, HooksArmed
  <1>5. CASE DrainEnds \/ Stopped \/ Start \/ Stop \/ Receive \/ UNCHANGED vars
    BY <1>1, <1>5 DEF DrainEnds, Stopped, Start, Stop, Receive, Owner, dispatcher, vars
  <1>6. CASE TakeSlot
    <2>1. Head(line) \in Events /\ run[Head(line)] = "slot"
      BY <1>6, LeaveLine DEF TakeSlot, EventIInv, TypeOK
    <2> QED
      BY <1>1, <1>6, <2>1 DEF TakeSlot, Owner, dispatcher
  <1>7. ASSUME NEW f \in Events, Task(f) PROVE Owner(e) \/ e = got
    BY <1>1, <1>7 DEF Task, Resolve, Prepare, Spawned, SpawnFails, Arm, TurnEnds, LooseEnds,
       Handle, Reclaimed, Release, Unwound, Owner, dispatcher
  <1>8. ASSUME NEW f \in Events, Replay(f) \/ Cancel(f) \/ BackoffElapses(f) \/ RecordPull(f)
        PROVE  Owner(e) \/ e = got
    BY <1>1, <1>8 DEF Replay, Cancel, Fire, BackoffElapses, RecordPull, Owner, dispatcher,
       EventIInv, HooksArmed
  <1> QED
    BY <1>2, <1>3, <1>4, <1>5, <1>6, <1>7, <1>8 DEF Next, Shutdown, Exit, Crash

LEMMA ReceivedStep == EventIInv /\ Received /\ [Next]_vars => Received'
  <1> SUFFICES ASSUME EventIInv, Received, [Next]_vars, NEW e \in Events,
                      Owner(e)' \/ e = got'
               PROVE  row'[e] # "absent"
    BY DEF Received
  <1>1. CASE ~Claim
    BY <1>1, OwnersStay, RowsStay DEF Received
  <1>2. CASE Claim
    <2>1. CASE Owner(e)
      BY <2>1, RowsStay DEF Received
    <2>2. CASE ~Owner(e)
      <3>1. e = Oldest(Due) /\ ClaimRow(e)
        BY <1>2, <2>2 DEF Claim, Owner, Events
      <3> QED
        BY <3>1 DEF ClaimRow, EventIInv, TypeOK
    <2> QED
      BY <2>1, <2>2
  <1> QED
    BY <1>1, <1>2

(* Routing, resolving and recording leave the issues where they are. *)
LEMMA HomesStep == EventIInv /\ RoutedHome /\ [Next]_vars => RoutedHome'
  <1> SUFFICES ASSUME EventIInv, RoutedHome, [Next]_vars PROVE RoutedHome'
    OBVIOUS
  <1>1. TypeOK /\ \A i \in Issues : i \in Keys /\ i \notin Pulls
    BY QueueAssumption DEF EventIInv, Keys
  <1>2. CASE UNCHANGED <<routes, place>>
    BY <1>2 DEF RoutedHome, routes
  <1>3. CASE Receive
    BY <1>1, <1>3 DEF Receive, RoutedHome, TypeOK
  <1>4. ASSUME NEW e \in Events, Resolve(e) PROVE RoutedHome'
    <2>1. subject' = subject /\ key' = key
      BY <1>4 DEF Resolve
    <2>2. CASE place' = [place EXCEPT ![e] = origin[subject[e]]] /\ UNCHANGED origin
      BY <1>1, <2>1, <2>2 DEF RoutedHome, TypeOK
    <2>3. CASE subject[e] \in Pulls /\ \E i \in Issues : /\ place' = [place EXCEPT ![e] = i]
                                                        /\ origin' = Owned(subject[e], i)
      BY <1>1, <2>1, <2>3 DEF RoutedHome, TypeOK, Owned
    <2> QED
      BY <1>4, <2>2, <2>3 DEF Resolve
  <1>5. ASSUME NEW e \in Events, RecordPull(e) PROVE RoutedHome'
    BY <1>1, <1>5 DEF RecordPull, RoutedHome, Owned
  <1>6. ASSUME NEW e \in Events, Leave(e) \/ UNCHANGED place, UNCHANGED routes
        PROVE  RoutedHome'
    BY <1>1, <1>6 DEF Leave, RoutedHome, TypeOK, routes
  <1>7. CASE Fresh /\ UNCHANGED routes
    BY <1>1, <1>7 DEF Fresh, RoutedHome, TypeOK, routes
  <1>8. CASE Dispatcher \/ TakeSlot \/ Stop \/ DrainEnds \/ Stopped \/ Start \/ UNCHANGED vars
    BY <1>2, <1>8 DEF Dispatcher, Select, Claim, Resume, Bounce, NapEnds, WaitEnds, TakeSlot,
       Stop, DrainEnds, Stopped, Start, vars, rows, routes
  <1>9. CASE Exit \/ Crash
    BY <1>7, <1>9 DEF Exit, Crash, rows
  <1>10. ASSUME NEW e \in Events, Interrupt(e) PROVE RoutedHome'
    BY <1>6, <1>10 DEF Interrupt, CancelTask, rows
  <1>11. ASSUME NEW e \in Events, Handle(e) \/ Unwound(e) \/ LooseEnds(e) PROVE RoutedHome'
    BY <1>6, <1>11 DEF Handle, Unwound, LooseEnds, rows
  <1>12. ASSUME NEW e \in Events,
                Replay(e) \/ Cancel(e) \/ BackoffElapses(e) \/ Prepare(e) \/ Spawned(e)
                \/ SpawnFails(e) \/ Arm(e) \/ TurnEnds(e) \/ Reclaimed(e) \/ Release(e)
         PROVE  RoutedHome'
    BY <1>2, <1>12 DEF Replay, Cancel, BackoffElapses, Prepare, Spawned, SpawnFails, Arm,
       TurnEnds, Reclaimed, Release, rows
  <1> QED
    BY <1>3, <1>4, <1>5, <1>8, <1>9, <1>10, <1>11, <1>12 DEF Next, Shutdown, Task

QueueIInv == EventIInv /\ Received /\ RoutedHome

LEMMA QueueStart == Init => QueueIInv
  <1>1. Init => Received /\ RoutedHome
    BY DEF Init, Received, RoutedHome, Owner, Events, Keys
  <1> QED
    BY <1>1, TasksStart DEF QueueIInv

LEMMA QueueStep == QueueIInv /\ [Next]_vars => QueueIInv'
  BY TasksStep, ReceivedStep, HomesStep DEF QueueIInv

(* However deliveries, replays, cancellations, crashes and shutdowns come, *)
(* the invariant holds: where a task is says who has its key, its slot and *)
(* its hook.                                                               *)
THEOREM QueueInvariant == Spec => []QueueIInv
  BY QueueStart, QueueStep, PTL DEF Spec

(* A key has one run at a time, a thread that has outlived its task        *)
(* included; two events meet in a workspace only if one has strayed from   *)
(* its key; and every slot is free or held by one task.                    *)
THEOREM QueueCorrect == Spec => []QueueInv
  <1>1. QueueIInv => QueueInv
    <2> SUFFICES ASSUME QueueIInv PROVE QueueInv
      OBVIOUS
    <2>1. \A e \in Events : Active(e) => Owner(e)
      BY DEF Active, Owner, Holding
    <2>2. OneRunPerKey
      BY <2>1 DEF QueueIInv, EventIInv, OneOwner, OneRunPerKey
    <2>3. \A e \in Events : ~Strayed(e) => place[e] = key[e]
      BY DEF QueueIInv, EventIInv, TypeOK, RoutedHome, Strayed, Keys
    <2>4. \A e \in Events : \A k \in InUse(e) : Active(e) /\ (~Strayed(e) => k = key[e])
      BY <2>3 DEF InUse, Active
    <2>5. OneUserUnlessStrayed
      BY <2>2, <2>4 DEF OneUserUnlessStrayed, OneRunPerKey
    <2> QED
      BY <2>2, <2>5 DEF QueueIInv, EventIInv, QueueInv
  <1> QED
    BY <1>1, QueueInvariant, PTL

(* While the process is up, no running row waits for a restart to be found. *)
THEOREM RowHasRunnerCorrect == Spec => []RowHasRunner
  <1>1. QueueIInv => RowHasRunner
    BY DEF QueueIInv, EventIInv
  <1> QED
    BY <1>1, QueueInvariant, PTL

(* Only the handling of an outcome fails a row, and it leaves an           *)
(* interrupted event alone unless the operator had cancelled it.           *)
THEOREM InterruptedStaysCorrect == Spec => InterruptedStays
  <1>1. QueueIInv /\ [Next]_vars =>
          \A e \in Events : e \in interrupted /\ row'[e] = "failed" /\ row[e] # "failed"
                            => e \in cancelled
    <2> SUFFICES ASSUME EventIInv, [Next]_vars, NEW e \in Events, e \in interrupted,
                        row'[e] = "failed", row[e] # "failed"
                 PROVE  e \in cancelled
      BY DEF QueueIInv
    <2>1. row \in [Events -> Statuses]
      BY DEF EventIInv, TypeOK, Statuses
    <2>2. PICK f \in Events : Handle(f)
      <3>1. ~Dispatcher
        BY <2>1 DEF Dispatcher, Select, Claim, ClaimRow, Resume, Bounce, Bounced, NapEnds,
                    WaitEnds, rows, routes
      <3>2. ~Shutdown /\ ~Stop /\ ~Crash
        BY <2>1 DEF Shutdown, DrainEnds, Stopped, Exit, Start, Interrupt, Stop, ClaimRow, Bounced,
                    Crash, rows, routes
      <3>3. row' # row
        OBVIOUS
      <3>4. \E f \in Events : Handle(f)
        BY <2>1, <3>1, <3>2, <3>3 DEF Next, vars, rows, routes, Receive, TakeSlot, Replay, Cancel,
           BackoffElapses, RecordPull, Task, Resolve, Prepare, Spawned, SpawnFails, Arm,
           TurnEnds, LooseEnds,
           Reclaimed, Release, Unwound
      <3> QED
        BY <3>4
    <2> QED
      BY <2>1, <2>2 DEF Handle, Failed, Excused
  <1> QED
    BY <1>1, QueueInvariant, PTL DEF Spec, InterruptedStays
=============================================================================
